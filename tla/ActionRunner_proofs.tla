-------------------------- MODULE ActionRunner_proofs --------------------------
(* What holds of the action runner for any number of actions and calls, for  *)
(* any policies and cooldowns: executions of one action do not overlap, so a *)
(* pulse writes back what the parameter had, and calls go on in their order. *)
EXTENDS ActionRunner, SequenceTheorems, TLAPS

-----------------------------------------------------------------------------
(* The microtask queue.                                                      *)

\* The queued jobs.
Jobs == Range(micro)
Queued(kind, r) == <<kind, r>> \in Jobs

\* A job that will start or release a waiting run.
Releasing(x) == x[1] \in {"go", "adopt"}

\* Job x may come before job y, when rs are the runs: no job is there twice, an
\* execution is handed on before it is finished, and finished before a run of its
\* action is released; the waiting runs of an action are released one at a time,
\* replacing ones in the order of their tickets.
MayPrecede(rs, x, y) ==
  /\ x # y
  /\ ~(x[1] = "finish" /\ y = <<"resolve", x[2]>>)
  /\ Releasing(x) /\ rs[x[2]].action = rs[y[2]].action =>
       /\ y[1] # "finish"
       /\ Releasing(y) => x[1] = "go" /\ y[1] = "go" /\ rs[x[2]].ticket < rs[y[2]].ticket

\* Every job of s may come before those after it.
Ordered(rs, s) ==
  \A i, j \in DOMAIN s : i < j => MayPrecede(rs, s[i], s[j])

\* What two queues hold in a row.
LEMMA ElementsOfConcat ==
  ASSUME NEW S, NEW s \in Seq(S), NEW t \in Seq(S)
  PROVE  /\ s \o t \in Seq(S)
         /\ Range(s \o t) = Range(s) \cup Range(t)
BY ConcatProperties, RangeConcatenation

LEMMA OrderedConcat ==
  ASSUME NEW S, NEW s \in Seq(S), NEW t \in Seq(S),
         NEW rs, NEW rs2,
         Ordered(rs, s),
         \A x, y \in Range(s) : MayPrecede(rs, x, y) => MayPrecede(rs2, x, y),
         \A x \in Range(s), y \in Range(t) : MayPrecede(rs2, x, y),
         Ordered(rs2, t)
  PROVE  Ordered(rs2, s \o t)
<1>1. /\ Len(s \o t) = Len(s) + Len(t)
      /\ \A i \in 1..Len(s) + Len(t) :
           (s \o t)[i] = IF i <= Len(s) THEN s[i] ELSE t[i - Len(s)]
  BY ConcatProperties
<1>2. /\ Len(s) \in Nat /\ DOMAIN s = 1..Len(s)
      /\ Len(t) \in Nat /\ DOMAIN t = 1..Len(t)
      /\ DOMAIN (s \o t) = 1..Len(s \o t)
  <2>1. s \o t \in Seq(S)
    BY ConcatProperties
  <2>2. QED
    BY <2>1, LenProperties
<1> DEFINE n == Len(s)
           m == Len(t)
           c == s \o t
<1>3. /\ n \in Nat /\ m \in Nat
      /\ DOMAIN s = 1..n /\ DOMAIN t = 1..m /\ DOMAIN c = 1..n + m
      /\ \A i \in 1..n + m : c[i] = IF i <= n THEN s[i] ELSE t[i - n]
  BY <1>1, <1>2
<1> HIDE DEF n, m, c
<1>4. ASSUME NEW i \in 1..n + m, NEW j \in 1..n + m, i < j
      PROVE  MayPrecede(rs2, c[i], c[j])
  <2>1. CASE j <= n
    <3>1. /\ i \in DOMAIN s /\ j \in DOMAIN s /\ c[i] = s[i] /\ c[j] = s[j]
      BY <1>3, <1>4, <2>1
    <3>2. MayPrecede(rs, s[i], s[j]) /\ s[i] \in Range(s) /\ s[j] \in Range(s)
      BY <1>4, <3>1 DEF Ordered, Range
    <3>3. QED
      BY <3>1, <3>2
  <2>2. CASE i <= n /\ ~(j <= n)
    <3>1. i \in DOMAIN s /\ j - n \in DOMAIN t /\ c[i] = s[i] /\ c[j] = t[j - n]
      BY <1>3, <1>4, <2>2
    <3>2. s[i] \in Range(s) /\ t[j - n] \in Range(t)
      BY <3>1 DEF Range
    <3>3. QED
      BY <3>1, <3>2
  <2>3. CASE ~(i <= n)
    <3>1. /\ i - n \in DOMAIN t /\ j - n \in DOMAIN t /\ i - n < j - n
          /\ c[i] = t[i - n] /\ c[j] = t[j - n]
      BY <1>3, <1>4, <2>3
    <3>2. QED
      BY <3>1 DEF Ordered
  <2>4. QED
    BY <1>3, <1>4, <2>1, <2>2, <2>3
<1>5. Ordered(rs2, c)
  BY <1>3, <1>4 DEF Ordered
<1>6. QED
  BY <1>5 DEF c

\* The head of an ordered queue is nowhere else in it.
LEMMA OrderedTail ==
  ASSUME NEW S, NEW s \in Seq(S), s # <<>>, NEW rs, Ordered(rs, s)
  PROVE  /\ Head(s) \in Range(s) /\ Head(s) \in S
         /\ Tail(s) \in Seq(S)
         /\ Ordered(rs, Tail(s))
         /\ Range(Tail(s)) = Range(s) \ {Head(s)}
         /\ \A y \in Range(s) \ {Head(s)} : MayPrecede(rs, Head(s), y)
<1>1. /\ Head(s) = s[1] /\ Len(s) \in Nat \ {0}
      /\ Tail(s) \in Seq(S) /\ Len(Tail(s)) = Len(s) - 1
      /\ \A i \in 1..Len(s) - 1 : Tail(s)[i] = s[i + 1]
  BY EmptySeq, HeadTailProperties
<1> DEFINE n == Len(s)
           u == Tail(s)
<1>2. /\ n \in Nat \ {0} /\ DOMAIN s = 1..n /\ DOMAIN u = 1..n - 1
      /\ \A i \in 1..n - 1 : u[i] = s[i + 1]
  BY <1>1, LenProperties
<1> HIDE DEF n, u
<1>3. \A i \in 2..n : MayPrecede(rs, s[1], s[i])
  BY <1>2 DEF Ordered
<1>4. Ordered(rs, u)
  <2>1. ASSUME NEW i \in 1..n - 1, NEW j \in 1..n - 1, i < j
        PROVE  MayPrecede(rs, s[i + 1], s[j + 1])
    <3>1. i + 1 \in DOMAIN s /\ j + 1 \in DOMAIN s /\ i + 1 < j + 1
      BY <1>2, <2>1
    <3>2. QED
      BY <3>1 DEF Ordered
  <2>2. QED
    BY <1>2, <2>1 DEF Ordered
<1>5. Range(u) = {s[i] : i \in 2..n}
  <2>1. \A i \in 1..n - 1 : i + 1 \in 2..n /\ u[i] = s[i + 1]
    BY <1>2
  <2>2. \A i \in 2..n : i - 1 \in 1..n - 1 /\ u[i - 1] = s[i]
    BY <1>2
  <2>3. Range(u) = {u[i] : i \in 1..n - 1}
    BY <1>2 DEF Range
  <2>4. QED
    BY <2>1, <2>2, <2>3
<1>6. \A i \in 2..n : s[i] # s[1]
  BY <1>3 DEF MayPrecede
<1>7. Range(s) = {s[1]} \cup {s[i] : i \in 2..n}
  BY <1>2 DEF Range
<1>8. Range(u) = Range(s) \ {s[1]}
  BY <1>5, <1>6, <1>7
<1>9. \A y \in Range(s) \ {s[1]} : MayPrecede(rs, s[1], y)
  BY <1>3, <1>7
<1>10. s[1] \in S
  BY <1>2
<1>11. QED
  BY <1>1, <1>4, <1>7, <1>8, <1>9, <1>10 DEF u

LEMMA OrderStep ==
  ASSUME NEW s \in Seq(Job), NEW t \in Seq(Job),
         NEW rs, NEW rs2,
         Ordered(rs, s),
         \A x \in Range(s) :
           rs2[x[2]].action = rs[x[2]].action /\ rs2[x[2]].ticket = rs[x[2]].ticket,
         \A x \in Range(s), y \in Range(t) : MayPrecede(rs2, x, y),
         Ordered(rs2, t)
  PROVE  Ordered(rs2, s \o t)
<1>1. \A x, y \in Range(s) : MayPrecede(rs, x, y) => MayPrecede(rs2, x, y)
  BY DEF MayPrecede
<1>2. QED
  BY <1>1, OrderedConcat

\* An order stays while actions and tickets stay.
LEMMA OrderStays ==
  ASSUME NEW s \in Seq(Job), NEW rs, NEW rs2,
         Ordered(rs, s),
         \A x \in Range(s) :
           rs2[x[2]].action = rs[x[2]].action /\ rs2[x[2]].ticket = rs[x[2]].ticket
  PROVE  Ordered(rs2, s)
<1>1. <<>> \in Seq(Job) /\ Range(<<>>) = {} /\ Ordered(rs2, <<>>)
  BY DEF Range, Ordered
<1>2. Ordered(rs2, s \o <<>>)
  BY <1>1, OrderStep
<1>3. QED
  BY <1>2, ConcatEmptySeq

-----------------------------------------------------------------------------
(* What is said of a run.                                                    *)

New(r) == runs[r].stage = "new"
Waiting(r) == runs[r].stage = "waiting"
Executing(r) == runs[r].stage = "executing"
Settled(r) == runs[r].stage = "settled"
Done(r) == runs[r].stage = "done"
Started(r) == Executing(r) \/ Settled(r)
Live(r) == Waiting(r) \/ Started(r)

Act(r) == runs[r].action
Ticket(r) == runs[r].ticket
Ticketed(r) == runs[r].ticket > 0
Newest(r) == runs[r].ticket = tickets[runs[r].action]
InLine(r) == runs[r].queued = TRUE
FoundBase(r) == runs[r].held = Base

\* The execution of r has not been handed on to those who wait for it.
Open(r) == Executing(r) \/ Queued("resolve", r)

WaitsFor(w, r) == w \in Range(waiters[r])

\* w is released, or waits for an execution that will release it.
OnItsWay(w) == Queued("go", w) \/ \E r \in Run : Open(r) /\ WaitsFor(w, r)

\* A queued run that is not over, or whose end is not passed on yet.
Ahead(p) == InLine(p) /\ (Live(p) \/ Queued("adopt", p))

-----------------------------------------------------------------------------
(* The inductive invariant.                                                  *)

\* A run that nobody called has no action, no ticket and no place.
IsNew(r) ==
  /\ Act(r) = None /\ ~Ticketed(r) /\ ~InLine(r)
  /\ follower[r] = None /\ waiters[r] = <<>>

\* A run is known as soon as it is called, and waits only where its policy says so.
RunsKnown ==
  /\ \A r \in Run : New(r) <=> r > called
  /\ \A r \in Run : New(r) => IsNew(r)
  /\ \A r \in Run : ~New(r) => Act(r) \in Action
  /\ \A r \in Run : Ticketed(r) => PolicyOf[Act(r)] = "replace"
  /\ \A r \in Run : InLine(r) => PolicyOf[Act(r)] = "enqueue"
  /\ \A r \in Run : Waiting(r) => InLine(r) \/ Ticketed(r)

\* Who is running is the one run of the action that has started and is not over,
\* and a pulse found the parameter at its base.
OneExecution ==
  /\ \A a \in Action, r \in Run : running[a] = r <=> Act(r) = a /\ Started(r)
  /\ \A a \in Action, r \in Run : value[a] = r => Act(r) = a /\ Executing(r)
  /\ \A r \in Run : Executing(r) => FoundBase(r)

\* Nothing is queued but executions that end by themselves, none handed on yet.
OnlyEnds ==
  \A r \in Run :
    /\ ~Queued("go", r) /\ ~Queued("end", r) /\ ~Queued("adopt", r) /\ ~Queued("tail", r)
    /\ Settled(r) => Queued("resolve", r)

\* What the queue holds says how far its runs are.
JobsFit ==
  /\ \A r \in Run : Queued("resolve", r) \/ Queued("finish", r) => Settled(r)
  /\ \A r \in Run : Queued("go", r) => Waiting(r)
  /\ \A r \in Run : Queued("end", r) => Done(r) /\ Ticketed(r)
  /\ \A r \in Run : Queued("adopt", r) \/ Queued("tail", r) => Done(r) /\ InLine(r)
  /\ \A r \in Run : ~(Queued("adopt", r) /\ Queued("tail", r))
  /\ \A r \in Run : Settled(r) => Queued("finish", r)
  /\ ~draining => OnlyEnds

\* The jobs are queued in an order that may be.
InOrder == Ordered(runs, micro)

\* Nobody is released while an execution is open, or while a queued run has it:
\* whoever is to go on waits for the execution, or behind the queued run.
NoneReleasedEarly ==
  \A r, s \in Run : Act(s) = Act(r) /\ (Open(r) \/ (Started(r) /\ InLine(r))) =>
    ~Queued("go", s) /\ ~Queued("adopt", s)

StepsInv == RunsKnown /\ OneExecution /\ JobsFit /\ InOrder /\ NoneReleasedEarly

-----------------------------------------------------------------------------
(* Who waits for an execution.                                               *)

\* Who waits for an open execution is waiting, for the same action.
WaitersWait ==
  \A r, w \in Run : Open(r) /\ WaitsFor(w, r) => Waiting(w) /\ Act(w) = Act(r)

\* Those who wait for an open execution do so in the order of their tickets.
WaitersByTicket ==
  \A r, v, w \in Run : Open(r) => \A i, j \in DOMAIN waiters[r] :
    i < j /\ waiters[r][i] = v /\ waiters[r][j] = w => Ticket(v) < Ticket(w)

\* Nobody waits for a queued run, or for one that waits itself, but behind it.
NoneWaitForQueued ==
  \A r \in Run : InLine(r) \/ Waiting(r) => waiters[r] = <<>>

WaitersInv == WaitersWait /\ WaitersByTicket /\ NoneWaitForQueued

-----------------------------------------------------------------------------
(* Tickets: none is newer than the counter of its action, and who holds the  *)
(* newest one is the last to wait, so that its end finds nobody there.       *)

\* A ticket of a live run was counted.
TicketsCounted ==
  \A w \in Run : Ticketed(w) /\ Live(w) => Ticket(w) <= tickets[Act(w)]

\* A waiting run with a ticket has somebody to release it.
TicketsOnTheirWay ==
  \A w \in Run : Ticketed(w) /\ Waiting(w) => OnItsWay(w)

\* A ticket is no longer the newest only because somebody called later.
OldTicketsReplaced ==
  \A w \in Run : Ticketed(w) /\ Waiting(w) /\ ~Newest(w) =>
    \E s \in Run : s > w /\ Act(s) = Act(w) /\ ~New(s)

\* When the newest ticket runs, nobody of its action waits any more.
NewestGoesLast ==
  \A w, s \in Run : Ticketed(w) /\ Started(w) /\ Newest(w) /\ Act(s) = Act(w) => ~Waiting(s)

\* When the newest ticket ends, nobody of its action is left.
NewestEndsLast ==
  \A w, s \in Run : Queued("end", w) /\ Newest(w) /\ Act(s) = Act(w) => ~Live(s)

TicketsInv ==
  TicketsCounted /\ TicketsOnTheirWay /\ OldTicketsReplaced /\ NewestGoesLast /\ NewestEndsLast

-----------------------------------------------------------------------------
(* The line of the queued runs of an action, in the order of the calls.  Its *)
(* tail is the last of them, and is forgotten only when nobody is left.      *)

\* The tail is a queued run of its action that nobody follows yet.
TailIsQueued ==
  \A a \in Action, t \in Run : tails[a] = t => InLine(t) /\ Act(t) = a /\ follower[t] = None

\* No queued run was called after the tail.
TailIsLast ==
  \A a \in Action, t, s \in Run : tails[a] = t /\ InLine(s) /\ Act(s) = a => s <= t

\* The tail is not over, or is about to be forgotten.
TailIsAhead ==
  \A a \in Action, t \in Run : tails[a] = t => Ahead(t) \/ Queued("tail", t)

\* A tail about to be forgotten leaves no queued run.
TailEndsLast ==
  \A a \in Action, t, s \in Run :
    tails[a] = t /\ Queued("tail", t) /\ InLine(s) /\ Act(s) = a => ~Live(s)

\* While a queued run lives, its action has a tail to queue behind.
QueuedHaveTail ==
  \A a \in Action, w \in Run : InLine(w) /\ Live(w) /\ Act(w) = a => tails[a] # None

\* Who follows a run is queued for the same action, later, and waits.
FollowersWait ==
  \A p, f \in Run : Ahead(p) /\ follower[p] = f =>
    p < f /\ Waiting(f) /\ InLine(f) /\ Act(f) = Act(p)

\* No queued run was called between a run and its follower.
FollowersAreNext ==
  \A p, f, s \in Run : Ahead(p) /\ follower[p] = f /\ InLine(s) /\ Act(s) = Act(p) =>
    s <= p \/ f <= s

\* A queued run that waits is released, or follows somebody.
QueuedHavePlace ==
  \A w \in Run : Waiting(w) /\ InLine(w) =>
    OnItsWay(w) \/ \E p \in Run : Ahead(p) /\ follower[p] = w

\* Only the first that waits is released.
FirstInLine ==
  \A w, s \in Run :
    Waiting(w) /\ InLine(w) /\ OnItsWay(w) /\ Waiting(s) /\ Act(s) = Act(w) => w <= s

\* Whoever waits was called after the queued run that has the execution.
WaitBehind ==
  \A p, s \in Run :
    InLine(p) /\ (Started(p) \/ Queued("adopt", p)) /\ Waiting(s) /\ Act(s) = Act(p) => p < s

LineInv ==
  /\ TailIsQueued /\ TailIsLast /\ TailIsAhead /\ TailEndsLast /\ QueuedHaveTail
  /\ FollowersWait /\ FollowersAreNext /\ QueuedHavePlace /\ FirstInLine /\ WaitBehind

\* Types, the steps of the runs, who waits for whom, the tickets and the line.
RunnerInv == TypeOK /\ StepsInv /\ WaitersInv /\ TicketsInv /\ LineInv

-----------------------------------------------------------------------------
(* What the invariant says of a step's begin.                                *)

\* Every queued job is of its kind.
LEMMA JobsTyped == ASSUME TypeOK PROVE Jobs \subseteq Job
BY RangeOfSeq DEF TypeOK, Jobs

\* The stages exclude one another.
LEMMA OneStage ==
  ASSUME NEW s
  PROVE  /\ Waiting(s) => ~New(s) /\ ~Started(s) /\ ~Done(s) /\ Live(s)
         /\ Started(s) => ~New(s) /\ ~Waiting(s) /\ ~Done(s) /\ Live(s)
         /\ Live(s) => ~New(s) /\ ~Done(s)
         /\ Done(s) => ~New(s)
         /\ Executing(s) => Started(s) /\ ~Settled(s)
         /\ Settled(s) => Started(s)
BY DEF New, Waiting, Executing, Settled, Done, Started, Live

\* A call finds nobody released and nobody's end on its way.
LEMMA CallsFindOnlyEnds == ASSUME JobsFit, InTask PROVE OnlyEnds
<1>1. CASE micro = <<>>
  <2>1. Jobs = {}
    BY <1>1 DEF Jobs, Range
  <2>2. QED
    BY <2>1 DEF OnlyEnds, Queued, JobsFit
<1>2. CASE ~draining
  BY <1>2 DEF JobsFit
<1>3. QED
  BY <1>1, <1>2 DEF InTask

\* The job a microtask runs, and what it leaves queued.
LEMMA FirstJob ==
  ASSUME TypeOK, InOrder, NEW kind, NextIs(kind)
  PROVE  /\ Current \in Run /\ Head(micro) = <<kind, Current>> /\ Queued(kind, Current)
         /\ Tail(micro) \in Seq(Job)
         /\ Ordered(runs, Tail(micro))
         /\ Range(Tail(micro)) = Jobs \ {<<kind, Current>>}
         /\ \A y \in Jobs \ {<<kind, Current>>} : MayPrecede(runs, <<kind, Current>>, y)
<1>1. micro \in Seq(Job) /\ micro # <<>> /\ Head(micro)[1] = kind
  BY DEF TypeOK, NextIs
<1>2. /\ Head(micro) \in Jobs /\ Head(micro) \in Job
      /\ Tail(micro) \in Seq(Job)
      /\ Ordered(runs, Tail(micro))
      /\ Range(Tail(micro)) = Jobs \ {Head(micro)}
      /\ \A y \in Jobs \ {Head(micro)} : MayPrecede(runs, Head(micro), y)
  BY <1>1, OrderedTail DEF InOrder, Jobs
<1>3. Current \in Run /\ Head(micro) = <<kind, Current>>
  BY <1>1, <1>2 DEF Job, Current
<1>4. QED
  BY <1>2, <1>3 DEF Queued

\* Tickets are numbers, and no run is None.
LEMMA Places ==
  ASSUME TypeOK
  PROVE  /\ \A r \in Run : Ticket(r) \in Nat /\ (Ticketed(r) <=> Ticket(r) # 0)
         /\ \A a \in Action : tickets[a] \in Nat
         /\ \A r \in Run : r \in Nat
         /\ None \notin Run
BY ActionRunnerAssumption DEF TypeOK, RunState, Run, Ticket, Ticketed

\* A job is its kind and its run.
LEMMA JobsArePairs ==
  ASSUME TypeOK
  PROVE  \A x \in Jobs : /\ x[1] \in {"resolve", "finish", "go", "end", "adopt", "tail"}
                         /\ x[2] \in Run /\ x = <<x[1], x[2]>>
BY JobsTyped DEF Job

\* A run that is new is in no job.
LEMMA NewUnqueued ==
  ASSUME TypeOK, JobsFit, NEW r \in Run, New(r)
  PROVE  \A x \in Jobs : x[2] # r
<1>1. \A kind \in {"resolve", "finish", "go", "end", "adopt", "tail"} : ~Queued(kind, r)
  BY OneStage DEF JobsFit
<1>2. QED
  BY <1>1, JobsArePairs DEF Queued

\* The first execution of an action is its only one.
LEMMA OnlyOneStarted ==
  ASSUME OneExecution, RunsKnown, NEW r \in Run, NEW s \in Run,
         Started(r), Started(s), Act(r) = Act(s)
  PROVE  r = s
<1>1. Act(r) \in Action
  BY OneStage DEF RunsKnown
<1>2. running[Act(r)] = r /\ running[Act(r)] = s
  BY <1>1 DEF OneExecution
<1>3. QED
  BY <1>2

-----------------------------------------------------------------------------
(* What a step makes of a run, and what it leaves alone.                     *)

\* Run s is in the step what it was.
Stays(s) ==
  /\ New(s)' <=> New(s)
  /\ Waiting(s)' <=> Waiting(s)
  /\ Executing(s)' <=> Executing(s)
  /\ Settled(s)' <=> Settled(s)
  /\ Done(s)' <=> Done(s)
  /\ Started(s)' <=> Started(s)
  /\ Live(s)' <=> Live(s)
  /\ Act(s)' = Act(s)
  /\ Ticket(s)' = Ticket(s)
  /\ Ticketed(s)' <=> Ticketed(s)
  /\ InLine(s)' <=> InLine(s)
  /\ FoundBase(s)' <=> FoundBase(s)

\* Run r comes to stage g.
Comes(r, g) ==
  /\ New(r)' <=> g = "new"
  /\ Waiting(r)' <=> g = "waiting"
  /\ Executing(r)' <=> g = "executing"
  /\ Settled(r)' <=> g = "settled"
  /\ Done(r)' <=> g = "done"
  /\ Started(r)' <=> g \in {"executing", "settled"}
  /\ Live(r)' <=> g \in {"waiting", "executing", "settled"}

\* Run r is of action a now, with the ticket and the place in the line it had.
Keeps(r, a) ==
  /\ Act(r)' = a
  /\ Ticket(r)' = Ticket(r)
  /\ Ticketed(r)' <=> Ticketed(r)
  /\ InLine(r)' <=> InLine(r)

\* An update of one run leaves the others where they are.
LEMMA OthersStay ==
  ASSUME TypeOK, NEW r \in Run, NEW new \in RunState, runs' = [runs EXCEPT ![r] = new]
  PROVE  /\ runs' \in [Run -> RunState] /\ runs'[r] = new
         /\ \A s \in Run : s # r => Stays(s)
<1>1. runs \in [Run -> RunState]
  BY DEF TypeOK
<1>2. runs' \in [Run -> RunState] /\ runs'[r] = new
  BY <1>1
<1>3. \A s \in Run : s # r => runs'[s] = runs[s]
  BY <1>1
<1>4. QED
  BY <1>2, <1>3 DEF Stays, New, Waiting, Executing, Settled, Done, Started, Live, Act, Ticket,
                    Ticketed, InLine, FoundBase

\* A step that does not touch the runs leaves all of them where they are.
LEMMA NobodyMoves ==
  ASSUME UNCHANGED runs
  PROVE  \A s \in Run : Stays(s)
BY DEF Stays, New, Waiting, Executing, Settled, Done, Started, Live, Act, Ticket,
       Ticketed, InLine, FoundBase

\* new is the run st at stage g: the ticket and the place in the line stay.
Restaged(new, st, g) ==
  /\ new \in RunState /\ new.stage = g
  /\ new.action = st.action /\ new.ticket = st.ticket /\ new.queued = st.queued

\* The updates of the model that move a run to another stage do nothing else to its place.
LEMMA RunUpdated ==
  ASSUME NEW st \in RunState,
         NEW g \in {"new", "waiting", "executing", "settled", "done"}
  PROVE  /\ Restaged([st EXCEPT !.stage = g], st, g)
         /\ Restaged([st EXCEPT !.stage = g, !.skipped = TRUE], st, g)
         /\ \A ok \in BOOLEAN : Restaged([st EXCEPT !.stage = g, !.ok = ok], st, g)
         /\ \A v \in Value :
              Restaged([st EXCEPT !.stage = g, !.pulse = TRUE, !.held = v], st, g)
<1>1. Restaged([st EXCEPT !.stage = g], st, g)
  BY DEF Restaged, RunState
<1>2. Restaged([st EXCEPT !.stage = g, !.skipped = TRUE], st, g)
  BY DEF Restaged, RunState
<1>3. ASSUME NEW ok \in BOOLEAN
      PROVE  Restaged([st EXCEPT !.stage = g, !.ok = ok], st, g)
  BY DEF Restaged, RunState
<1>4. ASSUME NEW v \in Value
      PROVE  Restaged([st EXCEPT !.stage = g, !.pulse = TRUE, !.held = v], st, g)
  BY DEF Restaged, RunState
<1>5. QED
  BY <1>1, <1>2, <1>3, <1>4

\* new is the run st waiting with ticket n.
TakesTicket(new, st, n) ==
  /\ new \in RunState /\ new.stage = "waiting" /\ new.ticket = n
  /\ new.action = st.action /\ new.queued = st.queued

\* The update that gives a replacing run its ticket.
LEMMA RunTicketed ==
  ASSUME NEW st \in RunState, NEW n \in Nat
  PROVE  TakesTicket([st EXCEPT !.stage = "waiting", !.ticket = n], st, n)
BY DEF TakesTicket, RunState

\* What a step that moves one run does to all of them.
LEMMA OneMoves ==
  ASSUME TypeOK, NEW r \in Run, NEW a, NEW st, NEW g, NEW new,
         Restaged(new, st, g), runs' = [runs EXCEPT ![r] = new],
         st.action = a, st.ticket = runs[r].ticket, st.queued = runs[r].queued
  PROVE  /\ runs' \in [Run -> RunState] /\ runs'[r] = new
         /\ \A s \in Run : s # r => Stays(s)
         /\ Comes(r, g) /\ Keeps(r, a)
<1>1. /\ runs' \in [Run -> RunState] /\ runs'[r] = new
      /\ \A s \in Run : s # r => Stays(s)
  BY OthersStay DEF Restaged
<1>2. Comes(r, g)
  BY <1>1 DEF Restaged, Comes, New, Waiting, Executing, Settled, Done, Started, Live
<1>3. Keeps(r, a)
  BY <1>1 DEF Restaged, Keeps, Act, Ticket, Ticketed, InLine
<1>4. QED
  BY <1>1, <1>2, <1>3

\* The line of an action is kept when its runs stay where they are in it.
LEMMA LineKept ==
  ASSUME LineInv, RunsKnown', UNCHANGED <<tails, follower>>,
         \A s \in Run :
           /\ InLine(s)' <=> InLine(s)
           /\ InLine(s) => /\ Act(s)' = Act(s) /\ (Live(s)' => Live(s))
                           /\ (Waiting(s)' <=> Waiting(s)) /\ (Ahead(s)' <=> Ahead(s))
                           /\ (Started(s)' \/ Queued("adopt", s)' => Started(s) \/ Queued("adopt", s))
                           /\ (Queued("tail", s)' <=> Queued("tail", s))
                           /\ (OnItsWay(s)' <=> OnItsWay(s))
           /\ Waiting(s)' => Ticketed(s)' \/ (Waiting(s) /\ Act(s)' = Act(s))
  PROVE  LineInv'
<1>1. \A s \in Run : Ahead(s)' <=> Ahead(s)
  BY DEF Ahead
<1>2. TailIsQueued'
  BY DEF LineInv, TailIsQueued
<1>3. TailIsLast'
  BY DEF LineInv, TailIsLast
<1>4. TailIsAhead'
  BY <1>1 DEF LineInv, TailIsAhead, TailIsQueued
<1>5. TailEndsLast'
  BY DEF LineInv, TailEndsLast, TailIsQueued
<1>6. QueuedHaveTail'
  BY DEF LineInv, QueuedHaveTail
<1>7. \A p \in Run : Ahead(p) => InLine(p)
  BY DEF Ahead
<1>8. FollowersWait'
  BY <1>1, <1>7 DEF LineInv, FollowersWait
<1>9. FollowersAreNext'
  BY <1>1, <1>7 DEF LineInv, FollowersAreNext
<1>10. QueuedHavePlace'
  BY <1>1 DEF LineInv, QueuedHavePlace
<1>11. \A s, w \in Run : InLine(w)' /\ Act(s)' = Act(w)' => ~Ticketed(s)'
  BY DEF RunsKnown
<1>12. FirstInLine'
  BY <1>11 DEF LineInv, FirstInLine
<1>13. WaitBehind'
  BY <1>11 DEF LineInv, WaitBehind
<1>14. QED
  BY <1>2, <1>3, <1>4, <1>5, <1>6, <1>8, <1>9, <1>10, <1>12, <1>13 DEF LineInv

\* A step that moves no queued run leaves the line as it is.
LEMMA LineStays ==
  ASSUME LineInv, RunsKnown', UNCHANGED <<tails, follower>>,
         \A s \in Run :
           /\ InLine(s)' <=> InLine(s)
           /\ InLine(s) => /\ Act(s)' = Act(s) /\ (Live(s)' <=> Live(s))
                           /\ (Waiting(s)' <=> Waiting(s)) /\ (Started(s)' <=> Started(s))
                           /\ (Queued("adopt", s)' <=> Queued("adopt", s))
                           /\ (Queued("tail", s)' <=> Queued("tail", s))
                           /\ (OnItsWay(s)' <=> OnItsWay(s))
           /\ Waiting(s)' => Ticketed(s)' \/ (Waiting(s) /\ Act(s)' = Act(s))
  PROVE  LineInv'
<1>1. \A s \in Run : Ahead(s)' <=> Ahead(s)
  BY DEF Ahead
<1>2. QED
  BY <1>1, LineKept

\* The tickets are in order when nobody with one waits that did not, and who
\* starts or ends with one is the last.
LEMMA TicketsStay ==
  ASSUME TicketsInv, RunsKnown', UNCHANGED tickets,
         \A s \in Run :
           /\ Ticketed(s)' <=> Ticketed(s)
           /\ Ticketed(s) => /\ Act(s)' = Act(s) /\ Ticket(s)' = Ticket(s)
                             /\ (Live(s)' => Live(s)) /\ (Waiting(s)' => Waiting(s))
                             /\ (Waiting(s)' /\ OnItsWay(s) => OnItsWay(s)')
                             /\ (Started(s)' => \/ Started(s)
                                                \/ \A u \in Run : Act(u)' = Act(s)' => ~Waiting(u)')
           /\ Queued("end", s)' => \/ ~Newest(s)'
                                   \/ Ticketed(s) /\ Queued("end", s)
                                   \/ \A u \in Run : Act(u)' = Act(s)' => ~Live(u)'
           /\ Waiting(s)' => InLine(s)' \/ (Waiting(s) /\ Act(s)' = Act(s))
           /\ ~New(s) => ~New(s)' /\ Act(s)' = Act(s),
         \A s, w \in Run : Queued("end", w)' /\ Live(s)' =>
           InLine(s)' \/ (Live(s) /\ Act(s)' = Act(s))
  PROVE  TicketsInv'
<1>1. TicketsCounted'
  BY DEF TicketsInv, TicketsCounted
<1>2. TicketsOnTheirWay'
  BY DEF TicketsInv, TicketsOnTheirWay
<1>3. \A s \in Run : Ticketed(s) => (Newest(s)' <=> Newest(s))
  BY DEF Newest, Act, Ticket
<1>4. OldTicketsReplaced'
  <2>1. SUFFICES ASSUME NEW w \in Run, Ticketed(w)', Waiting(w)', ~Newest(w)'
                 PROVE  \E s \in Run : s > w /\ Act(s)' = Act(w)' /\ ~New(s)'
    BY DEF OldTicketsReplaced
  <2>2. PICK s \in Run : s > w /\ Act(s) = Act(w) /\ ~New(s)
    BY <1>3, <2>1 DEF TicketsInv, OldTicketsReplaced
  <2>3. Act(s)' = Act(w)' /\ ~New(s)'
    BY <2>1, <2>2
  <2>4. QED
    BY <2>2, <2>3
<1>5. \A s, w \in Run : Ticketed(w)' /\ Act(s)' = Act(w)' => ~InLine(s)'
  BY DEF RunsKnown
<1>6. NewestGoesLast'
  BY <1>3, <1>5 DEF TicketsInv, NewestGoesLast
<1>7. NewestEndsLast'
  BY <1>3, <1>5 DEF TicketsInv, NewestEndsLast
<1>8. QED
  BY <1>1, <1>2, <1>4, <1>6, <1>7 DEF TicketsInv

\* Nobody new waits for an execution.
LEMMA WaitersStay ==
  ASSUME WaitersInv, UNCHANGED waiters,
         \A s \in Run : InLine(s)' \/ Waiting(s)' => InLine(s) \/ Waiting(s) \/ waiters[s] = <<>>,
         \A s, w \in Run : Open(s)' /\ WaitsFor(w, s) =>
           /\ Open(s) /\ Act(s)' = Act(s)
           /\ Waiting(w) => Waiting(w)' /\ Act(w)' = Act(w) /\ Ticket(w)' = Ticket(w)
  PROVE  WaitersInv'
<1>1. \A s, w \in Run : WaitsFor(w, s)' <=> WaitsFor(w, s)
  BY DEF WaitsFor
<1>2. WaitersWait'
  BY <1>1 DEF WaitersInv, WaitersWait
<1>3. WaitersByTicket'
  <2>1. SUFFICES ASSUME NEW r \in Run, NEW v \in Run, NEW w \in Run, Open(r)',
                        NEW i \in DOMAIN waiters[r], NEW j \in DOMAIN waiters[r],
                        i < j, waiters[r][i] = v, waiters[r][j] = w
                 PROVE  Ticket(v)' < Ticket(w)'
    BY DEF WaitersByTicket
  <2>2. WaitsFor(v, r) /\ WaitsFor(w, r)
    BY <2>1 DEF WaitsFor, Range
  <2>3. Open(r) /\ Ticket(v)' = Ticket(v) /\ Ticket(w)' = Ticket(w)
    BY <2>1, <2>2 DEF WaitersInv, WaitersWait
  <2>4. QED
    BY <2>1, <2>3 DEF WaitersInv, WaitersByTicket
<1>4. NoneWaitForQueued'
  BY DEF WaitersInv, NoneWaitForQueued
<1>5. QED
  BY <1>2, <1>3, <1>4 DEF WaitersInv
\* The queue is in order when the run that moves is in no job of it.
LEMMA QueueStays ==
  ASSUME TypeOK, InOrder, UNCHANGED micro,
         \A x \in Jobs : Act(x[2])' = Act(x[2]) /\ Ticket(x[2])' = Ticket(x[2])
  PROVE  InOrder' /\ Jobs' = Jobs /\ \A kind, s : Queued(kind, s)' <=> Queued(kind, s)
<1>1. micro \in Seq(Job) /\ Ordered(runs, micro)
  BY DEF TypeOK, InOrder
<1>2. Ordered(runs', micro)
  BY <1>1, OrderStays DEF Jobs, Act, Ticket
<1>3. InOrder' /\ Jobs' = Jobs
  BY <1>2 DEF InOrder, Jobs
<1>4. QED
  BY <1>3 DEF Queued

\* The queue is in order when what is added to what is left may come after it.
LEMMA QueueMoves ==
  ASSUME TypeOK, NEW rest \in Seq(Job), NEW t \in Seq(Job), micro' = rest \o t,
         Ordered(runs, rest),
         \A x \in Range(rest) : Act(x[2])' = Act(x[2]) /\ Ticket(x[2])' = Ticket(x[2]),
         \A x \in Range(rest), y \in Range(t) : MayPrecede(runs', x, y),
         Ordered(runs', t)
  PROVE  /\ InOrder' /\ micro' \in Seq(Job)
         /\ \A kind, s :
              Queued(kind, s)' <=> <<kind, s>> \in Range(rest) \/ <<kind, s>> \in Range(t)
<1>1. Ordered(runs', rest \o t)
  BY OrderStep DEF Act, Ticket
<1>2. rest \o t \in Seq(Job) /\ Range(rest \o t) = Range(rest) \cup Range(t)
  BY ElementsOfConcat
<1>3. InOrder'
  BY <1>1 DEF InOrder
<1>4. Jobs' = Range(rest) \cup Range(t)
  BY <1>2 DEF Jobs
<1>5. QED
  BY <1>2, <1>3, <1>4 DEF Queued

-----------------------------------------------------------------------------
(* Calls.                                                                    *)

\* A call is a new run's, at a time when nothing releases any.
LEMMA NewRun ==
  ASSUME RunnerInv, NEW r \in Run, NEW a \in Action, Calling(r, a)
  PROVE  /\ r = called + 1 /\ called' = r /\ called' \in 0..MaxCalls
         /\ draining' = FALSE /\ draining' \in BOOLEAN
         /\ New(r) /\ IsNew(r)
         /\ \A s \in Run : (s > called' <=> s > called /\ s # r)
         /\ \A s \in Run : ~New(s) => s < r
         /\ OnlyEnds
         /\ \A kind \in {"resolve", "finish", "go", "end", "adopt", "tail"} : ~Queued(kind, r)
         /\ ~Open(r)
<1>1. /\ r = called + 1 /\ called' = r /\ draining' = FALSE
      /\ called \in Nat /\ r \in Nat /\ called' \in 0..MaxCalls
  <2>1. r = called + 1 /\ called' = r /\ draining' = FALSE
    BY DEF Calling
  <2>2. called \in Nat
    BY ActionRunnerAssumption DEF RunnerInv, TypeOK
  <2>3. r \in Nat /\ r \in 0..MaxCalls
    BY ActionRunnerAssumption DEF Run
  <2>4. QED
    BY <2>1, <2>2, <2>3
<1>2. New(r) /\ IsNew(r)
  BY <1>1 DEF RunnerInv, StepsInv, RunsKnown
<1>3. OnlyEnds
  BY CallsFindOnlyEnds DEF Calling, RunnerInv, StepsInv
<1>4. \A s \in Run : s > called' <=> s > called /\ s # r
  BY <1>1 DEF Run
<1>5. ASSUME NEW s \in Run, ~New(s)
      PROVE  s < r
  <2>1. ~(s > called) /\ s \in Nat
    BY <1>5 DEF RunnerInv, StepsInv, RunsKnown, Run
  <2>2. QED
    BY <1>1, <2>1
<1>6. \A kind \in {"resolve", "finish", "go", "end", "adopt", "tail"} : ~Queued(kind, r)
  BY <1>2, NewUnqueued DEF RunnerInv, StepsInv, Queued
<1>7. ~Open(r)
  BY <1>2, <1>6, OneStage DEF Open
<1>8. draining' \in BOOLEAN
  BY <1>1
<1>9. QED
  BY <1>1, <1>2, <1>3, <1>4, <1>5, <1>6, <1>7, <1>8

\* A run that was called is as before but for its action.
LEMMA CalledRun ==
  ASSUME TypeOK, NEW r \in Run, NEW a \in Action
  PROVE  /\ Called(r, a) \in RunState
         /\ Called(r, a).action = a
         /\ Called(r, a).stage = runs[r].stage /\ Called(r, a).ticket = runs[r].ticket
         /\ Called(r, a).queued = runs[r].queued /\ Called(r, a).held = runs[r].held
         /\ Called(r, a).skipped = runs[r].skipped
BY DEF TypeOK, RunState, Called

\* What every call leaves in order that starts no run.
LEMMA CallWaits ==
  ASSUME RunnerInv, NEW r \in Run, NEW a \in Action, Calling(r, a),
         UNCHANGED <<running, value, micro>>,
         \A s \in Run : s # r => Stays(s),
         Act(r)' = a, ~New(r)', ~Started(r)', ~Executing(r)', ~Settled(r)',
         Ticketed(r)' => PolicyOf[a] = "replace",
         InLine(r)' => PolicyOf[a] = "enqueue",
         Waiting(r)' => InLine(r)' \/ Ticketed(r)',
         \A s \in Run : New(s) /\ s # r => follower'[s] = None /\ waiters'[s] = <<>>
  PROVE  /\ StepsInv'
         /\ \A kind, s : Queued(kind, s)' <=> Queued(kind, s)
         /\ \A s \in Run : Open(s)' <=> Open(s)
<1> USE DEF RunnerInv, StepsInv
<1>1. /\ draining' = FALSE /\ New(r) /\ IsNew(r) /\ OnlyEnds /\ ~Open(r)
      /\ \A s \in Run : s > called' <=> s > called /\ s # r
      /\ \A kind \in {"resolve", "finish", "go", "end", "adopt", "tail"} : ~Queued(kind, r)
  BY NewRun
<1>2. \A x \in Jobs : Act(x[2])' = Act(x[2]) /\ Ticket(x[2])' = Ticket(x[2])
  <2>1. \A x \in Jobs : x[2] \in Run /\ x[2] # r
    BY <1>1, JobsArePairs, NewUnqueued
  <2>2. QED
    BY <2>1 DEF Stays
<1>3. InOrder' /\ \A kind, s : Queued(kind, s)' <=> Queued(kind, s)
  BY <1>2, QueueStays
<1>4. RunsKnown'
  BY <1>1 DEF RunsKnown, IsNew, Stays
<1>5. OneExecution'
  BY <1>1, OneStage DEF OneExecution, Stays
<1>6. OnlyEnds'
  BY <1>1, <1>3 DEF OnlyEnds, Stays
<1>7. JobsFit'
  BY <1>1, <1>3, <1>6 DEF JobsFit, Stays
<1>8. \A s \in Run : Open(s)' <=> Open(s)
  BY <1>1, <1>3 DEF Open, Stays
<1>9. NoneReleasedEarly'
  BY <1>1, <1>3 DEF NoneReleasedEarly, OnlyEnds
<1>10. QED
  BY <1>3, <1>4, <1>5, <1>7, <1>8, <1>9

\* A call that is dropped.
LEMMA DroppedHolds ==
  ASSUME RunnerInv, NEW r \in Run, NEW a \in Action, CallDropped(r, a)
  PROVE  RunnerInv'
<1> USE DEF RunnerInv
<1>1. Calling(r, a)
  BY DEF CallDropped
<1>2. /\ called' \in 0..MaxCalls /\ draining' \in BOOLEAN /\ New(r) /\ IsNew(r) /\ OnlyEnds
      /\ ~Open(r)
  BY <1>1, NewRun
<1> DEFINE new == [Called(r, a) EXCEPT !.stage = "done", !.skipped = TRUE]
<1>3. Restaged(new, Called(r, a), "done")
  BY CalledRun, RunUpdated
<1>4. /\ runs' = [runs EXCEPT ![r] = new]
      /\ UNCHANGED <<running, tails, tickets, cooling, waiters, follower, value, micro>>
  BY DEF CallDropped
<1> HIDE DEF new
<1>5. /\ runs' \in [Run -> RunState]
      /\ \A s \in Run : s # r => Stays(s)
      /\ Comes(r, "done") /\ Keeps(r, a)
  BY <1>3, <1>4, CalledRun, OneMoves
<1>6. TypeOK'
  BY <1>2, <1>4, <1>5 DEF TypeOK
<1>7. \A s \in Run : New(s) => follower'[s] = None /\ waiters'[s] = <<>>
  BY <1>4 DEF StepsInv, RunsKnown, IsNew
<1>8. /\ StepsInv'
      /\ \A kind, s : Queued(kind, s)' <=> Queued(kind, s)
      /\ \A s \in Run : Open(s)' <=> Open(s)
  BY <1>1, <1>2, <1>4, <1>5, <1>7, CallWaits DEF Comes, Keeps, IsNew
<1>9. \A s \in Run : OnItsWay(s)' <=> OnItsWay(s)
  BY <1>4, <1>8 DEF OnItsWay, WaitsFor
<1>10. WaitersInv'
  <2>1. \A s, w \in Run : WaitsFor(w, s) /\ Open(s) => w # r /\ s # r
    BY <1>2, OneStage DEF WaitersInv, WaitersWait
  <2>2. QED
    BY <1>2, <1>4, <1>5, <1>8, <2>1, WaitersStay DEF Comes, Keeps, Stays, IsNew
<1>11. TicketsInv'
  <2>1. \A s \in Run : ~Queued("end", s)'
    BY <1>2, <1>8 DEF OnlyEnds
  <2>2. QED
    BY <1>2, <1>4, <1>5, <1>8, <1>9, <2>1, TicketsStay
       DEF Comes, Keeps, Stays, IsNew, StepsInv
<1>12. LineInv'
  BY <1>2, <1>4, <1>5, <1>8, <1>9, LineStays DEF Comes, Keeps, Stays, IsNew, StepsInv
<1>13. QED
  BY <1>6, <1>8, <1>10, <1>11, <1>12
\* A run that joins the line: what its record says.
LEMMA JoinsLine ==
  ASSUME RunnerInv, NEW r \in Run, NEW a \in Action, Calling(r, a),
         runs' = [runs EXCEPT ![r] = [Called(r, a) EXCEPT !.stage = "waiting", !.queued = TRUE]]
  PROVE  /\ runs' \in [Run -> RunState]
         /\ \A s \in Run : s # r => Stays(s)
         /\ Comes(r, "waiting")
         /\ Act(r)' = a /\ ~Ticketed(r)' /\ InLine(r)'
<1> DEFINE new == [Called(r, a) EXCEPT !.stage = "waiting", !.queued = TRUE]
<1>1. Called(r, a) \in RunState /\ Called(r, a).action = a
      /\ Called(r, a).ticket = runs[r].ticket
  BY CalledRun DEF RunnerInv
<1>2. ~(runs[r].ticket > 0)
  BY NewRun DEF IsNew, Ticketed
<1>3. new \in RunState
  BY <1>1 DEF RunState
<1>4. new.stage = "waiting" /\ new.action = a /\ new.ticket = runs[r].ticket
  BY <1>1 DEF RunState
<1>5. new.queued = TRUE
  BY <1>1 DEF RunState
<1>6. runs' = [runs EXCEPT ![r] = new]
  OBVIOUS
<1> HIDE DEF new
<1>7. /\ runs' \in [Run -> RunState] /\ runs'[r] = new
      /\ \A s \in Run : s # r => Stays(s)
  BY <1>3, <1>6, OthersStay DEF RunnerInv
<1>8. Comes(r, "waiting")
  BY <1>4, <1>7 DEF Comes, New, Waiting, Executing, Settled, Done, Started, Live
<1>9. Act(r)' = a /\ ~Ticketed(r)'
  BY <1>2, <1>4, <1>7 DEF Act, Ticketed
<1>10. InLine(r)'
  BY <1>5, <1>7 DEF InLine
<1>11. QED
  BY <1>7, <1>8, <1>9, <1>10

\* A queued call joins the line of its action behind the tail.
LEMMA QueuedBehindTail ==
  ASSUME RunnerInv, NEW r \in Run, NEW a \in Action, CallQueued(r, a),
         NEW t \in Run, tails[a] = t
  PROVE  RunnerInv'
<1> USE DEF RunnerInv
<1>1. Calling(r, a) /\ PolicyOf[a] = "enqueue"
  BY DEF CallQueued
<1>2. /\ called' \in 0..MaxCalls /\ draining' \in BOOLEAN /\ New(r) /\ IsNew(r) /\ OnlyEnds
      /\ ~Open(r) /\ \A s \in Run : ~New(s) => s < r
  BY <1>1, NewRun
<1>3. /\ runs' \in [Run -> RunState]
      /\ \A s \in Run : s # r => Stays(s)
      /\ Comes(r, "waiting") /\ Act(r)' = a /\ ~Ticketed(r)' /\ InLine(r)'
  BY <1>1, JoinsLine DEF CallQueued
<1>4. /\ follower' = [follower EXCEPT ![t] = r] /\ tails' = [tails EXCEPT ![a] = r]
      /\ UNCHANGED <<running, tickets, cooling, waiters, value, micro>>
  BY Places DEF CallQueued, Behind
<1>5. /\ \A s \in Run : follower'[s] = IF s = t THEN r ELSE follower[s]
      /\ \A b \in Action : tails'[b] = IF b = a THEN r ELSE tails[b]
  BY <1>4 DEF TypeOK
<1>6. TypeOK'
  BY <1>2, <1>3, <1>4 DEF TypeOK
<1>7. /\ InLine(t) /\ Act(t) = a /\ Live(t) /\ follower[t] = None /\ Ahead(t)
      /\ \A s \in Run : InLine(s) /\ Act(s) = a => s <= t
  BY <1>2 DEF LineInv, TailIsQueued, TailIsLast, TailIsAhead, Ahead, OnlyEnds
<1>8. t < r /\ t # r
  BY <1>2, <1>7, OneStage
<1>9. /\ StepsInv'
      /\ \A kind, s : Queued(kind, s)' <=> Queued(kind, s)
      /\ \A s \in Run : Open(s)' <=> Open(s)
  <2>1. \A s \in Run : New(s) /\ s # r => follower'[s] = None /\ waiters'[s] = <<>>
    BY <1>4, <1>5, <1>7, OneStage DEF StepsInv, RunsKnown, IsNew
  <2>2. QED
    BY <1>1, <1>3, <1>4, <2>1, CallWaits DEF Comes
<1>10. \A s \in Run : OnItsWay(s)' <=> OnItsWay(s)
  BY <1>4, <1>9 DEF OnItsWay, WaitsFor
<1>11. \A s, w \in Run : WaitsFor(w, s) /\ Open(s) => w # r /\ s # r
  BY <1>2, OneStage DEF WaitersInv, WaitersWait
<1>12. WaitersInv'
  BY <1>2, <1>3, <1>4, <1>9, <1>11, WaitersStay DEF Stays, IsNew
<1>13. TicketsInv'
  <2>1. \A s \in Run : ~Queued("end", s)'
    BY <1>2, <1>9 DEF OnlyEnds
  <2>2. QED
    BY <1>2, <1>3, <1>4, <1>9, <1>10, <2>1, TicketsStay
       DEF Comes, Stays, IsNew, StepsInv
<1>14. ~OnItsWay(r)
  BY <1>2, <1>11 DEF OnItsWay, OnlyEnds
<1>15. \A s \in Run : Ahead(s)' <=> s = r \/ Ahead(s)
  BY <1>2, <1>3, <1>9 DEF Ahead, Stays, Comes, OnlyEnds
<1>16. ~Queued("adopt", r) /\ ~Queued("tail", r) /\ \A s \in Run : ~Queued("tail", s)
  BY <1>2 DEF OnlyEnds
<1>17. TailIsQueued'
  BY <1>3, <1>5, <1>7, <1>8, <1>2 DEF LineInv, TailIsQueued, Stays, IsNew
<1>18. TailIsLast'
  BY <1>2, <1>3, <1>5, <1>7, <1>8, Places DEF LineInv, TailIsLast, TailIsQueued, Stays, IsNew
<1>19. TailIsAhead'
  BY <1>5, <1>9, <1>15 DEF LineInv, TailIsAhead
<1>20. TailEndsLast'
  BY <1>9, <1>16 DEF TailEndsLast
<1>21. QueuedHaveTail'
  BY <1>3, <1>5, Places DEF LineInv, QueuedHaveTail, Stays
<1>22. FollowersWait'
  BY <1>2, <1>3, <1>5, <1>7, <1>8, <1>15, Places DEF LineInv, FollowersWait, Stays, Comes, IsNew, Ahead
<1>23. FollowersAreNext'
  BY <1>2, <1>3, <1>5, <1>7, <1>8, <1>15, Places DEF LineInv, FollowersAreNext, FollowersWait, Stays, IsNew, Ahead
<1>24. QueuedHavePlace'
  BY <1>2, <1>3, <1>5, <1>7, <1>10, <1>15, Places DEF LineInv, QueuedHavePlace, Stays, IsNew
<1>25. FirstInLine'
  BY <1>2, <1>3, <1>10, <1>14, OneStage, Places DEF LineInv, FirstInLine, Stays
<1>26. WaitBehind'
  <2>1. SUFFICES ASSUME NEW p \in Run, NEW s \in Run, InLine(p)', Started(p)', Waiting(s)',
                        Act(s)' = Act(p)'
                 PROVE  p < s
    BY <1>2, <1>9 DEF WaitBehind, OnlyEnds
  <2>2. p # r /\ InLine(p) /\ Started(p) /\ ~New(p) /\ Act(p)' = Act(p)
    BY <1>3, <2>1, OneStage DEF Comes, Stays
  <2>3. CASE s = r
    BY <1>2, <2>2, <2>3
  <2>4. CASE s # r
    BY <1>3, <2>1, <2>2, <2>4 DEF Stays, LineInv, WaitBehind
  <2>5. QED
    BY <2>3, <2>4
<1>27. QED
  BY <1>6, <1>9, <1>12, <1>13, <1>17, <1>18, <1>19, <1>20, <1>21, <1>22, <1>23, <1>24, <1>25,
     <1>26 DEF LineInv
\* A queued call that finds no line waits for the execution, and is the line.
LEMMA QueuedBehindExecution ==
  ASSUME RunnerInv, NEW r \in Run, NEW a \in Action, CallQueued(r, a), tails[a] = None
  PROVE  RunnerInv'
<1> USE DEF RunnerInv
<1>1. Calling(r, a) /\ PolicyOf[a] = "enqueue"
  BY DEF CallQueued
<1>2. /\ called' \in 0..MaxCalls /\ draining' \in BOOLEAN /\ New(r) /\ IsNew(r) /\ OnlyEnds
      /\ ~Open(r) /\ \A s \in Run : ~New(s) => s < r
  BY <1>1, NewRun
<1>3. /\ runs' \in [Run -> RunState]
      /\ \A s \in Run : s # r => Stays(s)
      /\ Comes(r, "waiting") /\ Act(r)' = a /\ ~Ticketed(r)' /\ InLine(r)'
  BY <1>1, JoinsLine DEF CallQueued
<1>4. PICK e \in Run : running[a] = e
  BY DEF CallQueued, Behind, TypeOK
<1>5. /\ waiters' = [waiters EXCEPT ![e] = Append(@, r)] /\ tails' = [tails EXCEPT ![a] = r]
      /\ UNCHANGED <<running, tickets, cooling, follower, value, micro>>
  BY <1>4, Places DEF CallQueued, Behind
<1>6. Append(waiters[e], r) \in Seq(Run)
  BY DEF TypeOK
<1>7. TypeOK'
  BY <1>2, <1>3, <1>5, <1>6 DEF TypeOK
<1>8. /\ \A s \in Run : waiters'[s] = IF s = e THEN Append(waiters[e], r) ELSE waiters[s]
      /\ \A b \in Action : tails'[b] = IF b = a THEN r ELSE tails[b]
  BY <1>5 DEF TypeOK
<1>9. \A s \in Run : InLine(s) /\ Act(s) = a => ~Live(s)
  BY DEF LineInv, QueuedHaveTail
<1>10. \A s \in Run : Act(s) = a => ~Waiting(s)
  BY <1>1, <1>9, OneStage DEF StepsInv, RunsKnown
<1>11. Act(e) = a /\ Started(e) /\ ~InLine(e) /\ Open(e) /\ e # r
  BY <1>2, <1>4, <1>9, OneStage DEF StepsInv, OneExecution, OnlyEnds, Open, Started
<1>12. waiters[e] = <<>>
  <2>1. \A w \in Run : ~WaitsFor(w, e)
    BY <1>10, <1>11 DEF WaitersInv, WaitersWait
  <2>2. waiters[e] \in Seq(Run)
    BY DEF TypeOK
  <2>3. \A i \in DOMAIN waiters[e] : waiters[e][i] \in Run
    BY <2>2
  <2>4. DOMAIN waiters[e] = {}
    BY <2>1, <2>3 DEF WaitsFor, Range
  <2>5. Len(waiters[e]) \in Nat /\ DOMAIN waiters[e] = 1..Len(waiters[e])
    BY <2>2, LenProperties
  <2>6. Len(waiters[e]) = 0
    BY <2>4, <2>5
  <2>7. QED
    BY <2>2, <2>6, EmptySeq
<1>13. waiters'[e] = <<r>>
  BY <1>8, <1>12
<1> HIDE DEF RunnerInv
<1>14. \A s, w \in Run : WaitsFor(w, s)' <=> (s = e /\ w = r) \/ WaitsFor(w, s)
  <2>1. \A w \in Run : WaitsFor(w, e)' <=> w = r
    BY <1>13 DEF WaitsFor, Range
  <2>2. \A w \in Run : ~WaitsFor(w, e)
    BY <1>12 DEF WaitsFor, Range
  <2>3. \A s \in Run, w \in Run : s # e => (WaitsFor(w, s)' <=> WaitsFor(w, s))
    BY <1>8 DEF WaitsFor
  <2>4. QED
    BY <2>1, <2>2, <2>3
<1> USE DEF RunnerInv
<1>15. /\ StepsInv'
       /\ \A kind, s : Queued(kind, s)' <=> Queued(kind, s)
       /\ \A s \in Run : Open(s)' <=> Open(s)
  <2>1. \A s \in Run : New(s) /\ s # r => follower'[s] = None /\ waiters'[s] = <<>>
    BY <1>5, <1>8, <1>11, OneStage DEF StepsInv, RunsKnown, IsNew
  <2>2. QED
    BY <1>1, <1>3, <1>5, <2>1, CallWaits DEF Comes
<1>16. \A s, w \in Run : WaitsFor(w, s) /\ Open(s) => w # r /\ s # r
  BY <1>2, OneStage DEF WaitersInv, WaitersWait
<1>17. \A s \in Run : OnItsWay(s)' <=> s = r \/ OnItsWay(s)
  BY <1>11, <1>14, <1>15 DEF OnItsWay
<1>18. WaitersWait'
  BY <1>3, <1>11, <1>14, <1>15, <1>16, <1>2 DEF WaitersInv, WaitersWait, Stays, Comes
<1>19. WaitersByTicket'
  <2>1. SUFFICES ASSUME NEW s \in Run, NEW v \in Run, NEW w \in Run, Open(s)',
                        NEW i \in DOMAIN waiters'[s], NEW j \in DOMAIN waiters'[s],
                        i < j, waiters'[s][i] = v, waiters'[s][j] = w
                 PROVE  Ticket(v)' < Ticket(w)'
    BY DEF WaitersByTicket
  <2>2. CASE s = e
    BY <1>13, <2>1, <2>2
  <2>3. CASE s # e
    <3>1. waiters'[s] = waiters[s] /\ Open(s)
      BY <1>8, <1>15, <2>1, <2>3
    <3>2. WaitsFor(v, s) /\ WaitsFor(w, s)
      BY <2>1, <3>1 DEF WaitsFor, Range
    <3>3. Ticket(v)' = Ticket(v) /\ Ticket(w)' = Ticket(w)
      BY <1>3, <1>16, <3>1, <3>2 DEF Stays
    <3>4. QED
      BY <2>1, <3>1, <3>3 DEF WaitersInv, WaitersByTicket
  <2>4. QED
    BY <2>2, <2>3
<1>20. NoneWaitForQueued'
  BY <1>2, <1>3, <1>8, <1>10, <1>11 DEF WaitersInv, NoneWaitForQueued, Stays, IsNew
<1>21. TicketsInv'
  <2>1. \A s \in Run : ~Queued("end", s)'
    BY <1>2, <1>15 DEF OnlyEnds
  <2>2. QED
    BY <1>2, <1>3, <1>5, <1>15, <1>17, <2>1, TicketsStay
       DEF Comes, Stays, IsNew, StepsInv
<1>22. \A s \in Run : Ahead(s)' <=> s = r \/ Ahead(s)
  BY <1>2, <1>3, <1>15 DEF Ahead, Stays, Comes, OnlyEnds
<1>23. \A s \in Run : Act(s) = a => ~Ahead(s)
  BY <1>2, <1>9 DEF Ahead, OnlyEnds
<1>24. TailIsQueued'
  BY <1>2, <1>3, <1>5, <1>8 DEF LineInv, TailIsQueued, Stays, IsNew
<1>25. TailIsLast'
  <2>1. \A s \in Run : InLine(s) => s < r
    BY <1>2, OneStage DEF StepsInv, RunsKnown, IsNew
  <2>2. QED
    BY <1>2, <1>3, <1>8, <2>1, Places DEF LineInv, TailIsLast, TailIsQueued, Stays, IsNew
<1>26. TailIsAhead'
  BY <1>8, <1>15, <1>22 DEF LineInv, TailIsAhead
<1>27. TailEndsLast'
  BY <1>2, <1>15 DEF TailEndsLast, OnlyEnds
<1>28. QueuedHaveTail'
  BY <1>3, <1>8, Places DEF LineInv, QueuedHaveTail, Stays
<1>29. FollowersWait'
  BY <1>2, <1>3, <1>5, <1>22, Places, OneStage DEF LineInv, FollowersWait, Stays, IsNew
<1>30. FollowersAreNext'
  BY <1>2, <1>3, <1>5, <1>22, <1>23, Places DEF LineInv, FollowersAreNext, Stays, IsNew
<1>31. QueuedHavePlace'
  BY <1>3, <1>5, <1>17, <1>22 DEF LineInv, QueuedHavePlace, Stays
<1>32. FirstInLine'
  BY <1>2, <1>3, <1>10, <1>17, Places DEF LineInv, FirstInLine, Stays
<1>33. WaitBehind'
  BY <1>2, <1>3, <1>9, <1>15, OneStage DEF LineInv, WaitBehind, Stays, Comes, OnlyEnds
<1>34. QED
  BY <1>7, <1>15, <1>18, <1>19, <1>20, <1>21, <1>24, <1>25, <1>26, <1>27, <1>28, <1>29, <1>30,
     <1>31, <1>32, <1>33 DEF LineInv, WaitersInv

\* A call that waits to replace.
LEMMA ReplacingHolds ==
  ASSUME RunnerInv, NEW r \in Run, NEW a \in Action, CallReplacing(r, a)
  PROVE  RunnerInv'
<1> USE DEF RunnerInv
<1>1. Calling(r, a) /\ PolicyOf[a] = "replace"
  BY DEF CallReplacing
<1>2. /\ called' \in 0..MaxCalls /\ draining' \in BOOLEAN /\ New(r) /\ IsNew(r) /\ OnlyEnds
      /\ ~Open(r) /\ \A s \in Run : ~New(s) => s < r
  BY <1>1, NewRun
<1> DEFINE n == tickets[a] + 1
           new == [Called(r, a) EXCEPT !.stage = "waiting", !.ticket = n]
<1>3. n \in Nat /\ n > 0 /\ n > tickets[a]
  BY Places
<1> HIDE DEF n
<1>4. /\ new \in RunState /\ new.stage = "waiting" /\ new.action = a
      /\ new.ticket = n /\ new.queued = runs[r].queued
  <2>1. TakesTicket(new, Called(r, a), n)
    BY <1>3, CalledRun, RunTicketed
  <2> HIDE DEF new
  <2>2. QED
    BY <2>1, CalledRun DEF TakesTicket
<1>5. /\ runs' = [runs EXCEPT ![r] = new]
      /\ tickets' = [tickets EXCEPT ![a] = n]
      /\ UNCHANGED <<running, tails, cooling, follower, value, micro>>
  BY DEF CallReplacing, n
<1> HIDE DEF new
<1>6. PICK e \in Run : running[a] = e
  BY DEF CallReplacing, Busy, TypeOK
<1>7. waiters' = [waiters EXCEPT ![e] = Append(waiters[e], r)]
  BY <1>6 DEF CallReplacing
<1>8. Append(waiters[e], r) \in Seq(Run)
  BY DEF TypeOK
<1>9. /\ runs' \in [Run -> RunState] /\ runs'[r] = new
      /\ \A s \in Run : s # r => Stays(s)
  BY <1>4, <1>5, OthersStay
<1>10. Comes(r, "waiting")
  BY <1>4, <1>9 DEF Comes, New, Waiting, Executing, Settled, Done, Started, Live
<1>11. Act(r)' = a /\ Ticket(r)' = n /\ Ticketed(r)'
  BY <1>3, <1>4, <1>9 DEF Act, Ticket, Ticketed
<1>12. ~InLine(r)'
  BY <1>2, <1>4, <1>9 DEF InLine, IsNew
<1>13. TypeOK'
  BY <1>2, <1>3, <1>5, <1>7, <1>8, <1>9 DEF TypeOK
<1>14. /\ \A s \in Run : waiters'[s] = IF s = e THEN Append(waiters[e], r) ELSE waiters[s]
       /\ \A b \in Action : tickets'[b] = IF b = a THEN n ELSE tickets[b]
  BY <1>5, <1>7 DEF TypeOK
<1>15. Act(e) = a /\ Started(e) /\ ~InLine(e) /\ Open(e) /\ e # r
  BY <1>1, <1>2, <1>6, OneStage DEF StepsInv, RunsKnown, OneExecution, OnlyEnds, Open, Started
<1>16. /\ StepsInv'
       /\ \A kind, s : Queued(kind, s)' <=> Queued(kind, s)
       /\ \A s \in Run : Open(s)' <=> Open(s)
  <2>1. \A s \in Run : New(s) /\ s # r => follower'[s] = None /\ waiters'[s] = <<>>
    BY <1>5, <1>14, <1>15, OneStage DEF StepsInv, RunsKnown, IsNew
  <2>2. QED
    BY <1>1, <1>5, <1>9, <1>10, <1>11, <1>12, <2>1, CallWaits DEF Comes
<1>17. \A s, w \in Run : WaitsFor(w, s) /\ Open(s) => w # r /\ s # r
  BY <1>2, OneStage DEF WaitersInv, WaitersWait
<1>18. \A s, w \in Run : WaitsFor(w, s)' <=> (s = e /\ w = r) \/ WaitsFor(w, s)
  <2>1. waiters[e] \in Seq(Run)
    BY DEF TypeOK
  <2>2. Range(Append(waiters[e], r)) = Range(waiters[e]) \cup {r}
    BY <2>1, AppendProperties DEF Range
  <2>3. QED
    BY <1>14, <2>2 DEF WaitsFor
<1>19. \A s \in Run : OnItsWay(s)' <=> s = r \/ OnItsWay(s)
  <2>1. \A s \in Run : OnItsWay(s)' <=> Queued("go", s) \/ \E p \in Run : Open(p) /\ WaitsFor(s, p)'
    BY <1>16 DEF OnItsWay
  <2>2. QED
    BY <1>15, <1>18, <2>1 DEF OnItsWay
<1>20. WaitersWait'
  BY <1>9, <1>10, <1>11, <1>15, <1>16, <1>17, <1>18 DEF WaitersInv, WaitersWait, Stays, Comes
<1>21. WaitersByTicket'
  <2>1. SUFFICES ASSUME NEW s \in Run, NEW v \in Run, NEW w \in Run, Open(s)',
                        NEW i \in DOMAIN waiters'[s], NEW j \in DOMAIN waiters'[s],
                        i < j, waiters'[s][i] = v, waiters'[s][j] = w
                 PROVE  Ticket(v)' < Ticket(w)'
    BY DEF WaitersByTicket
  <2>2. Open(s) /\ waiters[s] \in Seq(Run)
    BY <1>16, <2>1 DEF TypeOK
  <2>3. CASE i \in DOMAIN waiters[s] /\ j \in DOMAIN waiters[s]
    <3>1. waiters'[s][i] = waiters[s][i] /\ waiters'[s][j] = waiters[s][j]
      <4>1. CASE s = e
        <5>1. waiters[e] \in Seq(Run) /\ waiters'[e] = Append(waiters[e], r)
          BY <1>14, <2>2, <4>1
        <5>2. /\ DOMAIN waiters[e] = 1..Len(waiters[e])
              /\ \A k \in 1..Len(waiters[e]) : waiters'[e][k] = waiters[e][k]
          BY <5>1, AppendProperties, LenProperties
        <5>3. QED
          BY <2>3, <4>1, <5>2
      <4>2. CASE s # e
        BY <1>14, <4>2
      <4>3. QED
        BY <4>1, <4>2
    <3>2. WaitsFor(v, s) /\ WaitsFor(w, s)
      BY <2>1, <2>3, <3>1 DEF WaitsFor, Range
    <3>3. Ticket(v)' = Ticket(v) /\ Ticket(w)' = Ticket(w)
      BY <1>9, <1>17, <2>2, <3>2 DEF Stays
    <3>4. QED
      BY <2>1, <2>2, <2>3, <3>1, <3>3 DEF WaitersInv, WaitersByTicket
  <2>4. CASE ~(i \in DOMAIN waiters[s] /\ j \in DOMAIN waiters[s])
    <3>1. s = e
      BY <1>14, <2>1, <2>4
    <3>2. i \in DOMAIN waiters[e] /\ waiters[e][i] = v /\ w = r
      <4>1. /\ waiters[e] \in Seq(Run) /\ waiters'[e] = Append(waiters[e], r)
            /\ i \in DOMAIN waiters'[e] /\ j \in DOMAIN waiters'[e] /\ i < j
        BY <1>14, <2>1, <2>2, <3>1
      <4>2. /\ Len(waiters[e]) \in Nat /\ DOMAIN waiters[e] = 1..Len(waiters[e])
            /\ DOMAIN waiters'[e] = 1..Len(waiters[e]) + 1
            /\ waiters'[e][Len(waiters[e]) + 1] = r
            /\ \A k \in 1..Len(waiters[e]) : waiters'[e][k] = waiters[e][k]
        BY <4>1, AppendProperties, LenProperties
      <4>3. i \in 1..Len(waiters[e]) /\ j = Len(waiters[e]) + 1
        BY <2>4, <3>1, <4>1, <4>2
      <4>4. QED
        BY <2>1, <3>1, <4>2, <4>3
    <3>3. WaitsFor(v, e)
      BY <3>2 DEF WaitsFor, Range
    <3>4. Waiting(v) /\ Act(v) = a /\ v # r
      BY <1>15, <1>17, <3>3 DEF WaitersInv, WaitersWait
    <3>5. Ticketed(v)
      BY <1>1, <3>4 DEF StepsInv, RunsKnown
    <3>6. Ticket(v) <= tickets[a]
      BY <3>4, <3>5, OneStage DEF TicketsInv, TicketsCounted
    <3>7. Ticket(v)' = Ticket(v) /\ Ticket(w)' = n
      BY <1>9, <1>11, <3>2, <3>4 DEF Stays
    <3>8. QED
      BY <1>3, <3>6, <3>7, Places
  <2>5. QED
    BY <2>3, <2>4
<1>22. NoneWaitForQueued'
  BY <1>1, <1>2, <1>9, <1>12, <1>14, <1>15, OneStage DEF WaitersInv, NoneWaitForQueued, Stays, IsNew
<1>23. \A s \in Run : s # r /\ Act(s)' = a /\ Ticketed(s)' /\ Live(s)' => Ticket(s)' <= tickets[a]
  BY <1>9 DEF TicketsInv, TicketsCounted, Stays
<1>24. TicketsCounted'
  <2>1. ASSUME NEW s \in Run, Ticketed(s)', Live(s)'
        PROVE  Ticket(s)' <= tickets'[Act(s)']
    <3>1. CASE s = r
      BY <1>3, <1>11, <1>14, <3>1
    <3>2. CASE s # r /\ Act(s)' = a
      BY <1>3, <1>9, <1>14, <1>23, <2>1, <3>2, Places DEF Stays
    <3>3. CASE s # r /\ Act(s)' # a
      <4>1. Act(s)' \in Action
        BY <1>16, <1>9, <2>1, <3>3, OneStage DEF Stays, StepsInv, RunsKnown
      <4>2. QED
        BY <1>9, <1>14, <2>1, <3>3, <4>1 DEF TicketsInv, TicketsCounted, Stays
    <3>4. QED
      BY <3>1, <3>2, <3>3
  <2>2. QED
    BY <2>1 DEF TicketsCounted
<1>25. TicketsOnTheirWay'
  BY <1>9, <1>19 DEF TicketsInv, TicketsOnTheirWay, Stays
\* Whoever has the newest ticket of this action now is the new run.
<1>26. \A s \in Run : ~New(s) /\ Ticketed(s) /\ Act(s) # a => (Newest(s)' <=> Newest(s))
  <2>1. \A s \in Run : ~New(s) => Act(s) \in Action /\ s # r
    BY <1>2 DEF StepsInv, RunsKnown
  <2>2. \A s \in Run : Stays(s) /\ ~New(s) /\ Act(s) # a => tickets'[Act(s)'] = tickets[Act(s)]
    BY <1>14, <2>1 DEF Stays
  <2>3. QED
    BY <1>9, <2>1, <2>2 DEF Newest, Stays, Ticket, Act
<1>27. \A s \in Run : Live(s) /\ Ticketed(s) /\ Act(s) = a => ~Newest(s)'
  <2>1. ASSUME NEW s \in Run, Live(s), Ticketed(s), Act(s) = a
        PROVE  ~Newest(s)'
    <3>1. Ticket(s) <= tickets[a] /\ s # r
      BY <1>2, <2>1, OneStage DEF TicketsInv, TicketsCounted
    <3>2. Ticket(s)' # n /\ Act(s)' = a
      BY <1>3, <1>9, <2>1, <3>1, Places DEF Stays
    <3>3. tickets'[a] = n
      BY <1>14
    <3>4. QED
      BY <3>2, <3>3 DEF Newest, Ticket, Act
  <2>2. QED
    BY <2>1
<1>28. Newest(r)'
  BY <1>11, <1>14 DEF Newest, Ticket, Act
<1>29. OldTicketsReplaced'
  <2>1. SUFFICES ASSUME NEW w \in Run, Ticketed(w)', Waiting(w)', ~Newest(w)'
                 PROVE  \E s \in Run : s > w /\ Act(s)' = Act(w)' /\ ~New(s)'
    BY DEF OldTicketsReplaced
  <2>2. w # r /\ Ticketed(w) /\ Waiting(w) /\ ~New(w) /\ Act(w)' = Act(w)
    BY <1>9, <1>28, <2>1, OneStage DEF Stays
  <2>3. CASE Act(w) = a
    <3>1. r > w /\ Act(r)' = Act(w)' /\ ~New(r)'
      BY <1>2, <1>10, <1>11, <2>2, <2>3, Places DEF Comes
    <3>2. QED
      BY <3>1
  <2>4. CASE Act(w) # a
    <3>1. ~Newest(w)
      BY <1>26, <2>1, <2>2, <2>4
    <3>2. PICK s \in Run : s > w /\ Act(s) = Act(w) /\ ~New(s)
      BY <2>2, <3>1 DEF TicketsInv, OldTicketsReplaced
    <3>3. Act(s)' = Act(w)' /\ ~New(s)'
      BY <1>2, <1>9, <2>2, <3>2 DEF Stays
    <3>4. QED
      BY <3>2, <3>3
  <2>5. QED
    BY <2>3, <2>4
<1>30. NewestGoesLast'
  BY <1>9, <1>10, <1>11, <1>26, <1>27, OneStage DEF TicketsInv, NewestGoesLast, Stays, Comes
<1>31. NewestEndsLast'
  BY <1>2, <1>16 DEF NewestEndsLast, OnlyEnds
<1>32. LineInv'
  <2>1. \A s \in Run : InLine(s) => s # r
    BY <1>2 DEF IsNew
  <2>2. QED
    BY <1>2, <1>5, <1>9, <1>10, <1>11, <1>12, <1>16, <1>19, <2>1, LineStays DEF Stays, StepsInv, IsNew
<1>33. QED
  BY <1>13, <1>16, <1>20, <1>21, <1>22, <1>24, <1>25, <1>29, <1>30, <1>31, <1>32
     DEF TicketsInv, WaitersInv
-----------------------------------------------------------------------------
(* performAction.                                                            *)

\* Run r of action a may be performed: no execution of a is under way and nobody
\* else of it is on its way; who waits is behind r in the line.
MayPerform(r, a) ==
  /\ New(r) \/ (Waiting(r) /\ Act(r) = a)
  /\ New(r) => OnlyEnds
  /\ Ticketed(r) => PolicyOf[a] = "replace"
  /\ InLine(r) => PolicyOf[a] = "enqueue"
  /\ \A s \in Run : Act(s) = a => /\ ~Started(s) /\ ~Queued("adopt", s)
                                  /\ s # r => ~Queued("go", s)
  /\ \A s \in Run : Waiting(s) /\ Act(s) = a /\ s # r => InLine(r) /\ r < s
  /\ \A p \in Run : Ahead(p) => follower[p] # r

\* What performAction leaves in the queue, when run r comes to stage g.
Performed(r, g) ==
  \A s \in Run :
    /\ Queued("go", s)' <=> Queued("go", s) /\ s # r
    /\ Queued("resolve", s)' <=> Queued("resolve", s) \/ (s = r /\ g = "settled")
    /\ Queued("finish", s)' <=> Queued("finish", s) \/ (s = r /\ g = "settled")
    /\ Queued("end", s)' <=> Queued("end", s) \/ (s = r /\ g = "done" /\ Ticketed(r))
    /\ Queued("adopt", s)' <=> Queued("adopt", s) \/ (s = r /\ g = "done" /\ InLine(r))
    /\ Queued("tail", s)' <=> Queued("tail", s)

\* Whatever becomes of the run that is performed.
LEMMA PerformedHolds ==
  ASSUME RunnerInv, NEW r \in Run, NEW a \in Action, MayPerform(r, a),
         NEW g \in {"executing", "settled", "done"},
         \A s \in Run : s # r => Stays(s),
         Comes(r, g), Keeps(r, a), Performed(r, g),
         UNCHANGED <<tails, tickets, waiters, follower>>,
         \A s \in Run : s > called' <=> New(s) /\ s # r,
         ~draining' => New(r)
  PROVE  RunsKnown' /\ JobsFit' /\ NoneReleasedEarly' /\ WaitersInv' /\ TicketsInv' /\ LineInv'
<1> USE DEF RunnerInv, StepsInv
<1>1. /\ waiters[r] = <<>> /\ \A w \in Run : ~WaitsFor(w, r)
      /\ ~Open(r) /\ ~Started(r) /\ ~Done(r)
      /\ New(r) => ~InLine(r) /\ ~Ticketed(r)
  <2>1. New(r) => IsNew(r)
    BY DEF RunsKnown
  <2>2. waiters[r] = <<>>
    BY <2>1 DEF MayPerform, WaitersInv, NoneWaitForQueued, IsNew
  <2>3. \A w \in Run : ~WaitsFor(w, r)
    BY <2>2 DEF WaitsFor, Range
  <2>4. ~Open(r) /\ ~Started(r) /\ ~Done(r)
    BY OneStage DEF MayPerform, JobsFit, Open
  <2>5. QED
    BY <2>1, <2>2, <2>3, <2>4 DEF IsNew
<1>2. RunsKnown'
  <2>1. \A s \in Run : New(s)' <=> s > called'
    BY DEF Stays, Comes
  <2>2. \A s \in Run : New(s)' => IsNew(s)'
    BY DEF RunsKnown, IsNew, Stays, Comes
  <2>3. \A s \in Run : ~New(s)' => Act(s)' \in Action
    BY DEF RunsKnown, Stays, Comes, Keeps
  <2>4. \A s \in Run : (Ticketed(s)' => PolicyOf[Act(s)'] = "replace")
                       /\ (InLine(s)' => PolicyOf[Act(s)'] = "enqueue")
    BY DEF RunsKnown, MayPerform, Stays, Keeps
  <2>5. \A s \in Run : Waiting(s)' => InLine(s)' \/ Ticketed(s)'
    BY DEF RunsKnown, Stays, Comes
  <2>6. QED
    BY <2>1, <2>2, <2>3, <2>4, <2>5 DEF RunsKnown
<1>3. \A s \in Run :
        /\ Open(s)' <=> Open(s) \/ (s = r /\ g # "done")
        /\ Open(s) => Started(s)
  BY <1>1, OneStage DEF Open, Stays, Comes, Performed, JobsFit
<1>4. \A s \in Run : Ahead(s)' <=> Ahead(s)
  BY <1>1, OneStage DEF Ahead, Stays, Comes, Keeps, Performed, MayPerform
<1>5. \A s \in Run : s # r => (OnItsWay(s)' <=> OnItsWay(s))
  <2>1. \A s, w \in Run : WaitsFor(w, s)' <=> WaitsFor(w, s)
    BY DEF WaitsFor
  <2>2. QED
    BY <1>1, <1>3, <2>1 DEF OnItsWay, Performed
<1>6. OnlyEnds' \/ draining'
  BY <1>1 DEF MayPerform, Performed, OnlyEnds, Stays, Comes
<1>7. JobsFit'
  <2>1. \A s \in Run : Queued("resolve", s)' \/ Queued("finish", s)' => Settled(s)'
    BY <1>1, OneStage DEF JobsFit, Performed, Stays, Comes
  <2>2. \A s \in Run : Queued("go", s)' => Waiting(s)'
    BY DEF JobsFit, Performed, Stays
  <2>3. \A s \in Run : Queued("end", s)' => Done(s)' /\ Ticketed(s)'
    BY <1>1 DEF JobsFit, Performed, Stays, Comes, Keeps
  <2>4. \A s \in Run : Queued("adopt", s)' \/ Queued("tail", s)' => Done(s)' /\ InLine(s)'
    BY <1>1 DEF JobsFit, Performed, Stays, Comes, Keeps
  <2>5. \A s \in Run : ~(Queued("adopt", s)' /\ Queued("tail", s)')
    BY <1>1 DEF JobsFit, Performed
  <2>6. \A s \in Run : Settled(s)' => Queued("finish", s)'
    BY DEF JobsFit, Performed, Stays, Comes
  <2>7. QED
    BY <1>6, <2>1, <2>2, <2>3, <2>4, <2>5, <2>6 DEF JobsFit
<1>8. \A s \in Run : s # r /\ Act(s)' = a => ~Started(s)' /\ ~Open(s)'
  BY <1>3 DEF MayPerform, Stays
<1>9. NoneReleasedEarly'
  <2>1. SUFFICES ASSUME NEW p \in Run, NEW s \in Run, Act(s)' = Act(p)',
                        Open(p)' \/ (Started(p)' /\ InLine(p)')
                 PROVE  ~Queued("go", s)' /\ ~Queued("adopt", s)'
    BY DEF NoneReleasedEarly
  <2>2. CASE p = r
    <3>1. g # "done" /\ Act(s)' = a
      BY <1>1, <1>3, <2>1, <2>2 DEF Comes, Keeps
    <3>2. CASE s = r
      BY <1>1, <3>1, <3>2 DEF Performed, JobsFit
    <3>3. CASE s # r
      BY <3>1, <3>3 DEF Performed, Stays, MayPerform
    <3>4. QED
      BY <3>2, <3>3
  <2>3. CASE p # r
    <3>1. /\ Open(p) \/ (Started(p) /\ InLine(p))
          /\ Act(p)' # a /\ Act(s)' = Act(p) /\ s # r
      BY <1>3, <1>8, <2>1, <2>3 DEF Stays, Keeps
    <3>2. QED
      BY <3>1 DEF NoneReleasedEarly, Stays, Performed
  <2>4. QED
    BY <2>2, <2>3
<1>10. WaitersInv'
  <2>1. \A s \in Run : InLine(s)' \/ Waiting(s)' => InLine(s) \/ Waiting(s)
    BY DEF Stays, Comes, Keeps
  <2>2. \A s, w \in Run : Open(s)' /\ WaitsFor(w, s) => Open(s) /\ s # r
    BY <1>1, <1>3
  <2>3. \A s, w \in Run : Open(s) /\ WaitsFor(w, s) => w # r
    BY <1>1, <1>3, OneStage DEF MayPerform, WaitersInv, WaitersWait
  <2>4. QED
    BY <2>1, <2>2, <2>3, WaitersStay DEF Stays
<1>11. \A s \in Run : Live(s)' /\ s # r => Live(s)
  BY DEF Stays
<1>12. TicketsInv'
  <2>1. \A u \in Run : Ticketed(r) /\ Act(u)' = a => ~Waiting(u)'
    BY DEF MayPerform, RunsKnown, Stays, Comes
  <2>2. \A s \in Run : Ticketed(s) => /\ Act(s)' = Act(s) /\ Ticket(s)' = Ticket(s)
                             /\ (Live(s)' => Live(s)) /\ (Waiting(s)' => Waiting(s))
                             /\ (Waiting(s)' /\ OnItsWay(s) => OnItsWay(s)')
    BY <1>1, <1>5, OneStage DEF Stays, Comes, Keeps, MayPerform
  <2>3. \A s \in Run : Ticketed(s) /\ Started(s)' =>
          Started(s) \/ \A u \in Run : Act(u)' = Act(s)' => ~Waiting(u)'
    BY <2>1 DEF Stays, Keeps
  <2>4. \A s \in Run : Queued("end", s)' =>
          \/ Ticketed(s) /\ Queued("end", s)
          \/ \A u \in Run : Act(u)' = Act(s)' => ~Live(u)'
    <3>1. \A s \in Run : Queued("end", s) => Ticketed(s)
      BY DEF JobsFit
    <3>2. g = "done" /\ Ticketed(r) => \A u \in Run : Act(u)' = a => ~Live(u)'
      BY <1>8, <2>1 DEF Live, Comes, Stays
    <3>3. QED
      BY <3>1, <3>2 DEF Performed, Keeps
  <2>5. \A s \in Run : /\ Ticketed(s)' <=> Ticketed(s)
                       /\ Waiting(s)' => Waiting(s) /\ Act(s)' = Act(s)
                       /\ ~New(s) => ~New(s)' /\ Act(s)' = Act(s)
    BY DEF Stays, Comes, Keeps, MayPerform
  <2>6. \A s, w \in Run : Queued("end", w)' /\ Live(s)' => Live(s) /\ Act(s)' = Act(s)
    BY <1>1, OneStage DEF Stays, Comes, Keeps, MayPerform, OnlyEnds, Performed
  <2>7. QED
    BY <1>2, <2>2, <2>3, <2>4, <2>5, <2>6, TicketsStay
<1>13. TailIsQueued'
  BY <1>1, OneStage DEF LineInv, TailIsQueued, Stays, Keeps, MayPerform
<1>14. TailIsLast'
  BY <1>1 DEF LineInv, TailIsLast, Stays, Keeps, MayPerform
<1>15. TailIsAhead'
  BY <1>4 DEF LineInv, TailIsAhead, Performed
<1>16. TailEndsLast'
  BY <1>1, OneStage DEF LineInv, TailEndsLast, Performed, Stays, Comes, Keeps, MayPerform
<1>17. QueuedHaveTail'
  BY <1>1, OneStage DEF LineInv, QueuedHaveTail, Stays, Comes, Keeps, MayPerform
<1>18. FollowersWait'
  BY <1>1, <1>4 DEF LineInv, FollowersWait, Stays, Keeps, MayPerform, Ahead
<1>19. FollowersAreNext'
  BY <1>1, <1>4 DEF LineInv, FollowersAreNext, Stays, Keeps, MayPerform, Ahead
<1>20. QueuedHavePlace'
  BY <1>4, <1>5 DEF LineInv, QueuedHavePlace, Stays, Comes
<1>21. FirstInLine'
  BY <1>5 DEF LineInv, FirstInLine, Stays, Comes
<1>22. WaitBehind'
  BY <1>1 DEF LineInv, WaitBehind, Performed, MayPerform, Stays, Comes, Keeps
<1>23. QED
  BY <1>2, <1>7, <1>9, <1>10, <1>12, <1>13, <1>14, <1>15, <1>16, <1>17, <1>18, <1>19, <1>20,
     <1>21, <1>22 DEF LineInv

\* Queues of no, one and two jobs.
LEMMA FewJobs ==
  ASSUME NEW rs
  PROVE  /\ <<>> \in Seq(Job) /\ Range(<<>>) = {} /\ Ordered(rs, <<>>)
         /\ \A x \in Job : <<x>> \in Seq(Job) /\ Range(<<x>>) = {x} /\ Ordered(rs, <<x>>)
         /\ \A x, y \in Job : /\ <<x, y>> \in Seq(Job) /\ Range(<<x, y>>) = {x, y}
                              /\ MayPrecede(rs, x, y) => Ordered(rs, <<x, y>>)
<1>1. <<>> \in Seq(Job) /\ Range(<<>>) = {} /\ Ordered(rs, <<>>)
  BY DEF Range, Ordered
<1>2. ASSUME NEW x \in Job
      PROVE  <<x>> \in Seq(Job) /\ Range(<<x>>) = {x} /\ Ordered(rs, <<x>>)
  <2>1. <<x>> \in Seq(Job) /\ DOMAIN <<x>> = 1..1 /\ <<x>>[1] = x
    OBVIOUS
  <2> DEFINE t == <<x>>
  <2> HIDE DEF t
  <2>2. t \in Seq(Job) /\ DOMAIN t = {1} /\ t[1] = x
    BY <2>1 DEF t
  <2>3. Range(t) = {x}
    BY <2>2 DEF Range
  <2>4. Ordered(rs, t)
    BY <2>2 DEF Ordered
  <2>5. QED
    BY <2>2, <2>3, <2>4 DEF t
<1>3. ASSUME NEW x \in Job, NEW y \in Job
      PROVE  /\ <<x, y>> \in Seq(Job) /\ Range(<<x, y>>) = {x, y}
             /\ MayPrecede(rs, x, y) => Ordered(rs, <<x, y>>)
  <2>1. <<x, y>> \in Seq(Job) /\ DOMAIN <<x, y>> = 1..2 /\ <<x, y>>[1] = x /\ <<x, y>>[2] = y
    OBVIOUS
  <2> DEFINE t == <<x, y>>
  <2> HIDE DEF t
  <2>2. t \in Seq(Job) /\ DOMAIN t = {1, 2} /\ t[1] = x /\ t[2] = y
    BY <2>1 DEF t
  <2>3. Range(t) = {x, y}
    BY <2>2 DEF Range
  <2>4. MayPrecede(rs, x, y) => Ordered(rs, t)
    <3>1. \A i, j \in DOMAIN t : i < j => i = 1 /\ j = 2
      BY <2>2
    <3>2. QED
      BY <2>2, <3>1 DEF Ordered
  <2>5. QED
    BY <2>2, <2>3, <2>4 DEF t
<1>4. QED
  BY <1>1, <1>2, <1>3

\* Two jobs queued one after the other.
LEMMA TwoInTurn ==
  ASSUME NEW x \in Job, NEW y \in Job
  PROVE  <<x>> \o <<y>> = <<x, y>>
<1> DEFINE c == <<x>> \o <<y>>
           d == <<x, y>>
<1>1. <<x>> \in Seq(Job) /\ <<y>> \in Seq(Job) /\ d \in Seq(Job)
  BY FewJobs
<1>2. Len(<<x>>) = 1 /\ Len(<<y>>) = 1 /\ Len(d) = 2 /\ d[1] = x /\ d[2] = y
  OBVIOUS
<1>3. c \in Seq(Job) /\ Len(c) = 2
  BY <1>1, <1>2, ConcatProperties
<1>4. c[1] = x /\ c[2] = y
  BY <1>1, <1>2, ConcatProperties
<1> HIDE DEF c, d
<1>5. \A i \in 1..Len(c) : c[i] = d[i]
  BY <1>2, <1>3, <1>4
<1>6. c = d
  BY <1>1, <1>2, <1>3, <1>5, SeqEqual
<1>7. QED
  BY <1>6 DEF c, d

\* The jobs that answer a run are those of its policy.
LEMMA AnsweringIs ==
  ASSUME NEW r \in Run, NEW st \in RunState, ~(st.ticket > 0 /\ st.queued), NEW rs
  PROVE  /\ Answering(r, st) \in Seq(Job) /\ Ordered(rs, Answering(r, st))
         /\ \A x : x \in Range(Answering(r, st)) <=>
              \/ st.ticket > 0 /\ x = <<"end", r>>
              \/ st.queued = TRUE /\ x = <<"adopt", r>>
<1>1. <<"end", r>> \in Job /\ <<"adopt", r>> \in Job /\ st.queued \in BOOLEAN
  BY DEF Job, RunState
<1>2. CASE st.ticket > 0
  <2>1. Answering(r, st) = <<<<"end", r>>>> \o <<>>
    BY <1>2 DEF Answering
  <2>2. Answering(r, st) = <<<<"end", r>>>>
    BY <1>1, <2>1, FewJobs, ConcatEmptySeq
  <2>3. QED
    BY <1>1, <1>2, <2>2, FewJobs
<1>3. CASE ~(st.ticket > 0) /\ st.queued
  <2>1. Answering(r, st) = <<>> \o <<<<"adopt", r>>>>
    BY <1>3 DEF Answering
  <2>2. Answering(r, st) = <<<<"adopt", r>>>>
    BY <1>1, <2>1, FewJobs, ConcatEmptySeq
  <2>3. QED
    BY <1>1, <1>3, <2>2, FewJobs
<1>4. CASE ~(st.ticket > 0) /\ ~st.queued
  <2>1. Answering(r, st) = <<>> \o <<>>
    BY <1>4 DEF Answering
  <2>2. Answering(r, st) = <<>>
    BY <1>1, <2>1, FewJobs, ConcatEmptySeq
  <2>3. QED
    BY <1>1, <1>4, <2>2, FewJobs
<1>5. QED
  BY <1>2, <1>3, <1>4

\* performAction itself: a cooldown, an end at once, or a pulse.
LEMMA PerformHolds ==
  ASSUME RunnerInv, NEW r \in Run, NEW a \in Action, MayPerform(r, a),
         NEW st \in RunState,
         st.action = a, st.ticket = runs[r].ticket, st.queued = runs[r].queued,
         NEW rest \in Seq(Job), Ordered(runs, rest), Range(rest) = Jobs \ {<<"go", r>>},
         Perform(r, st, rest),
         UNCHANGED <<tails, tickets, cooling, waiters, follower>>,
         called' \in 0..MaxCalls, draining' \in BOOLEAN,
         \A s \in Run : s > called' <=> New(s) /\ s # r,
         ~draining' => New(r)
  PROVE  RunnerInv'
<1> USE DEF RunnerInv, StepsInv
<1>1. /\ \A x \in Range(rest) : x[2] \in Run /\ x = <<x[1], x[2]>> /\ Queued(x[1], x[2])
      /\ \A x \in Range(rest) : x # <<"go", r>>
      /\ \A kind, s : <<kind, s>> \in Range(rest) <=> Queued(kind, s) /\ ~(kind = "go" /\ s = r)
  BY JobsArePairs DEF Queued
<1>2. \A s \in Run : /\ ~(<<"resolve", r>> \in Range(rest)) /\ ~(<<"finish", r>> \in Range(rest))
                     /\ ~(<<"end", r>> \in Range(rest)) /\ ~(<<"adopt", r>> \in Range(rest))
                     /\ ~(<<"tail", r>> \in Range(rest)) /\ ~(<<"go", r>> \in Range(rest))
  BY <1>1, OneStage DEF JobsFit, MayPerform
\* Nothing that is left has to do with r, and nothing releases a run of a.
<1>3. \A x \in Range(rest) : x[2] \in Run /\ x[2] # r /\ (Releasing(x) => Act(x[2]) # a)
  <2>1. \A x \in Range(rest) : x[2] # r
    BY <1>1, <1>2, JobsArePairs DEF Queued
  <2>2. \A x \in Range(rest) : Releasing(x) => Act(x[2]) # a
    BY <1>1, <2>1 DEF Releasing, MayPerform
  <2>3. QED
    BY <1>1, <2>1, <2>2
\* What is put behind it may stand there.
<1>4. ASSUME \A s \in Run : s # r => Stays(s), Keeps(r, a), NEW kind
      PROVE  \A x \in Range(rest) : MayPrecede(runs', x, <<kind, r>>)
  <2>1. \A x \in Range(rest) : Act(x[2])' = Act(x[2]) /\ Act(r)' = a
    BY <1>3, <1>4 DEF Stays, Keeps
  <2>2. \A x \in Range(rest) : Releasing(x) => Act(x[2])' # Act(r)'
    BY <1>3, <2>1
  <2>3. \A x \in Range(rest) : x # <<kind, r>> /\ ~(x[1] = "finish" /\ <<kind, r>> = <<"resolve", x[2]>>)
    BY <1>3
  <2>4. QED
    BY <2>2, <2>3 DEF MayPrecede, Act
<1>5. ASSUME \A s \in Run : s # r => Stays(s)
      PROVE  \A x \in Range(rest) : Act(x[2])' = Act(x[2]) /\ Ticket(x[2])' = Ticket(x[2])
  BY <1>3, <1>5 DEF Stays
<1>6. CASE a \in cooling
  <2> DEFINE new == [st EXCEPT !.stage = "done", !.skipped = TRUE]
             ans == Answering(r, st)
  <2>1. Restaged(new, st, "done")
    BY RunUpdated
  <2>2. /\ runs' = [runs EXCEPT ![r] = new] /\ micro' = rest \o ans
        /\ UNCHANGED <<running, value>>
    BY <1>6 DEF Perform
  <2> HIDE DEF new
  <2>3. /\ runs' \in [Run -> RunState]
        /\ \A s \in Run : s # r => Stays(s)
        /\ Comes(r, "done") /\ Keeps(r, a)
    BY <2>1, <2>2, OneMoves
  <2>4. (st.ticket > 0 <=> Ticketed(r)) /\ (st.queued = TRUE <=> InLine(r))
    BY DEF Ticketed, InLine
  <2>5. ~(Ticketed(r) /\ InLine(r))
    BY DEF MayPerform
  <2>6. ~(st.ticket > 0 /\ st.queued)
    BY <2>4, <2>5 DEF RunState
  <2> HIDE DEF ans
  <2>7. /\ ans \in Seq(Job) /\ Ordered(runs', ans)
        /\ \A x : x \in Range(ans) <=> \/ Ticketed(r) /\ x = <<"end", r>>
                                       \/ InLine(r) /\ x = <<"adopt", r>>
    BY <2>4, <2>6, AnsweringIs DEF ans
  <2>8. \A x \in Range(rest), y \in Range(ans) : MayPrecede(runs', x, y)
    BY <1>4, <2>3, <2>7
  <2>9. /\ InOrder' /\ micro' \in Seq(Job)
        /\ \A kind, s :
             Queued(kind, s)' <=> <<kind, s>> \in Range(rest) \/ <<kind, s>> \in Range(ans)
    BY <1>5, <2>2, <2>3, <2>7, <2>8, QueueMoves
  <2>10. Performed(r, "done")
    <3>1. \A kind, s : <<kind, s>> \in Range(ans) <=>
            \/ Ticketed(r) /\ kind = "end" /\ s = r
            \/ InLine(r) /\ kind = "adopt" /\ s = r
      BY <2>7
    <3>2. \A kind, s : Queued(kind, s)' <=> \/ Queued(kind, s) /\ ~(kind = "go" /\ s = r)
                                            \/ Ticketed(r) /\ kind = "end" /\ s = r
                                            \/ InLine(r) /\ kind = "adopt" /\ s = r
      BY <1>1, <2>9, <3>1
    <3>3. QED
      BY <3>2 DEF Performed
  <2>11. RunsKnown' /\ JobsFit' /\ NoneReleasedEarly' /\ WaitersInv' /\ TicketsInv' /\ LineInv'
    BY <2>3, <2>10, PerformedHolds
  <2>12. OneExecution'
    <3>1. ~Started(r)
      BY OneStage DEF MayPerform
    <3>2. \A b \in Action, s \in Run : running'[b] = s <=> Act(s)' = b /\ Started(s)'
      BY <2>2, <2>3, <3>1 DEF OneExecution, Stays, Comes
    <3>3. \A b \in Action, s \in Run : value'[b] = s => Act(s)' = b /\ Executing(s)'
      BY <2>2, <2>3, <3>1, OneStage DEF OneExecution, Stays
    <3>4. \A s \in Run : Executing(s)' => FoundBase(s)'
      BY <2>3 DEF OneExecution, Stays, Comes
    <3>5. QED
      BY <3>2, <3>3, <3>4 DEF OneExecution
  <2>13. TypeOK'
    BY <2>2, <2>3, <2>9 DEF TypeOK
  <2>14. QED
    BY <2>9, <2>11, <2>12, <2>13
<1>7. CASE a \notin cooling
  <2>1. running' = [running EXCEPT ![a] = r]
    BY <1>7 DEF Perform
  <2>2. \A b \in Action : running'[b] = IF b = a THEN r ELSE running[b]
    BY <2>1 DEF TypeOK
  <2>3. CASE \E ok \in BOOLEAN :
                  /\ runs' = [runs EXCEPT ![r] = [st EXCEPT !.stage = "settled", !.ok = ok]]
                  /\ micro' = rest \o <<<<"resolve", r>>, <<"finish", r>>>>
                  /\ UNCHANGED value
    <3>1. PICK ok \in BOOLEAN :
                  /\ runs' = [runs EXCEPT ![r] = [st EXCEPT !.stage = "settled", !.ok = ok]]
                  /\ micro' = rest \o <<<<"resolve", r>>, <<"finish", r>>>>
                  /\ UNCHANGED value
      BY <2>3
    <3> DEFINE new == [st EXCEPT !.stage = "settled", !.ok = ok]
               t == <<<<"resolve", r>>, <<"finish", r>>>>
    <3>2. Restaged(new, st, "settled")
      BY RunUpdated
    <3>3. runs' = [runs EXCEPT ![r] = new] /\ micro' = rest \o t
      BY <3>1
    <3> HIDE DEF new
    <3>4. /\ runs' \in [Run -> RunState]
          /\ \A s \in Run : s # r => Stays(s)
          /\ Comes(r, "settled") /\ Keeps(r, a)
      BY <3>2, <3>3, OneMoves
    <3>5. t \in Seq(Job) /\ Range(t) = {<<"resolve", r>>, <<"finish", r>>}
      <4>1. <<"resolve", r>> \in Job /\ <<"finish", r>> \in Job
        BY DEF Job
      <4>2. QED
        BY <4>1, FewJobs
    <3>6. Ordered(runs', t)
      <4>1. <<"resolve", r>> \in Job /\ <<"finish", r>> \in Job
        BY DEF Job
      <4>2. MayPrecede(runs', <<"resolve", r>>, <<"finish", r>>)
        BY DEF MayPrecede, Releasing
      <4>3. QED
        BY <4>1, <4>2, FewJobs
    <3> HIDE DEF t
    <3>7. \A x \in Range(rest), y \in Range(t) : MayPrecede(runs', x, y)
      BY <1>4, <3>4, <3>5
    <3>8. /\ InOrder' /\ micro' \in Seq(Job)
          /\ \A kind, s :
               Queued(kind, s)' <=> <<kind, s>> \in Range(rest) \/ <<kind, s>> \in Range(t)
      BY <1>5, <3>3, <3>4, <3>5, <3>6, <3>7, QueueMoves
    <3>9. Performed(r, "settled")
      <4>1. \A kind, s : <<kind, s>> \in Range(t) <=> s = r /\ kind \in {"resolve", "finish"}
        BY <3>5
      <4>2. \A kind, s : Queued(kind, s)' <=> \/ Queued(kind, s) /\ ~(kind = "go" /\ s = r)
                                              \/ s = r /\ kind \in {"resolve", "finish"}
        BY <1>1, <3>8, <4>1
      <4>3. QED
        BY <4>2 DEF Performed
    <3>10. RunsKnown' /\ JobsFit' /\ NoneReleasedEarly' /\ WaitersInv' /\ TicketsInv' /\ LineInv'
      BY <3>4, <3>9, PerformedHolds
    <3>11. OneExecution'
      <4>1. ~Started(r) /\ \A s \in Run : Act(s) = a => ~Started(s)
        BY OneStage DEF MayPerform
      <4>2. \A b \in Action, s \in Run : running'[b] = s <=> Act(s)' = b /\ Started(s)'
        BY <2>2, <3>4, <4>1 DEF OneExecution, Stays, Comes, Keeps
      <4>3. \A b \in Action, s \in Run : value'[b] = s => Act(s)' = b /\ Executing(s)'
        BY <3>1, <3>4, <4>1, OneStage DEF OneExecution, Stays
      <4>4. \A s \in Run : Executing(s)' => FoundBase(s)'
        BY <3>4 DEF OneExecution, Stays, Comes
      <4>5. QED
        BY <4>2, <4>3, <4>4 DEF OneExecution
    <3>12. TypeOK'
      BY <2>1, <3>1, <3>4, <3>8 DEF TypeOK
    <3>13. QED
      BY <3>8, <3>10, <3>11, <3>12
  <2>4. CASE /\ runs' = [runs EXCEPT ![r] = [st EXCEPT !.stage = "executing", !.pulse = TRUE,
                                                          !.held = value[a]]]
             /\ value' = [value EXCEPT ![a] = r]
             /\ micro' = rest
    <3> DEFINE new == [st EXCEPT !.stage = "executing", !.pulse = TRUE, !.held = value[a]]
    <3>1. value[a] = Base /\ Base \in Value
      <4>1. value[a] \in Value /\ value[a] \notin Run
        BY OneStage DEF TypeOK, OneExecution, MayPerform
      <4>2. QED
        BY <4>1 DEF Value
    <3>2. Restaged(new, st, "executing")
      BY <3>1, RunUpdated
    <3>3. new.held = Base
      BY <3>1 DEF RunState
    <3>4. runs' = [runs EXCEPT ![r] = new]
      BY <2>4
    <3> HIDE DEF new
    <3>5. /\ runs' \in [Run -> RunState] /\ runs'[r] = new
          /\ \A s \in Run : s # r => Stays(s)
          /\ Comes(r, "executing") /\ Keeps(r, a)
      BY <3>2, <3>4, OneMoves
    <3>6. FoundBase(r)'
      BY <3>3, <3>5 DEF FoundBase
    <3>7. <<>> \in Seq(Job) /\ Range(<<>>) = {} /\ Ordered(runs', <<>>) /\ micro' = rest \o <<>>
      BY <2>4, ConcatEmptySeq DEF Range, Ordered
    <3>8. /\ InOrder' /\ micro' \in Seq(Job)
          /\ \A kind, s :
               Queued(kind, s)' <=> <<kind, s>> \in Range(rest) \/ <<kind, s>> \in Range(<<>>)
      BY <1>5, <3>5, <3>7, QueueMoves
    <3>9. Performed(r, "executing")
      BY <1>1, <3>7, <3>8 DEF Performed
    <3>10. RunsKnown' /\ JobsFit' /\ NoneReleasedEarly' /\ WaitersInv' /\ TicketsInv' /\ LineInv'
      BY <3>5, <3>9, PerformedHolds
    <3>11. \A b \in Action : value'[b] = IF b = a THEN r ELSE value[b]
      BY <2>4 DEF TypeOK
    <3>12. OneExecution'
      BY <2>2, <3>5, <3>6, <3>11, OneStage DEF OneExecution, Stays, Comes, Keeps, MayPerform
    <3>13. TypeOK'
      <4>1. value' \in [Action -> Value] /\ running' \in [Action -> Run \cup {None}]
        BY <2>1, <2>4 DEF TypeOK, Value
      <4>2. QED
        BY <3>5, <3>8, <4>1 DEF TypeOK
    <3>14. QED
      BY <3>8, <3>10, <3>12, <3>13
  <2>5. QED
    BY <1>7, <2>3, <2>4 DEF Perform
<1>8. QED
  BY <1>6, <1>7
\* A call that is performed at once finds nothing of its action under way.
LEMMA DirectMayPerform ==
  ASSUME RunnerInv, NEW r \in Run, NEW a \in Action, CallDirect(r, a)
  PROVE  MayPerform(r, a)
<1> USE DEF RunnerInv, StepsInv
<1>1. Calling(r, a) /\ running[a] = None /\ (PolicyOf[a] = "enqueue" => tails[a] = None)
  BY DEF CallDirect, Busy, Behind
<1>2. New(r) /\ IsNew(r) /\ OnlyEnds
  BY <1>1, NewRun
<1>3. \A s \in Run : Act(s) = a => ~Started(s)
  BY <1>1, Places DEF OneExecution
<1>4. \A s \in Run : Waiting(s) => Act(s) # a
  <2>1. SUFFICES ASSUME NEW s \in Run, Waiting(s), Act(s) = a PROVE FALSE
    OBVIOUS
  <2>2. CASE InLine(s)
    BY <1>1, <2>1, <2>2, OneStage DEF LineInv, QueuedHaveTail, RunsKnown
  <2>3. CASE Ticketed(s)
    <3>1. PICK e \in Run : Open(e) /\ WaitsFor(s, e)
      BY <1>2, <2>1, <2>3 DEF TicketsInv, TicketsOnTheirWay, OnItsWay, OnlyEnds
    <3>2. Act(e) = a /\ Started(e)
      BY <2>1, <3>1, OneStage DEF WaitersInv, WaitersWait, Open, JobsFit
    <3>3. QED
      BY <1>3, <3>2
  <2>4. QED
    BY <2>1, <2>2, <2>3 DEF RunsKnown
<1>5. \A p \in Run : Ahead(p) => follower[p] # r
  BY <1>2, OneStage DEF LineInv, FollowersWait
<1>6. QED
  BY <1>2, <1>3, <1>4, <1>5 DEF MayPerform, IsNew, OnlyEnds

\* A call that need not wait.
LEMMA DirectHolds ==
  ASSUME RunnerInv, NEW r \in Run, NEW a \in Action, CallDirect(r, a)
  PROVE  RunnerInv'
<1> USE DEF RunnerInv, StepsInv
<1>1. /\ Calling(r, a) /\ Perform(r, Called(r, a), micro)
      /\ UNCHANGED <<tails, tickets, cooling, waiters, follower>>
  BY DEF CallDirect
<1>2. /\ called' \in 0..MaxCalls /\ draining' \in BOOLEAN /\ New(r)
      /\ \A s \in Run : s > called' <=> s > called /\ s # r
      /\ ~Queued("go", r)
  BY <1>1, NewRun
<1>3. MayPerform(r, a)
  BY DirectMayPerform
<1>4. micro \in Seq(Job) /\ Ordered(runs, micro) /\ Range(micro) = Jobs \ {<<"go", r>>}
  BY <1>2 DEF TypeOK, InOrder, Queued, Jobs
<1>5. \A s \in Run : s > called' <=> New(s) /\ s # r
  BY <1>2 DEF RunsKnown
<1>6. QED
  BY <1>1, <1>2, <1>3, <1>4, <1>5, CalledRun, PerformHolds

-----------------------------------------------------------------------------
(* Microtasks.                                                               *)

\* What a run waited for is over, and nothing newer has replaced it.
LEMMA GoMayPerform ==
  ASSUME RunnerInv, NextIs("go"), ~Superseded(Current)
  PROVE  MayPerform(Current, Act(Current)) /\ Act(Current) \in Action
<1> USE DEF RunnerInv, StepsInv
<1> DEFINE r == Current
           a == Act(r)
<1>1. /\ r \in Run /\ Queued("go", r)
      /\ \A y \in Jobs \ {<<"go", r>>} : MayPrecede(runs, <<"go", r>>, y)
  BY FirstJob
<1>2. Ticketed(r) => Newest(r)
  BY DEF Superseded, Ticketed, Newest
<1> HIDE DEF r
<1>3. Waiting(r) /\ OnItsWay(r) /\ a \in Action
  BY <1>1, OneStage DEF JobsFit, OnItsWay, RunsKnown
<1>4. \A kind, s : Queued(kind, s) /\ ~(kind = "go" /\ s = r) /\ Act(s) = a =>
        /\ kind # "finish" /\ kind # "adopt"
        /\ kind = "go" => Ticket(r) < Ticket(s)
  BY <1>1 DEF MayPrecede, Releasing, Queued, Act, Ticket
<1> HIDE DEF a
<1>5. a = Act(r)
  BY DEF a
\* A run that is queued behind r has a newer ticket than the newest.
<1>6. \A s \in Run : s # r /\ Act(s) = a => ~Queued("go", s)
  <2>1. SUFFICES ASSUME NEW s \in Run, s # r, Act(s) = a, Queued("go", s) PROVE FALSE
    OBVIOUS
  <2>2. Ticket(r) < Ticket(s) /\ Waiting(s)
    BY <1>4, <2>1 DEF JobsFit
  <2>3. Ticketed(s)
    BY <1>1, <2>2, Places
  <2>4. Ticketed(r)
    BY <1>1, <1>3, <1>5, <2>1, <2>3 DEF RunsKnown
  <2>5. Ticket(s) <= tickets[a] /\ Ticket(r) = tickets[a]
    BY <1>2, <1>5, <2>1, <2>2, <2>3, <2>4, OneStage DEF TicketsInv, TicketsCounted, Newest, Ticket, Act
  <2>6. QED
    BY <1>1, <1>3, <2>2, <2>5, Places
<1>7. \A s \in Run : Act(s) = a => ~Started(s)
  <2>1. SUFFICES ASSUME NEW s \in Run, Act(s) = a, Started(s) PROVE FALSE
    OBVIOUS
  <2>2. ~Settled(s)
    BY <1>4, <2>1 DEF JobsFit
  <2>3. Open(s)
    BY <2>1, <2>2 DEF Started, Open
  <2>4. QED
    BY <1>1, <1>5, <2>1, <2>3 DEF NoneReleasedEarly
<1>8. \A s \in Run : Waiting(s) /\ Act(s) = a /\ s # r => InLine(r) /\ r < s
  <2>1. SUFFICES ASSUME NEW s \in Run, Waiting(s), Act(s) = a, s # r PROVE InLine(r) /\ r < s
    OBVIOUS
  <2>2. CASE InLine(r)
    <3>1. r <= s
      BY <1>1, <1>3, <1>5, <2>1, <2>2 DEF LineInv, FirstInLine
    <3>2. QED
      BY <1>1, <2>1, <2>2, <3>1, Places
  <2>3. CASE ~InLine(r)
    <3>1. Ticketed(s)
      BY <1>1, <1>3, <1>5, <2>1, <2>3 DEF RunsKnown
    <3>2. PICK e \in Run : Open(e) /\ WaitsFor(s, e)
      BY <1>6, <2>1, <3>1 DEF TicketsInv, TicketsOnTheirWay, OnItsWay
    <3>3. Act(e) = a /\ Started(e)
      BY <2>1, <3>2, OneStage DEF WaitersInv, WaitersWait, Open, JobsFit
    <3>4. QED
      BY <1>7, <3>3
  <2>4. QED
    BY <2>2, <2>3
<1>9. \A p \in Run : Ahead(p) => follower[p] # r
  <2>1. SUFFICES ASSUME NEW p \in Run, Ahead(p), follower[p] = r PROVE FALSE
    OBVIOUS
  <2>2. p < r /\ InLine(r) /\ Act(p) = a
    BY <1>1, <1>5, <2>1 DEF LineInv, FollowersWait
  <2>3. ~Waiting(p)
    BY <1>1, <1>8, <2>2, Places
  <2>4. ~Started(p)
    BY <1>7, <2>2
  <2>5. ~Queued("adopt", p)
    BY <1>4, <2>2
  <2>6. QED
    BY <2>1, <2>3, <2>4, <2>5 DEF Ahead, Live
<1>10. MayPerform(r, a)
  BY <1>1, <1>3, <1>4, <1>5, <1>6, <1>7, <1>8, <1>9, OneStage DEF MayPerform, RunsKnown
<1>11. QED
  BY <1>3, <1>10 DEF r, a

\* A microtask calls nobody.
LEMMA NobodyCalls ==
  ASSUME RunnerInv, Draining
  PROVE  /\ called' \in 0..MaxCalls /\ draining' \in BOOLEAN /\ draining' = TRUE
         /\ \A s \in Run : s > called' <=> New(s)
<1>1. draining' = TRUE /\ called' = called
  BY DEF Draining
<1>2. called' \in 0..MaxCalls
  BY <1>1 DEF RunnerInv, TypeOK
<1>3. draining' \in BOOLEAN
  BY <1>1
<1>4. \A s \in Run : s > called' <=> New(s)
  BY <1>1 DEF RunnerInv, StepsInv, RunsKnown
<1>5. QED
  BY <1>1, <1>2, <1>3, <1>4

\* A released run that goes on.
LEMMA GoPerforms ==
  ASSUME RunnerInv, Go, ~Superseded(Current)
  PROVE  RunnerInv'
<1> USE DEF RunnerInv, StepsInv
<1>1. /\ NextIs("go") /\ Draining
      /\ Perform(Current, runs[Current], Tail(micro))
      /\ UNCHANGED <<tails, tickets, cooling, waiters, follower>>
  BY DEF Go
<1>2. /\ Current \in Run /\ Tail(micro) \in Seq(Job) /\ Ordered(runs, Tail(micro))
      /\ Range(Tail(micro)) = Jobs \ {<<"go", Current>>} /\ Queued("go", Current)
  BY <1>1, FirstJob
<1>3. MayPerform(Current, Act(Current)) /\ Act(Current) \in Action
  BY <1>1, GoMayPerform
<1>4. /\ called' \in 0..MaxCalls /\ draining' \in BOOLEAN /\ draining' = TRUE
      /\ \A s \in Run : s > called' <=> New(s)
  BY <1>1, NobodyCalls
<1>5. ~New(Current)
  BY <1>2, OneStage DEF JobsFit
<1>6. runs[Current] \in RunState /\ runs[Current].action = Act(Current)
  BY <1>2 DEF TypeOK, Act
<1>7. \A s \in Run : s > called' <=> New(s) /\ s # Current
  BY <1>4, <1>5
<1>8. QED
  BY <1>1, <1>2, <1>3, <1>4, <1>6, <1>7, PerformHolds
-----------------------------------------------------------------------------
(* Timers.                                                                   *)

\* The timer of a pulse.
LEMMA PulseHolds ==
  ASSUME RunnerInv, NEW r \in Run, PulseEnds(r)
  PROVE  RunnerInv'
<1> USE DEF RunnerInv, StepsInv
<1>1. micro = <<>> /\ Executing(r) /\ Started(r) /\ Act(r) \in Action
  BY OneStage DEF PulseEnds, Executing, RunsKnown
<1>2. Jobs = {} /\ \A kind, s : ~Queued(kind, s)
  BY <1>1 DEF Jobs, Range, Queued
<1> DEFINE a == Act(r)
           new == [runs[r] EXCEPT !.stage = "settled", !.ok = TRUE]
           t == <<<<"resolve", r>>, <<"finish", r>>>>
<1>3. /\ runs' = [runs EXCEPT ![r] = new] /\ value' = [value EXCEPT ![a] = runs[r].held]
      /\ micro' = t
  BY DEF PulseEnds, TypeOK, RunState, Act
<1>4. UNCHANGED <<running, tails, tickets, cooling, waiters, follower, called>> /\ draining' = TRUE
  BY DEF PulseEnds
<1>5. Restaged(new, runs[r], "settled")
  BY RunUpdated DEF TypeOK
<1> HIDE DEF new
<1>6. /\ runs' \in [Run -> RunState]
      /\ \A s \in Run : s # r => Stays(s)
      /\ Comes(r, "settled") /\ Keeps(r, a)
  BY <1>1, <1>3, <1>5, OneMoves DEF Act
<1>7. /\ t \in Seq(Job) /\ Range(t) = {<<"resolve", r>>, <<"finish", r>>} /\ Ordered(runs', t)
  <2>1. <<"resolve", r>> \in Job /\ <<"finish", r>> \in Job
    BY DEF Job
  <2>2. MayPrecede(runs', <<"resolve", r>>, <<"finish", r>>)
    BY DEF MayPrecede, Releasing
  <2>3. QED
    BY <2>1, <2>2, FewJobs
<1> HIDE DEF t, a
<1>8. InOrder' /\ \A kind, s : Queued(kind, s)' <=> s = r /\ kind \in {"resolve", "finish"}
  BY <1>3, <1>7 DEF InOrder, Queued, Jobs
<1>9. \A s \in Run :
        /\ New(s)' <=> New(s)
        /\ Waiting(s)' <=> Waiting(s)
        /\ Started(s)' <=> Started(s)
        /\ Live(s)' <=> Live(s)
        /\ Act(s)' = Act(s) /\ Ticket(s)' = Ticket(s)
        /\ Ticketed(s)' <=> Ticketed(s)
        /\ InLine(s)' <=> InLine(s)
  BY <1>1, <1>6, OneStage DEF Stays, Comes, Keeps, a
<1>10. \A s \in Run : Open(s)' <=> Open(s)
  BY <1>1, <1>2, <1>6, <1>8 DEF Open, Stays
<1>11. \A s \in Run : OnItsWay(s)' <=> OnItsWay(s)
  BY <1>2, <1>4, <1>8, <1>10 DEF OnItsWay, WaitsFor
<1>12. TypeOK'
  <2>1. runs[r].held \in Value
    BY DEF TypeOK, RunState
  <2>2. value' \in [Action -> Value]
    BY <1>3, <2>1 DEF TypeOK
  <2>3. draining' \in BOOLEAN
    BY <1>4
  <2>4. QED
    BY <1>3, <1>4, <1>6, <1>7, <2>2, <2>3 DEF TypeOK
<1>13. RunsKnown'
  BY <1>4, <1>9 DEF RunsKnown, IsNew
<1>14. OneExecution'
  <2>1. \A b \in Action, s \in Run : running'[b] = s <=> Act(s)' = b /\ Started(s)'
    BY <1>4, <1>9 DEF OneExecution
  <2>2. \A b \in Action : value'[b] = IF b = a THEN Base ELSE value[b]
    BY <1>1, <1>3 DEF TypeOK, OneExecution, FoundBase
  <2>3. ASSUME NEW b \in Action, NEW s \in Run, value'[b] = s
        PROVE  Act(s)' = b /\ Executing(s)'
    <3>1. b # a /\ value[b] = s
      BY <2>2, <2>3, Places DEF Base
    <3>2. Act(s) = b /\ Executing(s) /\ s # r
      BY <3>1 DEF OneExecution, a
    <3>3. QED
      BY <1>6, <3>2 DEF Stays
  <2>4. \A s \in Run : Executing(s)' => FoundBase(s)'
    BY <1>6 DEF OneExecution, Stays, Comes
  <2>5. QED
    BY <2>1, <2>3, <2>4 DEF OneExecution
<1>15. JobsFit'
  BY <1>2, <1>4, <1>6, <1>8 DEF JobsFit, Stays, Comes
<1>16. NoneReleasedEarly'
  BY <1>8 DEF NoneReleasedEarly
<1>17. WaitersInv'
  BY <1>4, <1>9, <1>10, WaitersStay
<1>18. TicketsInv'
  BY <1>4, <1>8, <1>9, <1>11, <1>13, TicketsStay
<1>19. LineInv'
  BY <1>2, <1>4, <1>8, <1>9, <1>11, <1>13, LineStays
<1>20. QED
  BY <1>8, <1>12, <1>13, <1>14, <1>15, <1>16, <1>17, <1>18, <1>19

\* What a step leaves in order that only ends a cooldown, or nothing at all.
LEMMA IdleHolds ==
  ASSUME RunnerInv, cooling' \subseteq cooling,
         UNCHANGED <<runs, running, tails, tickets, waiters, follower, value, micro, draining, called>>
  PROVE  RunnerInv'
<1> USE DEF RunnerInv, StepsInv
<1>1. TypeOK'
  BY DEF TypeOK
<1>2. \A s \in Run : Stays(s)
  BY NobodyMoves
<1>3. InOrder' /\ \A kind, s : Queued(kind, s)' <=> Queued(kind, s)
  BY DEF InOrder, Queued, Jobs
<1>4. \A s \in Run : (Open(s)' <=> Open(s)) /\ (OnItsWay(s)' <=> OnItsWay(s))
  BY DEF Open, OnItsWay, WaitsFor, Queued, Jobs, Executing
<1>5. RunsKnown'
  BY <1>2 DEF RunsKnown, IsNew, Stays
<1>6. OneExecution'
  BY <1>2 DEF OneExecution, Stays
<1>7. OnlyEnds' <=> OnlyEnds
  BY <1>2, <1>3 DEF OnlyEnds, Stays
<1>8. JobsFit'
  BY <1>2, <1>3, <1>7 DEF JobsFit, Stays
<1>9. NoneReleasedEarly'
  BY <1>2, <1>3, <1>4 DEF NoneReleasedEarly, Stays
<1>10. WaitersInv'
  BY <1>2, <1>4, WaitersStay DEF Stays
<1>11. \A s \in Run : Queued("end", s) => Ticketed(s)
  BY DEF JobsFit
<1>12. TicketsInv'
  BY <1>2, <1>3, <1>4, <1>5, <1>11, TicketsStay DEF Stays
<1>13. LineInv'
  BY <1>2, <1>3, <1>4, <1>5, LineStays DEF Stays
<1>14. QED
  BY <1>1, <1>3, <1>5, <1>6, <1>8, <1>9, <1>10, <1>12, <1>13
-----------------------------------------------------------------------------
(* Microtasks in which no run moves.                                         *)

\* A microtask that moves no run keeps what is said of the runs alone.
LEMMA QuietHolds ==
  ASSUME RunnerInv, Draining, UNCHANGED <<runs, running, cooling, waiters, follower, value>>
  PROVE  /\ RunsKnown' /\ OneExecution' /\ draining' = TRUE
         /\ \A s \in Run : Stays(s)
         /\ \A s, w \in Run : WaitsFor(w, s)' <=> WaitsFor(w, s)
         /\ tails' \in [Action -> Run \cup {None}] /\ tickets' \in [Action -> Nat]
            /\ micro' \in Seq(Job) => TypeOK'
<1> USE DEF RunnerInv, StepsInv
<1>1. /\ called' \in 0..MaxCalls /\ draining' \in BOOLEAN /\ draining' = TRUE
      /\ \A s \in Run : s > called' <=> New(s)
  BY NobodyCalls
<1>2. \A s \in Run : Stays(s)
  BY NobodyMoves
<1>3. RunsKnown'
  BY <1>1, <1>2 DEF RunsKnown, IsNew, Stays
<1>4. OneExecution'
  BY <1>2 DEF OneExecution, Stays
<1>5. tails' \in [Action -> Run \cup {None}] /\ tickets' \in [Action -> Nat]
            /\ micro' \in Seq(Job) => TypeOK'
  BY <1>1 DEF TypeOK
<1>6. QED
  BY <1>1, <1>2, <1>3, <1>4, <1>5 DEF WaitsFor

\* An execution is handed on to those who wait for it.
LEMMA ResolveHolds ==
  ASSUME RunnerInv, Resolve
  PROVE  RunnerInv'
<1> USE DEF RunnerInv, StepsInv
<1> DEFINE r == Current
           a == Act(r)
           rest == Tail(micro)
           gos == [i \in DOMAIN waiters[r] |-> <<"go", waiters[r][i]>>]
<1>1. /\ NextIs("resolve") /\ Draining /\ micro' = rest \o gos
      /\ UNCHANGED <<runs, running, tails, tickets, cooling, waiters, follower, value>>
  BY DEF Resolve
<1>2. /\ r \in Run /\ Queued("resolve", r) /\ rest \in Seq(Job) /\ Ordered(runs, rest)
      /\ Range(rest) = Jobs \ {<<"resolve", r>>}
  BY <1>1, FirstJob
<1>3. /\ RunsKnown' /\ OneExecution' /\ draining' = TRUE
      /\ \A s \in Run : Stays(s)
      /\ \A s, w \in Run : WaitsFor(w, s)' <=> WaitsFor(w, s)
      /\ micro' \in Seq(Job) => TypeOK'
  <2>1. tails' \in [Action -> Run \cup {None}] /\ tickets' \in [Action -> Nat]
    BY <1>1 DEF TypeOK
  <2>2. QED
    BY <1>1, <2>1, QuietHolds
<1> HIDE DEF r
<1>4. Settled(r) /\ Open(r) /\ Started(r)
  BY <1>2, OneStage DEF JobsFit, Open
<1>5. waiters[r] \in Seq(Run) /\ DOMAIN waiters[r] = 1..Len(waiters[r]) /\ Len(waiters[r]) \in Nat
  BY <1>2, LenProperties DEF TypeOK
<1>6. /\ DOMAIN gos = DOMAIN waiters[r]
      /\ \A i \in DOMAIN waiters[r] : /\ gos[i] = <<"go", waiters[r][i]>> /\ waiters[r][i] \in Run
                                      /\ WaitsFor(waiters[r][i], r)
  BY <1>5 DEF WaitsFor, Range
<1>7. gos \in Seq(Job)
  <2>1. \A i \in 1..Len(waiters[r]) : <<"go", waiters[r][i]>> \in Job
    BY <1>5, <1>6 DEF Job
  <2>2. QED
    BY <1>5, <2>1
<1>8. \A kind, s : <<kind, s>> \in Range(gos) <=> kind = "go" /\ s \in Run /\ WaitsFor(s, r)
  BY <1>6 DEF Range, WaitsFor
<1>9. \A y \in Range(gos) : \E w \in Run : y = <<"go", w>> /\ WaitsFor(w, r)
  BY <1>6 DEF Range
<1>10. \A i, j \in DOMAIN gos : i < j => Ticket(waiters[r][i]) < Ticket(waiters[r][j])
  BY <1>2, <1>4, <1>6 DEF WaitersInv, WaitersByTicket
<1> HIDE DEF gos, rest, a
<1>11. Ordered(runs, gos)
  <2>1. ASSUME NEW i \in DOMAIN gos, NEW j \in DOMAIN gos, i < j
        PROVE  MayPrecede(runs, gos[i], gos[j])
    <3>1. /\ gos[i] = <<"go", waiters[r][i]>> /\ gos[j] = <<"go", waiters[r][j]>>
          /\ Ticket(waiters[r][i]) < Ticket(waiters[r][j])
      BY <1>6, <1>10, <2>1
    <3>2. waiters[r][i] # waiters[r][j]
      <4>1. Ticket(waiters[r][i]) \in Nat
        BY <1>6, <2>1, Places
      <4>2. QED
        BY <3>1, <4>1
    <3>3. QED
      BY <3>1, <3>2 DEF MayPrecede, Releasing, Ticket
  <2>2. QED
    BY <2>1 DEF Ordered
<1>12. \A x \in Range(rest), y \in Range(gos) : MayPrecede(runs, x, y)
  <2>1. SUFFICES ASSUME NEW x \in Range(rest), NEW w \in Run, WaitsFor(w, r)
                 PROVE  MayPrecede(runs, x, <<"go", w>>)
    BY <1>9
  <2>2. Waiting(w) /\ Act(w) = Act(r)
    BY <1>2, <1>4, <2>1 DEF WaitersInv, WaitersWait
  <2>3. x[2] \in Run /\ x = <<x[1], x[2]>> /\ Queued(x[1], x[2])
    BY <1>2, <2>1, JobsArePairs DEF Queued
  <2>4. Releasing(x) => Act(x[2]) # Act(w)
    BY <1>2, <1>4, <2>2, <2>3 DEF NoneReleasedEarly, Releasing
  <2>5. ~Queued("go", w)
    BY <1>2, <1>4, <2>2 DEF NoneReleasedEarly
  <2>6. x # <<"go", w>>
    BY <2>3, <2>5
  <2>7. QED
    BY <2>4, <2>6 DEF MayPrecede, Act
<1>13. /\ InOrder' /\ micro' \in Seq(Job)
       /\ \A kind, s : Queued(kind, s)' <=> <<kind, s>> \in Range(rest) \/ <<kind, s>> \in Range(gos)
  <2>1. \A x \in Range(rest) : Act(x[2])' = Act(x[2]) /\ Ticket(x[2])' = Ticket(x[2])
    BY <1>1 DEF Act, Ticket
  <2>2. runs' = runs
    BY <1>1
  <2>3. QED
    BY <1>1, <1>2, <1>7, <1>11, <1>12, <2>1, <2>2, QueueMoves
<1>14. \A kind, s : Queued(kind, s)' <=>
         \/ Queued(kind, s) /\ ~(kind = "resolve" /\ s = r)
         \/ kind = "go" /\ s \in Run /\ WaitsFor(s, r)
  BY <1>2, <1>8, <1>13 DEF Queued
<1>15. \A w \in Run : WaitsFor(w, r) => Waiting(w) /\ Act(w) = Act(r)
  BY <1>2, <1>4 DEF WaitersInv, WaitersWait
<1>16. \A s \in Run : Open(s)' <=> Open(s) /\ s # r
  BY <1>3, <1>4, <1>14, OneStage DEF Open, Stays
<1>17. \A s \in Run : OnItsWay(s)' <=> OnItsWay(s)
  BY <1>2, <1>3, <1>4, <1>14, <1>16 DEF OnItsWay
<1>18. JobsFit'
  BY <1>3, <1>14, <1>15 DEF JobsFit, Stays
<1>19. NoneReleasedEarly'
  <2>1. SUFFICES ASSUME NEW p \in Run, NEW s \in Run, Act(s)' = Act(p)',
                        Open(p)' \/ (Started(p)' /\ InLine(p)')
                 PROVE  ~Queued("go", s)' /\ ~Queued("adopt", s)'
    BY DEF NoneReleasedEarly
  <2>2. ~Queued("go", s) /\ ~Queued("adopt", s) /\ Act(s) = Act(p)
    BY <1>3, <1>16, <2>1 DEF NoneReleasedEarly, Stays
  <2>3. ASSUME WaitsFor(s, r) PROVE FALSE
    <3>1. Act(p) = Act(r) /\ Started(p)
      BY <1>3, <1>15, <1>16, <2>1, <2>2, <2>3, OneStage DEF Stays, Open, JobsFit
    <3>2. p = r
      BY <1>2, <1>4, <3>1, OnlyOneStarted
    <3>3. waiters[r] = <<>>
      BY <1>3, <1>16, <2>1, <3>2 DEF WaitersInv, NoneWaitForQueued, Stays
    <3>4. QED
      BY <2>3, <3>3 DEF WaitsFor, Range
  <2>4. QED
    BY <1>14, <2>2, <2>3
<1>20. WaitersInv'
  BY <1>1, <1>3, <1>16, WaitersStay DEF Stays
<1>21. \A s \in Run : Queued("end", s) => Ticketed(s)
  BY DEF JobsFit
<1>22. TicketsInv'
  BY <1>1, <1>3, <1>14, <1>17, <1>21, TicketsStay DEF Stays
<1>23. LineInv'
  BY <1>1, <1>3, <1>14, <1>17, LineStays DEF Stays
<1>24. QED
  BY <1>3, <1>13, <1>18, <1>19, <1>20, <1>22, <1>23
\* A queued run is over: its end is passed on to the run behind it.
LEMMA AdoptHolds ==
  ASSUME RunnerInv, Adopt
  PROVE  RunnerInv'
<1> USE DEF RunnerInv, StepsInv
<1> DEFINE r == Current
           rest == Tail(micro)
           t == <<<<"tail", r>>>> \o Behindward(r)
<1>1. /\ NextIs("adopt") /\ Draining /\ micro' = rest \o <<<<"tail", r>>>> \o Behindward(r)
      /\ UNCHANGED <<runs, running, tails, tickets, cooling, waiters, follower, value>>
  BY DEF Adopt
<1>2. /\ r \in Run /\ Queued("adopt", r) /\ rest \in Seq(Job) /\ Ordered(runs, rest)
      /\ Range(rest) = Jobs \ {<<"adopt", r>>}
      /\ \A y \in Jobs \ {<<"adopt", r>>} : MayPrecede(runs, <<"adopt", r>>, y)
  BY <1>1, FirstJob
<1>3. /\ RunsKnown' /\ OneExecution' /\ draining' = TRUE
      /\ \A s \in Run : Stays(s)
      /\ \A s, w \in Run : WaitsFor(w, s)' <=> WaitsFor(w, s)
      /\ micro' \in Seq(Job) => TypeOK'
  <2>1. tails' \in [Action -> Run \cup {None}] /\ tickets' \in [Action -> Nat]
    BY <1>1 DEF TypeOK
  <2>2. QED
    BY <1>1, <2>1, QuietHolds
<1> HIDE DEF r, rest
<1>4. Done(r) /\ InLine(r) /\ ~Queued("tail", r) /\ Ahead(r) /\ ~Started(r) /\ ~Waiting(r)
  BY <1>2, OneStage DEF JobsFit, Ahead
\* Nobody else of the action is released, and no execution of it is under way.
<1>5. \A kind, s : Queued(kind, s) /\ ~(kind = "adopt" /\ s = r) /\ Act(s) = Act(r) =>
        kind \notin {"finish", "go", "adopt"}
  BY <1>2 DEF MayPrecede, Releasing, Queued, Act
<1>6. \A s \in Run : Act(s) = Act(r) => ~Open(s) /\ ~Started(s)
  <2>1. SUFFICES ASSUME NEW s \in Run, Act(s) = Act(r) PROVE ~Open(s) /\ ~Started(s)
    OBVIOUS
  <2>2. ~Open(s)
    BY <1>2, <2>1 DEF NoneReleasedEarly
  <2>3. ~Settled(s)
    BY <1>5, <2>1 DEF JobsFit
  <2>4. QED
    BY <2>2, <2>3 DEF Started, Open
<1>7. \A f \in Run : follower[r] = f => r < f /\ Waiting(f) /\ InLine(f) /\ Act(f) = Act(r) /\ f # r
  BY <1>2, <1>4 DEF LineInv, FollowersWait
<1>8. /\ Behindward(r) \in Seq(Job) /\ t \in Seq(Job)
      /\ Ordered(runs, t)
      /\ \A kind, s : <<kind, s>> \in Range(t) <=>
           (kind = "tail" /\ s = r) \/ (kind = "go" /\ s \in Run /\ follower[r] = s)
      /\ \A y \in Range(t) :
           y = <<"tail", r>> \/ \E f \in Run : y = <<"go", f>> /\ follower[r] = f
  <2>1. <<"tail", r>> \in Job
    BY <1>2 DEF Job
  <2>2. CASE follower[r] = None
    <3>1. Behindward(r) = <<>>
      BY <2>2 DEF Behindward
    <3>2. t = <<<<"tail", r>>>>
      BY <2>1, <3>1, FewJobs, ConcatEmptySeq
    <3>3. Range(t) = {<<"tail", r>>} /\ t \in Seq(Job) /\ Ordered(runs, t)
          /\ Behindward(r) \in Seq(Job)
      BY <2>1, <3>1, <3>2, FewJobs
    <3> HIDE DEF t
    <3>4. \A s \in Run : follower[r] # s
      BY <2>2, Places
    <3>5. QED
      BY <3>3, <3>4
  <2>3. CASE follower[r] # None
    <3>1. PICK f \in Run : follower[r] = f
      BY <1>2, <2>3 DEF TypeOK
    <3>2. <<"go", f>> \in Job
      BY DEF Job
    <3>3. Behindward(r) = <<<<"go", f>>>>
      BY <2>3, <3>1 DEF Behindward
    <3>4. Behindward(r) \in Seq(Job)
      BY <3>2, <3>3, FewJobs
    <3>5. t = <<<<"tail", r>>, <<"go", f>>>>
      BY <2>1, <3>2, <3>3, TwoInTurn
    <3> HIDE DEF t
    <3>6. MayPrecede(runs, <<"tail", r>>, <<"go", f>>)
      BY DEF MayPrecede, Releasing
    <3>7. Range(t) = {<<"tail", r>>, <<"go", f>>} /\ t \in Seq(Job) /\ Ordered(runs, t)
      BY <2>1, <3>2, <3>5, <3>6, FewJobs
    <3>8. QED
      BY <3>1, <3>4, <3>7
  <2>4. QED
    BY <2>2, <2>3
<1>9. micro' = rest \o t
  <2>1. <<"tail", r>> \in Job
    BY <1>2 DEF Job
  <2>2. <<<<"tail", r>>>> \in Seq(Job)
    BY <2>1, FewJobs
  <2>3. QED
    BY <1>1, <1>2, <1>8, <2>2, ConcatAssociative
<1> HIDE DEF t
<1>10. \A x \in Range(rest), y \in Range(t) : MayPrecede(runs, x, y)
  <2>1. SUFFICES ASSUME NEW x \in Range(rest), NEW y \in Range(t)
                 PROVE  MayPrecede(runs, x, y)
    OBVIOUS
  <2>2. x[2] \in Run /\ x = <<x[1], x[2]>> /\ Queued(x[1], x[2]) /\ x # <<"adopt", r>>
    BY <1>2, <2>1, JobsArePairs DEF Queued
  <2>3. Releasing(x) => Act(x[2]) # Act(r)
    BY <1>5, <2>2 DEF Releasing
  <2>4. CASE y = <<"tail", r>>
    BY <1>4, <2>2, <2>3, <2>4 DEF MayPrecede, Releasing
  <2>5. CASE \E f \in Run : y = <<"go", f>> /\ follower[r] = f
    <3>1. PICK f \in Run : y = <<"go", f>> /\ follower[r] = f
      BY <2>5
    <3>2. Act(f) = Act(r)
      BY <1>7, <3>1
    <3>3. x # y
      BY <2>3, <3>1, <3>2 DEF Releasing
    <3>4. QED
      BY <2>3, <3>1, <3>2, <3>3 DEF MayPrecede, Act
  <2>6. QED
    BY <1>8, <2>4, <2>5
<1>11. /\ InOrder' /\ micro' \in Seq(Job)
       /\ \A kind, s : Queued(kind, s)' <=> <<kind, s>> \in Range(rest) \/ <<kind, s>> \in Range(t)
  <2>1. \A x \in Range(rest) : Act(x[2])' = Act(x[2]) /\ Ticket(x[2])' = Ticket(x[2])
    BY <1>1 DEF Act, Ticket
  <2>2. runs' = runs
    BY <1>1
  <2>3. QED
    BY <1>2, <1>8, <1>9, <1>10, <2>1, <2>2, QueueMoves
<1>12. \A kind, s : Queued(kind, s)' <=>
         \/ Queued(kind, s) /\ ~(kind = "adopt" /\ s = r)
         \/ kind = "tail" /\ s = r
         \/ kind = "go" /\ s \in Run /\ follower[r] = s
  BY <1>2, <1>8, <1>11 DEF Queued
<1>13. \A s \in Run : Open(s)' <=> Open(s)
  BY <1>3, <1>12 DEF Open, Stays
<1>14. \A s \in Run : OnItsWay(s)' <=> OnItsWay(s) \/ follower[r] = s
  BY <1>3, <1>12, <1>13 DEF OnItsWay
<1>15. \A s \in Run : Ahead(s)' <=> Ahead(s) /\ s # r
  BY <1>3, <1>4, <1>12 DEF Ahead, Stays, Live
<1>16. JobsFit'
  BY <1>3, <1>4, <1>7, <1>12 DEF JobsFit, Stays
<1>17. NoneReleasedEarly'
  BY <1>3, <1>6, <1>7, <1>12, <1>13 DEF NoneReleasedEarly, Stays
<1>18. WaitersInv'
  BY <1>1, <1>3, <1>13, WaitersStay DEF Stays
<1>19. \A s \in Run : Queued("end", s) => Ticketed(s)
  BY DEF JobsFit
<1>20. TicketsInv'
  BY <1>1, <1>3, <1>12, <1>14, <1>19, TicketsStay DEF Stays
<1>21. \A s \in Run : Waiting(s) /\ Act(s) = Act(r) => r < s /\ InLine(s)
  BY <1>2, <1>4 DEF LineInv, WaitBehind, RunsKnown
<1>22. TailIsQueued'
  BY <1>1, <1>3 DEF LineInv, TailIsQueued, Stays
<1>23. TailIsLast'
  BY <1>1, <1>3 DEF LineInv, TailIsLast, Stays
<1>24. TailIsAhead'
  BY <1>1, <1>12, <1>15 DEF LineInv, TailIsAhead
<1>25. TailEndsLast'
  <2>1. SUFFICES ASSUME NEW a \in Action, NEW u \in Run, NEW s \in Run, tails[a] = u,
                        Queued("tail", u)', InLine(s), Act(s) = a, Live(s)
                 PROVE  FALSE
    BY <1>1, <1>3 DEF TailEndsLast, Stays
  <2>2. u = r
    BY <1>12, <2>1 DEF LineInv, TailEndsLast
  <2>3. Act(r) = a /\ s <= r
    BY <2>1, <2>2 DEF LineInv, TailIsQueued, TailIsLast
  <2>4. Waiting(s)
    BY <1>6, <2>1, <2>3 DEF Live
  <2>5. r < s
    BY <1>21, <2>1, <2>3, <2>4
  <2>6. QED
    BY <1>2, <2>3, <2>5, Places
<1>26. QueuedHaveTail'
  BY <1>1, <1>3 DEF LineInv, QueuedHaveTail, Stays
<1>27. FollowersWait'
  BY <1>1, <1>3, <1>15 DEF LineInv, FollowersWait, Stays
<1>28. FollowersAreNext'
  BY <1>1, <1>3, <1>15 DEF LineInv, FollowersAreNext, Stays
<1>29. QueuedHavePlace'
  BY <1>1, <1>3, <1>14, <1>15 DEF LineInv, QueuedHavePlace, Stays
<1>30. FirstInLine'
  <2>1. SUFFICES ASSUME NEW w \in Run, NEW s \in Run, Waiting(w), InLine(w), OnItsWay(w)',
                        Waiting(s), Act(s) = Act(w)
                 PROVE  w <= s
    BY <1>3 DEF FirstInLine, Stays
  <2>2. CASE OnItsWay(w)
    BY <2>1, <2>2 DEF LineInv, FirstInLine
  <2>3. CASE follower[r] = w
    <3>1. Act(w) = Act(r)
      BY <1>7, <2>3
    <3>2. r < s /\ InLine(s)
      BY <1>21, <2>1, <3>1
    <3>3. s <= r \/ w <= s
      BY <1>2, <1>4, <2>1, <2>3, <3>1, <3>2 DEF LineInv, FollowersAreNext
    <3>4. QED
      BY <1>2, <3>2, <3>3, Places
  <2>4. QED
    BY <1>14, <2>1, <2>2, <2>3
<1>31. WaitBehind'
  BY <1>3, <1>12 DEF LineInv, WaitBehind, Stays
<1>32. QED
  BY <1>3, <1>11, <1>16, <1>17, <1>18, <1>20, <1>22, <1>23, <1>24, <1>25, <1>26, <1>27, <1>28,
     <1>29, <1>30, <1>31 DEF LineInv
\* The line is forgotten only when nobody is left in it.
LEMMA EndQueuedHolds ==
  ASSUME RunnerInv, EndQueued
  PROVE  RunnerInv'
<1> USE DEF RunnerInv, StepsInv
<1> DEFINE r == Current
           a == Act(r)
           rest == Tail(micro)
<1>1. /\ NextIs("tail") /\ Draining /\ micro' = rest
      /\ tails' = [tails EXCEPT ![a] = IF @ = r THEN None ELSE @]
      /\ UNCHANGED <<runs, running, tickets, cooling, waiters, follower, value>>
  BY DEF EndQueued, CurrentAction, Act
<1>2. /\ r \in Run /\ Queued("tail", r) /\ rest \in Seq(Job) /\ Ordered(runs, rest)
      /\ Range(rest) = Jobs \ {<<"tail", r>>}
  BY <1>1, FirstJob
<1>3. /\ RunsKnown' /\ OneExecution' /\ draining' = TRUE
      /\ \A s \in Run : Stays(s)
      /\ \A s, w \in Run : WaitsFor(w, s)' <=> WaitsFor(w, s)
      /\ TypeOK'
  <2>1. tails' \in [Action -> Run \cup {None}]
    BY <1>1 DEF TypeOK
  <2>2. tickets' \in [Action -> Nat] /\ micro' \in Seq(Job)
    BY <1>1, <1>2 DEF TypeOK
  <2>3. QED
    BY <1>1, <2>1, <2>2, QuietHolds
<1> HIDE DEF r, rest
<1>4. InOrder' /\ \A kind, s : Queued(kind, s)' <=> Queued(kind, s) /\ ~(kind = "tail" /\ s = r)
  BY <1>1, <1>2 DEF InOrder, Queued, Jobs
<1>5. Done(r) /\ InLine(r) /\ a \in Action
  BY <1>2, OneStage DEF JobsFit, RunsKnown
<1>6. \A b \in Action : tails'[b] = IF b = a /\ tails[b] = r THEN None ELSE tails[b]
  BY <1>1 DEF TypeOK
<1> HIDE DEF a
<1>7. \A b \in Action, t \in Run : tails'[b] = t => tails[b] = t /\ t # r
  <2>1. ASSUME NEW b \in Action, NEW t \in Run, tails'[b] = t
        PROVE  tails[b] = t /\ t # r
    <3>1. tails[b] = t /\ ~(b = a /\ t = r)
      BY <1>6, <2>1, Places
    <3>2. Act(t) = b
      BY <3>1 DEF LineInv, TailIsQueued
    <3>3. QED
      BY <3>1, <3>2 DEF a
  <2>2. QED
    BY <2>1
<1>8. \A s \in Run : /\ Open(s)' <=> Open(s)
                     /\ OnItsWay(s)' <=> OnItsWay(s)
                     /\ Ahead(s)' <=> Ahead(s)
  <2>1. \A s \in Run : Open(s)' <=> Open(s)
    BY <1>3, <1>4 DEF Open, Stays
  <2>2. QED
    BY <1>3, <1>4, <2>1 DEF OnItsWay, Ahead, Stays
<1>9. JobsFit'
  BY <1>3, <1>4 DEF JobsFit, Stays
<1>10. NoneReleasedEarly'
  BY <1>3, <1>4, <1>8 DEF NoneReleasedEarly, Stays
<1>11. WaitersInv'
  BY <1>1, <1>3, <1>8, WaitersStay DEF Stays
<1>12. \A s \in Run : Queued("end", s) => Ticketed(s)
  BY DEF JobsFit
<1>13. TicketsInv'
  BY <1>1, <1>3, <1>4, <1>8, <1>12, TicketsStay DEF Stays
<1>14. TailIsQueued'
  BY <1>1, <1>3, <1>7 DEF LineInv, TailIsQueued, Stays
<1>15. TailIsLast'
  BY <1>3, <1>7 DEF LineInv, TailIsLast, Stays
<1>16. TailIsAhead'
  BY <1>4, <1>7, <1>8 DEF LineInv, TailIsAhead
<1>17. TailEndsLast'
  BY <1>3, <1>4, <1>7 DEF LineInv, TailEndsLast, Stays
<1>18. QueuedHaveTail'
  BY <1>2, <1>3, <1>6 DEF LineInv, QueuedHaveTail, TailEndsLast, Stays
<1>19. FollowersWait'
  BY <1>1, <1>3, <1>8 DEF LineInv, FollowersWait, Stays
<1>20. FollowersAreNext'
  BY <1>1, <1>3, <1>8 DEF LineInv, FollowersAreNext, Stays
<1>21. QueuedHavePlace'
  BY <1>1, <1>3, <1>8 DEF LineInv, QueuedHavePlace, Stays
<1>22. FirstInLine'
  BY <1>3, <1>8 DEF LineInv, FirstInLine, Stays
<1>23. WaitBehind'
  BY <1>3, <1>4 DEF LineInv, WaitBehind, Stays
<1>24. QED
  BY <1>3, <1>4, <1>9, <1>10, <1>11, <1>13, <1>14, <1>15, <1>16, <1>17, <1>18, <1>19, <1>20,
     <1>21, <1>22, <1>23 DEF LineInv

\* The tickets of an action start anew only when nobody holds one.
LEMMA EndReplacingHolds ==
  ASSUME RunnerInv, EndReplacing
  PROVE  RunnerInv'
<1> USE DEF RunnerInv, StepsInv
<1> DEFINE r == Current
           a == Act(r)
           rest == Tail(micro)
<1>1. /\ NextIs("end") /\ Draining /\ micro' = rest
      /\ tickets' = [tickets EXCEPT ![a] = IF @ = Ticket(r) THEN 0 ELSE @]
      /\ UNCHANGED <<runs, running, tails, cooling, waiters, follower, value>>
  BY DEF EndReplacing, CurrentAction, Act, Ticket
<1>2. /\ r \in Run /\ Queued("end", r) /\ rest \in Seq(Job) /\ Ordered(runs, rest)
      /\ Range(rest) = Jobs \ {<<"end", r>>}
  BY <1>1, FirstJob
<1>3. /\ RunsKnown' /\ OneExecution' /\ draining' = TRUE
      /\ \A s \in Run : Stays(s)
      /\ \A s, w \in Run : WaitsFor(w, s)' <=> WaitsFor(w, s)
      /\ TypeOK'
  <2>1. tickets' \in [Action -> Nat]
    BY <1>1 DEF TypeOK
  <2>2. tails' \in [Action -> Run \cup {None}] /\ micro' \in Seq(Job)
    BY <1>1, <1>2 DEF TypeOK
  <2>3. QED
    BY <1>1, <2>1, <2>2, QuietHolds
<1> HIDE DEF r, rest
<1>4. InOrder' /\ \A kind, s : Queued(kind, s)' <=> Queued(kind, s) /\ ~(kind = "end" /\ s = r)
  BY <1>1, <1>2 DEF InOrder, Queued, Jobs
<1>5. Done(r) /\ Ticketed(r) /\ a \in Action
  BY <1>2, OneStage DEF JobsFit, RunsKnown
<1>6. \A b \in Action : tickets'[b] = IF b = a /\ tickets[b] = Ticket(r) THEN 0 ELSE tickets[b]
  BY <1>1 DEF TypeOK
<1>7. \A b \in Action : tickets'[b] # tickets[b] => b = a /\ Newest(r) /\ tickets'[b] = 0
  BY <1>6 DEF Newest, Ticket, Act
<1> HIDE DEF a
<1>8. \A s \in Run : /\ Open(s)' <=> Open(s)
                     /\ OnItsWay(s)' <=> OnItsWay(s)
  <2>1. \A s \in Run : Open(s)' <=> Open(s)
    BY <1>3, <1>4 DEF Open, Stays
  <2>2. QED
    BY <1>3, <1>4, <2>1 DEF OnItsWay, Stays
<1>9. JobsFit'
  BY <1>3, <1>4 DEF JobsFit, Stays
<1>10. NoneReleasedEarly'
  BY <1>3, <1>4, <1>8 DEF NoneReleasedEarly, Stays
<1>11. WaitersInv'
  BY <1>1, <1>3, <1>8, WaitersStay DEF Stays
\* While anybody of an action is live, its tickets are what they were.
<1>12. \A s \in Run : Live(s) => Act(s) \in Action /\ tickets'[Act(s)] = tickets[Act(s)]
  <2>1. SUFFICES ASSUME NEW s \in Run, Live(s)
                 PROVE  Act(s) \in Action /\ tickets'[Act(s)] = tickets[Act(s)]
    OBVIOUS
  <2>2. Act(s) \in Action
    BY <2>1, OneStage DEF RunsKnown
  <2>3. Newest(r) => Act(s) # a
    BY <1>2, <2>1 DEF TicketsInv, NewestEndsLast, a
  <2>4. QED
    BY <1>7, <2>2, <2>3
<1>13. \A s \in Run : Live(s) => (Newest(s)' <=> Newest(s))
  BY <1>3, <1>12 DEF Newest, Stays, Ticket, Act
<1>14. TicketsCounted'
  BY <1>3, <1>12 DEF TicketsInv, TicketsCounted, Stays
<1>15. TicketsOnTheirWay'
  BY <1>3, <1>8 DEF TicketsInv, TicketsOnTheirWay, Stays
<1>16. OldTicketsReplaced'
  BY <1>3, <1>13, OneStage DEF TicketsInv, OldTicketsReplaced, Stays
<1>17. NewestGoesLast'
  BY <1>3, <1>13, OneStage DEF TicketsInv, NewestGoesLast, Stays
<1>18. NewestEndsLast'
  <2>1. SUFFICES ASSUME NEW w \in Run, NEW s \in Run, Queued("end", w), Newest(w)',
                        Act(s) = Act(w), Live(s)
                 PROVE  FALSE
    BY <1>3, <1>4 DEF NewestEndsLast, Stays
  <2>2. tickets'[Act(w)] = tickets[Act(w)]
    BY <1>12, <2>1
  <2>3. Newest(w)
    BY <1>3, <2>1, <2>2 DEF Newest, Stays, Ticket, Act
  <2>4. QED
    BY <2>1, <2>3 DEF TicketsInv, NewestEndsLast
<1>19. LineInv'
  BY <1>1, <1>3, <1>4, <1>8, LineStays DEF Stays
<1>20. QED
  BY <1>3, <1>4, <1>9, <1>10, <1>11, <1>14, <1>15, <1>16, <1>17, <1>18, <1>19 DEF TicketsInv
\* A newer call has replaced the run that waited.
LEMMA SupersededHolds ==
  ASSUME RunnerInv, NEW r \in Run, r = Current, Go, Superseded(r)
  PROVE  RunnerInv'
<1> USE DEF RunnerInv, StepsInv
<1> DEFINE a == Act(r)
           rest == Tail(micro)
           new == [runs[r] EXCEPT !.stage = "done", !.skipped = TRUE]
<1>1. NextIs("go") /\ Draining
  BY DEF Go
<1>2. /\ r \in Run /\ Queued("go", r) /\ rest \in Seq(Job) /\ Ordered(runs, rest)
      /\ Range(rest) = Jobs \ {<<"go", r>>}
  BY <1>1, FirstJob
<1>3. /\ runs' = [runs EXCEPT ![r] = new] /\ micro' = rest
      /\ UNCHANGED <<running, value, tails, tickets, cooling, waiters, follower>>
  BY <1>2 DEF Go, TypeOK, RunState
<1>4. Ticketed(r)
  BY DEF Superseded, Ticketed
<1> HIDE DEF rest
<1>5. Restaged(new, runs[r], "done")
  BY <1>2, RunUpdated DEF TypeOK
<1> HIDE DEF new
<1>6. Waiting(r) /\ a \in Action /\ ~InLine(r)
  BY <1>2, <1>4, OneStage DEF JobsFit, RunsKnown
<1>7. /\ runs' \in [Run -> RunState]
      /\ \A s \in Run : s # r => Stays(s)
      /\ Comes(r, "done") /\ Keeps(r, a)
  BY <1>2, <1>3, <1>5, <1>6, OneMoves DEF Act
<1> HIDE DEF a
<1>8. /\ called' \in 0..MaxCalls /\ draining' \in BOOLEAN /\ draining' = TRUE
      /\ \A s \in Run : s > called' <=> New(s)
  BY <1>1, NobodyCalls
<1>9. TypeOK'
  BY <1>2, <1>3, <1>7, <1>8 DEF TypeOK
<1>10. \A kind, s : Queued(kind, s)' <=> Queued(kind, s) /\ ~(kind = "go" /\ s = r)
  BY <1>2, <1>3 DEF Queued, Jobs
<1>11. InOrder'
  <2>1. \A s \in Run : Act(s)' = Act(s) /\ Ticket(s)' = Ticket(s)
    BY <1>7 DEF Stays, Keeps, a
  <2>2. \A x \in Range(rest) : x[2] \in Run
    BY <1>2, JobsArePairs
  <2>3. Ordered(runs', rest)
    BY <1>2, <2>1, <2>2, OrderStays DEF Act, Ticket
  <2>4. QED
    BY <1>3, <2>3 DEF InOrder
<1>12. RunsKnown'
  BY <1>3, <1>6, <1>7, <1>8, OneStage DEF RunsKnown, IsNew, Stays, Comes, Keeps, a
<1>13. OneExecution'
  BY <1>3, <1>6, <1>7, OneStage DEF OneExecution, Stays, Comes
<1>14. JobsFit'
  BY <1>6, <1>7, <1>8, <1>10, OneStage DEF JobsFit, Stays, Comes, Keeps
<1>15. \A s \in Run : (Open(s)' <=> Open(s)) /\ (Ahead(s)' <=> Ahead(s))
  BY <1>6, <1>7, <1>10, OneStage DEF Open, Ahead, Stays, Comes, Keeps
<1>16. \A s \in Run : s # r => (OnItsWay(s)' <=> OnItsWay(s))
  BY <1>3, <1>10, <1>15 DEF OnItsWay, WaitsFor
<1>17. NoneReleasedEarly'
  BY <1>6, <1>7, <1>10, <1>15 DEF NoneReleasedEarly, Stays, Comes, Keeps, a
<1>18. WaitersInv'
  <2>1. \A s, w \in Run : Open(s) /\ WaitsFor(w, s) => w # r
    BY <1>2 DEF WaitersInv, WaitersWait, NoneReleasedEarly
  <2>2. \A s \in Run : Act(s)' = Act(s)
    BY <1>7 DEF Stays, Keeps, a
  <2>3. QED
    BY <1>3, <1>7, <1>15, <2>1, <2>2, WaitersStay DEF Stays, Comes, Keeps
<1>19. TicketsInv'
  <2>1. \A s \in Run : Queued("end", s) => Ticketed(s)
    BY DEF JobsFit
  <2>2. \A s \in Run : /\ Live(s)' => Live(s) /\ s # r
                       /\ Waiting(s)' => Waiting(s) /\ s # r
                       /\ Started(s)' => Started(s)
                       /\ New(s)' <=> New(s)
                       /\ Act(s)' = Act(s) /\ Ticket(s)' = Ticket(s)
                       /\ Ticketed(s)' <=> Ticketed(s)
    BY <1>6, <1>7, OneStage DEF Stays, Comes, Keeps, a
  <2>3. QED
    BY <1>3, <1>10, <1>12, <1>16, <2>1, <2>2, TicketsStay
<1>20. LineInv'
  BY <1>3, <1>6, <1>7, <1>10, <1>12, <1>16, LineStays DEF Stays, Comes, Keeps
<1>21. QED
  BY <1>9, <1>11, <1>12, <1>13, <1>14, <1>17, <1>18, <1>19, <1>20

\* performAction is over.
LEMMA FinishHolds ==
  ASSUME RunnerInv, NEW r \in Run, r = Current, Finish
  PROVE  RunnerInv'
<1> USE DEF RunnerInv, StepsInv
<1> DEFINE a == Act(r)
           rest == Tail(micro)
           new == [runs[r] EXCEPT !.stage = "done"]
           ans == Answering(r, runs[r])
<1>1. NextIs("finish") /\ Draining
  BY DEF Finish
<1>2. /\ r \in Run /\ Queued("finish", r) /\ rest \in Seq(Job) /\ Ordered(runs, rest)
      /\ Range(rest) = Jobs \ {<<"finish", r>>}
      /\ \A y \in Jobs \ {<<"finish", r>>} : MayPrecede(runs, <<"finish", r>>, y)
  BY <1>1, FirstJob
<1>3. /\ runs' = [runs EXCEPT ![r] = new] /\ micro' = rest \o ans
      /\ running' = [running EXCEPT ![a] = IF @ = r THEN None ELSE @]
      /\ UNCHANGED <<value, tails, tickets, waiters, follower>>
  BY <1>2 DEF Finish, TypeOK, RunState, CurrentAction, Cleared, Act
<1>4. cooling' \subseteq CoolsDown
  BY DEF Finish, TypeOK
<1> HIDE DEF rest
<1>5. Restaged(new, runs[r], "done") /\ runs[r] \in RunState
  BY <1>2, RunUpdated DEF TypeOK
<1> HIDE DEF new
<1>6. Settled(r) /\ Started(r) /\ a \in Action /\ ~Waiting(r) /\ ~Executing(r) /\ ~Done(r) /\ ~New(r)
  BY <1>2, OneStage DEF JobsFit, RunsKnown
<1>7. /\ runs' \in [Run -> RunState]
      /\ \A s \in Run : s # r => Stays(s)
      /\ Comes(r, "done") /\ Keeps(r, a)
  BY <1>2, <1>3, <1>5, <1>6, OneMoves DEF Act
<1>8. ~Queued("resolve", r) /\ ~Open(r)
  BY <1>2, <1>6 DEF MayPrecede, Queued, Open
<1>9. (runs[r].ticket > 0 <=> Ticketed(r)) /\ (runs[r].queued = TRUE <=> InLine(r))
  BY DEF Ticketed, InLine
<1>10. ~(Ticketed(r) /\ InLine(r))
  BY <1>2 DEF RunsKnown
<1>11. ~(runs[r].ticket > 0 /\ runs[r].queued)
  BY <1>5, <1>9, <1>10 DEF RunState
<1>12. /\ ans \in Seq(Job) /\ Ordered(runs', ans)
       /\ \A x : x \in Range(ans) <=> \/ Ticketed(r) /\ x = <<"end", r>>
                                      \/ InLine(r) /\ x = <<"adopt", r>>
  BY <1>2, <1>5, <1>9, <1>11, AnsweringIs
<1> HIDE DEF ans, a
<1>13. \A s \in Run : Act(s)' = Act(s) /\ Ticket(s)' = Ticket(s)
  BY <1>7 DEF Stays, Keeps, a
<1>14. \A x \in Range(rest), y \in Range(ans) : MayPrecede(runs', x, y)
  <2>1. SUFFICES ASSUME NEW x \in Range(rest), NEW y \in Range(ans)
                 PROVE  MayPrecede(runs', x, y)
    OBVIOUS
  <2>2. x[2] \in Run /\ x = <<x[1], x[2]>> /\ Queued(x[1], x[2])
    BY <1>2, <2>1, JobsArePairs DEF Queued
  <2>3. CASE y = <<"end", r>>
    <3>1. ~Queued("end", r)
      BY <1>2, <1>6 DEF JobsFit
    <3>2. x # y
      BY <2>2, <2>3, <3>1
    <3>3. QED
      BY <2>3, <3>2 DEF MayPrecede, Releasing
  <2>4. CASE InLine(r) /\ y = <<"adopt", r>>
    <3>1. \A s \in Run : Act(s) = Act(r) => ~Queued("go", s) /\ ~Queued("adopt", s)
      BY <1>2, <1>6, <2>4 DEF NoneReleasedEarly
    <3>2. Releasing(x) => Act(x[2])' # Act(r)'
      BY <1>2, <1>13, <2>2, <3>1 DEF Releasing
    <3>3. x # y
      BY <1>2, <2>2, <2>4, <3>1
    <3>4. QED
      BY <2>4, <3>2, <3>3 DEF MayPrecede, Act
  <2>5. QED
    BY <1>12, <2>1, <2>3, <2>4
<1>15. /\ InOrder' /\ micro' \in Seq(Job)
       /\ \A kind, s : Queued(kind, s)' <=> <<kind, s>> \in Range(rest) \/ <<kind, s>> \in Range(ans)
  <2>1. \A x \in Range(rest) : Act(x[2])' = Act(x[2]) /\ Ticket(x[2])' = Ticket(x[2])
    BY <1>2, <1>13, JobsArePairs
  <2>2. QED
    BY <1>2, <1>3, <1>12, <1>14, <2>1, QueueMoves
<1>16. \A kind, s : Queued(kind, s)' <=>
         \/ Queued(kind, s) /\ ~(kind = "finish" /\ s = r)
         \/ Ticketed(r) /\ kind = "end" /\ s = r
         \/ InLine(r) /\ kind = "adopt" /\ s = r
  <2>1. \A kind, s : <<kind, s>> \in Range(ans) <=>
          \/ Ticketed(r) /\ kind = "end" /\ s = r
          \/ InLine(r) /\ kind = "adopt" /\ s = r
    BY <1>12
  <2>2. QED
    BY <1>2, <1>15, <2>1 DEF Queued
<1>17. /\ called' \in 0..MaxCalls /\ draining' \in BOOLEAN /\ draining' = TRUE
       /\ \A s \in Run : s > called' <=> New(s)
  BY <1>1, NobodyCalls
<1>18. TypeOK'
  <2>1. running' \in [Action -> Run \cup {None}]
    BY <1>3 DEF TypeOK
  <2>2. QED
    BY <1>3, <1>4, <1>7, <1>15, <1>17, <2>1 DEF TypeOK
<1>19. RunsKnown'
  <2>1. \A s \in Run : New(s)' <=> s > called'
    BY <1>6, <1>7, <1>17 DEF Stays, Comes
  <2>2. \A s \in Run : New(s)' => IsNew(s)'
    BY <1>3, <1>7 DEF RunsKnown, IsNew, Stays, Comes
  <2>3. \A s \in Run : ~New(s)' => Act(s)' \in Action
    BY <1>6, <1>7 DEF RunsKnown, Stays, Keeps
  <2>4. \A s \in Run : (Ticketed(s)' => PolicyOf[Act(s)'] = "replace")
                       /\ (InLine(s)' => PolicyOf[Act(s)'] = "enqueue")
    BY <1>7, <1>13 DEF RunsKnown, Stays, Keeps
  <2>5. \A s \in Run : Waiting(s)' => InLine(s)' \/ Ticketed(s)'
    BY <1>7 DEF RunsKnown, Stays, Comes
  <2>6. QED
    BY <2>1, <2>2, <2>3, <2>4, <2>5 DEF RunsKnown
\* Nobody else of the action has started.
<1>20. \A s \in Run : s # r /\ Act(s) = a => ~Started(s)
  BY <1>2, <1>6, OnlyOneStarted DEF a
<1>21. OneExecution'
  <2>1. \A b \in Action : running'[b] = IF b = a /\ running[b] = r THEN None ELSE running[b]
    BY <1>3 DEF TypeOK
  <2>2. running[a] = r
    BY <1>2, <1>6 DEF OneExecution, a
  <2>3. ASSUME NEW b \in Action, NEW s \in Run
        PROVE  running'[b] = s <=> Act(s)' = b /\ Started(s)'
    <3>1. CASE s = r
      <4>1. running'[b] # r
        BY <1>2, <2>1, <2>2, Places DEF OneExecution, a
      <4>2. QED
        BY <1>7, <3>1, <4>1 DEF Comes
    <3>2. CASE s # r
      <4>1. (running'[b] = s) <=> (running[b] = s)
        BY <2>1, <2>2, <3>2, Places
      <4>2. QED
        BY <1>7, <3>2, <4>1 DEF OneExecution, Stays
    <3>3. QED
      BY <3>1, <3>2
  <2>4. \A b \in Action, s \in Run : value'[b] = s => Act(s)' = b /\ Executing(s)'
    BY <1>3, <1>6, <1>7 DEF OneExecution, Stays
  <2>5. \A s \in Run : Executing(s)' => FoundBase(s)'
    BY <1>7 DEF OneExecution, Stays, Comes
  <2>6. QED
    BY <2>3, <2>4, <2>5 DEF OneExecution
<1>22. JobsFit'
  <2>1. \A s \in Run : Queued("resolve", s)' \/ Queued("finish", s)' => Settled(s)'
    BY <1>7, <1>8, <1>16 DEF JobsFit, Stays
  <2>2. \A s \in Run : Queued("go", s)' => Waiting(s)'
    BY <1>6, <1>7, <1>16 DEF JobsFit, Stays
  <2>3. \A s \in Run : Queued("end", s)' => Done(s)' /\ Ticketed(s)'
    BY <1>6, <1>7, <1>16 DEF JobsFit, Stays, Comes, Keeps
  <2>4. \A s \in Run : Queued("adopt", s)' \/ Queued("tail", s)' => Done(s)' /\ InLine(s)'
    BY <1>6, <1>7, <1>16 DEF JobsFit, Stays, Comes, Keeps
  <2>5. \A s \in Run : ~(Queued("adopt", s)' /\ Queued("tail", s)')
    BY <1>6, <1>16 DEF JobsFit
  <2>6. \A s \in Run : Settled(s)' => Queued("finish", s)'
    BY <1>7, <1>16 DEF JobsFit, Stays, Comes
  <2>7. QED
    BY <1>17, <2>1, <2>2, <2>3, <2>4, <2>5, <2>6 DEF JobsFit
<1>23. \A s \in Run : Open(s)' <=> Open(s)
  BY <1>6, <1>7, <1>8, <1>16 DEF Open, Stays, Comes
<1>24. \A s \in Run : OnItsWay(s)' <=> OnItsWay(s)
  BY <1>3, <1>16, <1>23 DEF OnItsWay, WaitsFor
<1>25. \A s \in Run : Ahead(s)' <=> Ahead(s)
  BY <1>6, <1>7, <1>16, OneStage DEF Ahead, Stays, Comes, Keeps
<1>26. NoneReleasedEarly'
  <2>1. SUFFICES ASSUME NEW p \in Run, NEW s \in Run, Act(s)' = Act(p)',
                        Open(p)' \/ (Started(p)' /\ InLine(p)')
                 PROVE  ~Queued("go", s)' /\ ~Queued("adopt", s)'
    BY DEF NoneReleasedEarly
  <2>2. p # r /\ (Open(p) \/ (Started(p) /\ InLine(p))) /\ Act(s) = Act(p)
    BY <1>7, <1>8, <1>13, <1>23, <2>1 DEF Stays, Comes
  <2>3. Started(p)
    BY <2>2, OneStage DEF Open, JobsFit
  <2>4. s # r
    BY <1>20, <2>2, <2>3 DEF a
  <2>5. QED
    BY <1>16, <2>2, <2>4 DEF NoneReleasedEarly
<1>27. \A s \in Run : /\ New(s)' <=> New(s)
                      /\ Waiting(s)' <=> Waiting(s)
                      /\ Live(s)' => Live(s) /\ s # r
                      /\ Started(s)' => Started(s) /\ s # r
                      /\ Ticketed(s)' <=> Ticketed(s)
                      /\ InLine(s)' <=> InLine(s)
  BY <1>6, <1>7, OneStage DEF Stays, Comes, Keeps
<1>28. WaitersInv'
  BY <1>3, <1>13, <1>23, <1>27, WaitersStay
<1>29. TicketsInv'
  <2>1. Ticketed(r) /\ Newest(r)' => \A u \in Run : Act(u)' = Act(r)' => ~Live(u)'
    <3>1. Newest(r)' <=> Newest(r)
      BY <1>2, <1>3, <1>13 DEF Newest, Act, Ticket
    <3>2. ASSUME Ticketed(r), Newest(r), NEW u \in Run, Act(u) = Act(r)
          PROVE  ~Live(u)'
      <4>1. ~Waiting(u)
        BY <1>2, <1>6, <3>2 DEF TicketsInv, NewestGoesLast
      <4>2. ~Started(u) \/ u = r
        BY <1>20, <3>2 DEF a
      <4>3. QED
        BY <1>27, <4>1, <4>2 DEF Live
    <3>3. QED
      BY <1>2, <1>13, <3>1, <3>2
  <2>2. \A s \in Run : Queued("end", s)' => \/ ~Newest(s)'
                                            \/ Ticketed(s) /\ Queued("end", s)
                                            \/ \A u \in Run : Act(u)' = Act(s)' => ~Live(u)'
    BY <1>16, <2>1 DEF JobsFit
  <2>3. QED
    BY <1>3, <1>13, <1>19, <1>24, <1>27, <2>2, TicketsStay
<1>30. LineInv'
  <2>1. \A s \in Run : Started(s)' \/ Queued("adopt", s)' => Started(s) \/ Queued("adopt", s)
    BY <1>6, <1>16, <1>27
  <2>2. \A s \in Run : Queued("tail", s)' <=> Queued("tail", s)
    BY <1>16
  <2>3. QED
    BY <1>3, <1>13, <1>19, <1>24, <1>25, <1>27, <2>1, <2>2, LineKept
<1>31. QED
  BY <1>15, <1>18, <1>19, <1>21, <1>22, <1>26, <1>28, <1>29, <1>30
-----------------------------------------------------------------------------
(* The invariant is inductive.                                               *)

\* The runner begins in the invariant.
LEMMA InitHolds == ASSUME Init PROVE RunnerInv
<1>1. /\ \A r \in Run : /\ runs[r].stage = "new" /\ runs[r].action = None /\ runs[r].ticket = 0
                        /\ runs[r].queued = FALSE
                        /\ waiters[r] = <<>> /\ follower[r] = None
      /\ \A a \in Action : running[a] = None /\ tails[a] = None /\ value[a] = None
      /\ micro = <<>> /\ called = 0 /\ draining = FALSE
  BY DEF Init, Base
<1>2. \A r \in Run : /\ New(r) /\ ~Waiting(r) /\ ~Executing(r) /\ ~Settled(r) /\ ~Done(r)
                     /\ ~Started(r) /\ ~Live(r) /\ Act(r) = None /\ ~Ticketed(r) /\ ~InLine(r)
                     /\ IsNew(r)
  <2>1. \A r \in Run : ~(runs[r].ticket > 0) /\ ~(runs[r].queued = TRUE)
    BY <1>1
  <2>2. QED
    BY <1>1, <2>1 DEF New, Waiting, Executing, Settled, Done, Started, Live, Act, Ticketed, InLine, IsNew
<1>3. Jobs = {} /\ \A kind, s : ~Queued(kind, s)
  BY <1>1 DEF Jobs, Range, Queued
<1>4. None \notin Run /\ \A r \in Run : r > 0
  BY ActionRunnerAssumption DEF Run
<1>5. TypeOK
  <2>1. [action |-> None, stage |-> "new", ticket |-> 0, queued |-> FALSE,
         ok |-> FALSE, pulse |-> FALSE, held |-> Base, skipped |-> FALSE] \in RunState
    BY DEF RunState, Value
  <2>2. runs \in [Run -> RunState]
    BY <2>1 DEF Init
  <2>3. /\ running \in [Action -> Run \cup {None}] /\ tails \in [Action -> Run \cup {None}]
        /\ tickets \in [Action -> Nat] /\ follower \in [Run -> Run \cup {None}]
        /\ value \in [Action -> Value]
    BY DEF Init, Value
  <2>4. waiters \in [Run -> Seq(Run)] /\ micro \in Seq(Job) /\ cooling \subseteq CoolsDown
    BY DEF Init
  <2>5. called \in 0..MaxCalls
    BY <1>1, ActionRunnerAssumption
  <2>6. draining \in BOOLEAN
    BY <1>1
  <2>7. QED
    BY <2>2, <2>3, <2>4, <2>5, <2>6 DEF TypeOK
<1>6. StepsInv
  <2>1. RunsKnown
    BY <1>1, <1>2, <1>4 DEF RunsKnown
  <2>2. OneExecution
    BY <1>1, <1>2, <1>4 DEF OneExecution
  <2>3. JobsFit
    BY <1>2, <1>3 DEF JobsFit, OnlyEnds
  <2>4. InOrder
    BY <1>1, FewJobs DEF InOrder
  <2>5. QED
    BY <1>3, <2>1, <2>2, <2>3, <2>4 DEF StepsInv, NoneReleasedEarly
<1>7. WaitersInv
  BY <1>1, <1>2, <1>3 DEF WaitersInv, WaitersWait, WaitersByTicket, NoneWaitForQueued, Open
<1>8. TicketsInv
  BY <1>2, <1>3 DEF TicketsInv, TicketsCounted, TicketsOnTheirWay, OldTicketsReplaced,
                    NewestGoesLast, NewestEndsLast
<1>9. LineInv
  BY <1>1, <1>2, <1>3, <1>4 DEF LineInv, TailIsQueued, TailIsLast, TailIsAhead, TailEndsLast,
     QueuedHaveTail, FollowersWait, FollowersAreNext, QueuedHavePlace, FirstInLine, WaitBehind, Ahead
<1>10. QED
  BY <1>5, <1>6, <1>7, <1>8, <1>9 DEF RunnerInv

\* Every step keeps the invariant.
LEMMA StepHolds == ASSUME RunnerInv, [Next]_vars PROVE RunnerInv'
<1>1. ASSUME NEW r \in Run, NEW a \in Action, CallDropped(r, a)
      PROVE  RunnerInv'
  BY <1>1, DroppedHolds
<1>2. ASSUME NEW r \in Run, NEW a \in Action, CallQueued(r, a)
      PROVE  RunnerInv'
  <2>1. CASE tails[a] = None
    BY <1>2, <2>1, QueuedBehindExecution
  <2>2. CASE tails[a] # None
    <3>1. tails[a] \in Run \cup {None}
      BY DEF RunnerInv, TypeOK
    <3>2. PICK t \in Run : tails[a] = t
      BY <2>2, <3>1
    <3>3. QED
      BY <1>2, <3>2, QueuedBehindTail
  <2>3. QED
    BY <2>1, <2>2
<1>3. ASSUME NEW r \in Run, NEW a \in Action, CallReplacing(r, a)
      PROVE  RunnerInv'
  BY <1>3, ReplacingHolds
<1>4. ASSUME NEW r \in Run, NEW a \in Action, CallDirect(r, a)
      PROVE  RunnerInv'
  BY <1>4, DirectHolds
<1>5. ASSUME NEW r \in Run, PulseEnds(r)
      PROVE  RunnerInv'
  BY <1>5, PulseHolds
<1>6. ASSUME NEW a \in Action, CooldownEnds(a)
      PROVE  RunnerInv'
  BY <1>6, IdleHolds DEF CooldownEnds
<1>7. CASE Resolve
  BY <1>7, ResolveHolds
<1>8. CASE Finish
  <2>1. Current \in Run
    BY <1>8, FirstJob DEF Finish, RunnerInv, StepsInv
  <2>2. QED
    BY <1>8, <2>1, FinishHolds
<1>9. CASE Go
  <2>1. CASE ~Superseded(Current)
    BY <1>9, <2>1, GoPerforms
  <2>2. CASE Superseded(Current)
    <3>1. Current \in Run
      BY <1>9, FirstJob DEF Go, RunnerInv, StepsInv
    <3>2. QED
      BY <1>9, <2>2, <3>1, SupersededHolds
  <2>3. QED
    BY <2>1, <2>2
<1>10. CASE EndReplacing
  BY <1>10, EndReplacingHolds
<1>11. CASE Adopt
  BY <1>11, AdoptHolds
<1>12. CASE EndQueued
  BY <1>12, EndQueuedHolds
<1>13. CASE UNCHANGED vars
  BY <1>13, IdleHolds DEF vars
<1>14. QED
  BY <1>1, <1>2, <1>3, <1>4, <1>5, <1>6, <1>7, <1>8, <1>9, <1>10, <1>11, <1>12, <1>13
     DEF Next, Microtask

\* Every behaviour of the runner keeps the invariant: the executions of an action
\* do not overlap, tickets and line stay in order.
THEOREM RunnerKept == Spec => []RunnerInv
<1>1. Init => RunnerInv
  BY InitHolds
<1>2. RunnerInv /\ [Next]_vars => RunnerInv'
  BY StepHolds
<1>3. QED
  BY <1>1, <1>2, PTL DEF Spec

\* Every variable of the runner is in its set, whatever the calls.
THEOREM Typed == Spec => []TypeOK
<1>1. RunnerInv => TypeOK
  BY DEF RunnerInv
<1>2. QED
  BY <1>1, RunnerKept, PTL

\* A parameter that is off its base is held by a pulse that is executing, whose
\* end writes the base back.
THEOREM PulsesDoRestore == Spec => []PulsesRestore
<1>1. RunnerInv => PulsesRestore
  <2>1. SUFFICES ASSUME RunnerInv, NEW a \in Action, value[a] # Base
                 PROVE  value[a] \in Run /\ runs[value[a]].stage = "executing"
    BY DEF PulsesRestore
  <2>2. value[a] \in Run
    BY <2>1 DEF RunnerInv, TypeOK, Value
  <2>3. PICK r \in Run : value[a] = r
    BY <2>2
  <2>4. Executing(r)
    BY <2>1, <2>3 DEF RunnerInv, StepsInv, OneExecution
  <2>5. QED
    BY <2>3, <2>4 DEF Executing
<1>2. QED
  BY <1>1, RunnerKept, PTL
-----------------------------------------------------------------------------
(* The order of the calls.                                                   *)

\* What OrderKept says of a step.
StartsInTurn(r) ==
  runs'[r].stage \in {"executing", "settled"} /\ runs[r].stage \in {"new", "waiting"} =>
    \A s \in 1..r-1 : runs[s].action = runs'[r].action => runs[s].stage = "done"

GivenUpFor(r) ==
  runs'[r].skipped /\ ~runs[r].skipped =>
    \/ runs'[r].action \in cooling
    \/ PolicyOf[runs'[r].action] = "drop"
    \/ /\ PolicyOf[runs'[r].action] = "replace"
       /\ \E s \in r+1..MaxCalls : runs[s].action = runs[r].action

StepOrdered == \A r \in Run : StartsInTurn(r) /\ GivenUpFor(r)

\* A step that touches no run is in order.
LEMMA OrderOfNobody == ASSUME UNCHANGED runs PROVE StepOrdered
BY DEF StepOrdered, StartsInTurn, GivenUpFor

\* A step that touches one run is in order if that run is.
LEMMA OrderOfOne ==
  ASSUME TypeOK, NEW r \in Run, NEW new, runs' = [runs EXCEPT ![r] = new],
         StartsInTurn(r), GivenUpFor(r)
  PROVE  StepOrdered
<1>1. \A s \in Run : s # r => runs'[s] = runs[s]
  BY DEF TypeOK
<1>2. \A s \in Run : s # r => StartsInTurn(s) /\ GivenUpFor(s)
  BY <1>1 DEF StartsInTurn, GivenUpFor
<1>3. QED
  BY <1>2 DEF StepOrdered

\* Whether a run was given up changes only where the update says so.
LEMMA SkippedStays ==
  ASSUME NEW st \in RunState
  PROVE  /\ \A g : [st EXCEPT !.stage = g].skipped = st.skipped
         /\ \A g, q : [st EXCEPT !.stage = g, !.queued = q].skipped = st.skipped
         /\ \A g, n : [st EXCEPT !.stage = g, !.ticket = n].skipped = st.skipped
         /\ \A g, ok : [st EXCEPT !.stage = g, !.ok = ok].skipped = st.skipped
         /\ \A g, v : [st EXCEPT !.stage = g, !.pulse = TRUE, !.held = v].skipped = st.skipped
         /\ \A g, q : [st EXCEPT !.stage = g, !.queued = q].stage = g
         /\ \A g, n : [st EXCEPT !.stage = g, !.ticket = n].stage = g
BY DEF RunState

\* Performing a run that may perform, when all before it were called, is in order.
LEMMA PerformOrdered ==
  ASSUME RunnerInv, NEW r \in Run, NEW a \in Action, MayPerform(r, a),
         NEW st \in RunState,
         st.action = a, st.ticket = runs[r].ticket, st.queued = runs[r].queued,
         st.skipped = runs[r].skipped,
         \A s \in Run : s < r => ~New(s),
         NEW rest, Perform(r, st, rest)
  PROVE  StepOrdered
<1>1. TypeOK
  BY DEF RunnerInv
<1>2. \A s \in 1..r-1 : runs[s].action = a => runs[s].stage = "done"
  <2>1. SUFFICES ASSUME NEW s \in 1..r-1, runs[s].action = a
                 PROVE  runs[s].stage = "done"
    OBVIOUS
  <2>2. s \in Run /\ s < r /\ r \in Nat /\ s \in Nat /\ s # r
    BY ActionRunnerAssumption DEF Run
  <2>3. ~Started(s) /\ (Waiting(s) => r < s)
    BY <2>1, <2>2 DEF MayPerform, Act
  <2>4. ~New(s)
    BY <2>2
  <2>5. ~Waiting(s)
    BY <2>2, <2>3
  <2>6. runs[s].stage \in {"new", "waiting", "executing", "settled", "done"}
    BY <1>1, <2>2 DEF TypeOK, RunState
  <2>7. QED
    BY <2>3, <2>4, <2>5, <2>6 DEF New, Waiting, Started, Executing, Settled
<1>3. CASE a \in cooling
  <2> DEFINE new == [st EXCEPT !.stage = "done", !.skipped = TRUE]
  <2>1. runs' = [runs EXCEPT ![r] = new]
    BY <1>3 DEF Perform
  <2>2. Restaged(new, st, "done")
    BY RunUpdated
  <2> HIDE DEF new
  <2>3. runs'[r] = new
    BY <1>1, <2>1 DEF TypeOK
  <2>4. StartsInTurn(r) /\ GivenUpFor(r)
    BY <1>3, <2>2, <2>3 DEF StartsInTurn, GivenUpFor, Restaged
  <2>5. QED
    BY <1>1, <2>1, <2>4, OrderOfOne
<1>4. ASSUME NEW new, runs' = [runs EXCEPT ![r] = new], new.action = a, new.skipped = st.skipped
      PROVE  StepOrdered
  <2>1. runs'[r] = new
    BY <1>1, <1>4 DEF TypeOK
  <2>2. StartsInTurn(r)
    BY <1>2, <1>4, <2>1 DEF StartsInTurn
  <2>3. GivenUpFor(r)
    BY <1>4, <2>1 DEF GivenUpFor
  <2>4. QED
    BY <1>1, <1>4, <2>2, <2>3, OrderOfOne
<1>5. CASE a \notin cooling
  <2>1. CASE \E ok \in BOOLEAN : runs' = [runs EXCEPT ![r] = [st EXCEPT !.stage = "settled", !.ok = ok]]
    <3>1. PICK ok \in BOOLEAN : runs' = [runs EXCEPT ![r] = [st EXCEPT !.stage = "settled", !.ok = ok]]
      BY <2>1
    <3> DEFINE new == [st EXCEPT !.stage = "settled", !.ok = ok]
    <3>2. new.skipped = st.skipped
      BY SkippedStays
    <3>5. new.action = st.action
      BY DEF RunState
    <3>3. runs' = [runs EXCEPT ![r] = new]
      BY <3>1
    <3> HIDE DEF new
    <3>4. QED
      BY <1>4, <3>2, <3>3, <3>5
  <2>2. CASE runs' = [runs EXCEPT ![r] = [st EXCEPT !.stage = "executing", !.pulse = TRUE,
                                                    !.held = value[a]]]
    <3> DEFINE new == [st EXCEPT !.stage = "executing", !.pulse = TRUE, !.held = value[a]]
    <3>1. new.skipped = st.skipped
      BY SkippedStays
    <3>2. new.action = a
      BY DEF RunState
    <3>3. runs' = [runs EXCEPT ![r] = new]
      BY <2>2
    <3> HIDE DEF new
    <3>4. QED
      BY <1>4, <3>1, <3>2, <3>3
  <2>3. QED
    BY <1>5, <2>1, <2>2 DEF Perform
<1>6. QED
  BY <1>3, <1>5

\* A run is given up for a newer one of its action.
LEMMA SupersededOrdered ==
  ASSUME RunnerInv, NEW r \in Run, r = Current, Go, Superseded(r)
  PROVE  StepOrdered
<1> USE DEF RunnerInv, StepsInv
<1> DEFINE new == [runs[r] EXCEPT !.stage = "done", !.skipped = TRUE]
<1>1. Queued("go", r)
  BY FirstJob DEF Go
<1>2. runs' = [runs EXCEPT ![r] = new]
  BY DEF Go, TypeOK, RunState
<1>3. Restaged(new, runs[r], "done")
  BY RunUpdated DEF TypeOK
<1> HIDE DEF new
<1>4. runs'[r] = new
  BY <1>2 DEF TypeOK
<1>5. Waiting(r) /\ Ticketed(r) /\ ~Newest(r)
  BY <1>1 DEF JobsFit, Superseded, Ticketed, Newest
<1>6. PICK s \in Run : s > r /\ Act(s) = Act(r)
  BY <1>5 DEF TicketsInv, OldTicketsReplaced
<1>7. s \in r+1..MaxCalls
  BY <1>6, ActionRunnerAssumption DEF Run
<1>8. PolicyOf[Act(r)] = "replace"
  BY <1>5 DEF RunsKnown
<1>9. StartsInTurn(r)
  BY <1>3, <1>4 DEF StartsInTurn, Restaged
<1>10. GivenUpFor(r)
  BY <1>3, <1>4, <1>6, <1>7, <1>8 DEF GivenUpFor, Restaged, Act
<1>11. QED
  BY <1>2, <1>9, <1>10, OrderOfOne

\* Calls are in order.
LEMMA CallOrdered ==
  ASSUME RunnerInv, NEW r \in Run, NEW a \in Action,
         CallDropped(r, a) \/ CallQueued(r, a) \/ CallReplacing(r, a) \/ CallDirect(r, a)
  PROVE  StepOrdered
<1> USE DEF RunnerInv, StepsInv
<1>1. /\ Called(r, a) \in RunState /\ Called(r, a).action = a
      /\ Called(r, a).skipped = runs[r].skipped
  BY CalledRun
<1>2. ASSUME NEW new, runs' = [runs EXCEPT ![r] = new],
             new.stage \notin {"executing", "settled"},
             new.skipped => runs[r].skipped \/ PolicyOf[new.action] = "drop"
      PROVE  StepOrdered
  <2>1. runs'[r] = new
    BY <1>2 DEF TypeOK
  <2>2. StartsInTurn(r) /\ GivenUpFor(r)
    BY <1>2, <2>1 DEF StartsInTurn, GivenUpFor
  <2>3. QED
    BY <1>2, <2>2, OrderOfOne
<1>3. CASE CallDropped(r, a)
  <2> DEFINE new == [Called(r, a) EXCEPT !.stage = "done", !.skipped = TRUE]
  <2>1. runs' = [runs EXCEPT ![r] = new] /\ PolicyOf[a] = "drop"
    BY <1>3 DEF CallDropped
  <2>2. Restaged(new, Called(r, a), "done")
    BY <1>1, RunUpdated
  <2> HIDE DEF new
  <2>3. QED
    BY <1>1, <1>2, <2>1, <2>2 DEF Restaged
<1>4. CASE CallQueued(r, a)
  <2> DEFINE new == [Called(r, a) EXCEPT !.stage = "waiting", !.queued = TRUE]
  <2>1. runs' = [runs EXCEPT ![r] = new]
    BY <1>4 DEF CallQueued
  <2>2. new.skipped = runs[r].skipped /\ new.stage = "waiting"
    BY <1>1, SkippedStays
  <2> HIDE DEF new
  <2>3. QED
    BY <1>2, <2>1, <2>2
<1>5. CASE CallReplacing(r, a)
  <2> DEFINE new == [Called(r, a) EXCEPT !.stage = "waiting", !.ticket = tickets[a] + 1]
  <2>1. runs' = [runs EXCEPT ![r] = new]
    BY <1>5 DEF CallReplacing
  <2>2. new.skipped = runs[r].skipped /\ new.stage = "waiting"
    BY <1>1, SkippedStays
  <2> HIDE DEF new
  <2>3. QED
    BY <1>2, <2>1, <2>2
<1>6. CASE CallDirect(r, a)
  <2>1. Calling(r, a) /\ Perform(r, Called(r, a), micro)
    BY <1>6 DEF CallDirect
  <2>2. MayPerform(r, a)
    BY <1>6, DirectMayPerform
  <2>3. \A s \in Run : s < r => ~New(s)
    <3>1. r = called + 1
      BY <2>1, NewRun
    <3>2. called \in Nat
      BY ActionRunnerAssumption DEF TypeOK
    <3>3. \A s \in Run : s < r => ~(s > called)
      BY <3>1, <3>2 DEF Run
    <3>4. QED
      BY <3>3 DEF RunsKnown
  <2>4. QED
    BY <1>1, <2>1, <2>2, <2>3, CalledRun, PerformOrdered
<1>7. QED
  BY <1>3, <1>4, <1>5, <1>6

\* Every step is in order.
LEMMA StepInOrder == ASSUME RunnerInv, [Next]_vars PROVE StepOrdered
<1> USE DEF RunnerInv, StepsInv
<1>1. ASSUME NEW r \in Run, NEW a \in Action,
             CallDropped(r, a) \/ CallQueued(r, a) \/ CallReplacing(r, a) \/ CallDirect(r, a)
      PROVE  StepOrdered
  BY <1>1, CallOrdered
<1>2. ASSUME NEW r \in Run, PulseEnds(r)
      PROVE  StepOrdered
  <2> DEFINE new == [runs[r] EXCEPT !.stage = "settled", !.ok = TRUE]
  <2>1. runs' = [runs EXCEPT ![r] = new] /\ runs[r] \in RunState /\ runs[r].stage = "executing"
    BY <1>2 DEF PulseEnds, TypeOK, RunState
  <2>2. new.skipped = runs[r].skipped
    BY <2>1, SkippedStays
  <2> HIDE DEF new
  <2>3. runs'[r] = new
    BY <2>1 DEF TypeOK
  <2>4. StartsInTurn(r) /\ GivenUpFor(r)
    BY <2>1, <2>2, <2>3 DEF StartsInTurn, GivenUpFor
  <2>5. QED
    BY <2>1, <2>4, OrderOfOne
<1>3. CASE Finish
  <2>1. PICK r \in Run : r = Current
    BY <1>3, FirstJob DEF Finish
  <2> DEFINE new == [runs[r] EXCEPT !.stage = "done"]
  <2>2. runs' = [runs EXCEPT ![r] = new] /\ runs[r] \in RunState
    BY <1>3, <2>1 DEF Finish, TypeOK, RunState
  <2>3. new.skipped = runs[r].skipped /\ Restaged(new, runs[r], "done")
    BY <2>2, SkippedStays, RunUpdated
  <2> HIDE DEF new
  <2>4. runs'[r] = new
    BY <2>2 DEF TypeOK
  <2>5. StartsInTurn(r) /\ GivenUpFor(r)
    BY <2>3, <2>4 DEF StartsInTurn, GivenUpFor, Restaged
  <2>6. QED
    BY <2>2, <2>5, OrderOfOne
<1>4. CASE Go
  <2>1. PICK r \in Run : r = Current
    BY <1>4, FirstJob DEF Go
  <2>2. CASE Superseded(r)
    BY <1>4, <2>1, <2>2, SupersededOrdered
  <2>3. CASE ~Superseded(r)
    <3>1. NextIs("go") /\ Perform(r, runs[r], Tail(micro))
      BY <1>4, <2>1, <2>3 DEF Go
    <3>2. MayPerform(r, Act(r)) /\ Act(r) \in Action /\ Queued("go", r)
      BY <2>1, <2>3, <3>1, GoMayPerform, FirstJob
    <3>3. \A s \in Run : s < r => ~New(s)
      <4>1. ~(r > called) /\ called \in Nat
        BY <3>2, OneStage, ActionRunnerAssumption DEF JobsFit, RunsKnown, TypeOK
      <4>2. \A s \in Run : s < r => ~(s > called)
        BY <4>1 DEF Run
      <4>3. QED
        BY <4>2 DEF RunsKnown
    <3>4. runs[r] \in RunState /\ runs[r].action = Act(r)
      BY DEF TypeOK, Act
    <3>5. QED
      BY <3>1, <3>2, <3>3, <3>4, PerformOrdered
  <2>4. QED
    BY <2>2, <2>3
<1>5. CASE UNCHANGED runs
  BY <1>5, OrderOfNobody
<1>6. QED
  BY <1>1, <1>2, <1>3, <1>4, <1>5
     DEF Next, Microtask, CooldownEnds, Resolve, EndReplacing, Adopt, EndQueued, vars

\* Calls of an action go on in their order, and a call is given up only for a
\* cooldown, an execution it may not wait for, or a newer call.
THEOREM CallsKeepOrder == Spec => OrderKept
<1>1. RunnerInv /\ [Next]_vars =>
      [\A r \in Run :
         /\ runs'[r].stage \in {"executing", "settled"} /\ runs[r].stage \in {"new", "waiting"} =>
              \A s \in 1..r-1 : runs[s].action = runs'[r].action => runs[s].stage = "done"
         /\ runs'[r].skipped /\ ~runs[r].skipped =>
              \/ runs'[r].action \in cooling
              \/ PolicyOf[runs'[r].action] = "drop"
              \/ /\ PolicyOf[runs'[r].action] = "replace"
                 /\ \E s \in r+1..MaxCalls : runs[s].action = runs[r].action]_vars
  BY StepInOrder DEF StepOrdered, StartsInTurn, GivenUpFor
<1>2. QED
  BY <1>1, RunnerKept, PTL DEF Spec, OrderKept
=============================================================================
