------------------------------- MODULE JobHost -------------------------------
(* The jobs of the Local Exchange host with one physical provider slot, and  *)
(* the page that runs them: electron/local-exchange-host.ts,                 *)
(* electron/ipc/local-exchange.cjs, src/lib/local-exchange-provider.ts.      *)
(* The host's writer queue runs one synchronous section at a time, and a     *)
(* command that awaits nothing before its section is one step.  complete and *)
(* approve await a preparation first: what they read of the cell before it   *)
(* is kept in the pending call.  Everything but disk is lost by a restart.   *)
EXTENDS JobTransitions, FiniteSets

CONSTANTS
  Cell,              \* the jobs
  Session,           \* session ids: a fresh UUID is one nobody holds any more
  Choice,            \* what an approval may select
  MaxPending,        \* LOCAL_HOST_LIMITS.pending
  NavigationWindow   \* whether a page may act after its navigation has started

\* Eight attempts count to 24 at most, far from 2^53 - 1.
ASSUME HostAssumption ==
  MaxPending \in Nat /\ NavigationWindow \in BOOLEAN /\ CounterMax >= 3 * MaxAttempts

VARIABLES
  disk,        \* the cell files
  memory,      \* LocalExchangeHost.cells
  frozen,      \* cells whose last write failed: refused until the next start
  lease,       \* the physical slot, None when free
  completing,  \* complete calls that await the preparation of the result
  approving,   \* approve calls that await the preparation of the candidate
  session,     \* the renderer the IPC layer knows, None before first contact
  leaving,     \* the page has started to navigate away but can still act
  run,         \* the page's runLocalJob, None when idle
  aborts       \* abort messages on their way to the page

hostVars == <<disk, memory, frozen, lease, completing, approving>>
pageVars == <<session, leaving, run, aborts>>
vars == <<hostVars, pageVars>>

Selection == [kind : {"approved"}, choice : Choice] \cup [kind : {"rejected"}, choice : {None}]

JobCell == [state : Job, version : 0..CounterMax, selection : Selection \cup {None}]

Lease == [cell : Cell, attempt : 1..MaxAttempts, session : Session,
          late : BOOLEAN, timer : BOOLEAN]

CompleteCall == [cell : Cell, attempt : 1..MaxAttempts, session : Session,
                 digest : Digest, version : 0..CounterMax]

ApproveCall == [cell : Cell, selection : Selection, version : 0..CounterMax]

\* Where runLocalJob is: before its abort listener, before its first progress
\* query, inside the provider, inside exchange("complete"), before "fail",
\* before "settled".
Stage == {"starting", "checking", "invoking", "returned", "completing", "failing",
          "settling"}

Run == [stage : Stage, cell : Cell, attempt : 1..MaxAttempts, session : Session,
        aborted : BOOLEAN, reason : {"retryable", "permanent"}]

Abort == [cell : Cell, attempt : 1..MaxAttempts]

ASSUME HostNoneAssumption ==
  None \notin JobCell \cup Lease \cup Selection \cup Run \cup Session

\* checkCell: the conditions of a job cell file beyond those of its state.
ReadableCell(c) ==
  /\ Restorable(c.state)
  /\ c.selection = None => c.state.decision.kind = "undecided"
  /\ c.selection # None =>
       /\ c.state.phase = "succeeded"
       /\ c.state.decision.kind = IF c.selection.kind = "rejected" THEN "rejected"
                                  ELSE "undecided"

-----------------------------------------------------------------------------
(* Committing.                                                               *)

\* current: a cell the host knows and has not frozen.
Usable(c) == c \notin frozen /\ memory[c] # None

\* counter: a cell whose commits are all counted is not committed again.
Versionable(c) == memory[c].version < CounterMax

\* The atomic replacement of a cell file succeeds, fails, or fails after the
\* rename took effect.  A failure freezes the cell.
WriteOutcome == {"ok", "failed", "unacked"}

\* Mutant of Commit: a failed write does not freeze the cell.
CommitUnfrozen(c, new, o) ==
  /\ disk' = IF o = "failed" THEN disk ELSE [disk EXCEPT ![c] = new]
  /\ memory' = IF o = "ok" THEN [memory EXCEPT ![c] = new] ELSE memory
  /\ frozen' = frozen

Commit(c, new, o) ==
  /\ disk' = IF o = "failed" THEN disk ELSE [disk EXCEPT ![c] = new]
  /\ memory' = IF o = "ok" THEN [memory EXCEPT ![c] = new] ELSE memory
  /\ frozen' = IF o = "ok" THEN frozen ELSE frozen \cup {c}

NoCommit == UNCHANGED <<disk, memory, frozen>>

Stored(c, state) == [memory[c] EXCEPT !.state = state, !.version = @ + 1]

\* Mutant of Room: one command more than the bound.
RoomLate == Cardinality(completing) + Cardinality(approving) <= MaxPending

\* command: the number of commands in progress is bounded.
Room == Cardinality(completing) + Cardinality(approving) < MaxPending

\* matchLease.
Leased(c, n, s) ==
  lease # None /\ lease.cell = c /\ lease.attempt = n /\ lease.session = s

Live(c, n) == Usable(c) /\ RunningAttempt(memory[c].state, n)

\* elapsed >= 120000, and its mutant: the deadline is never noticed.
NeverOverdue == FALSE
Overdue == lease.late

\* Mutant of AbortLease: a cancelled job gives its slot back at once.
AbortAndFree(c, committed, page) ==
  LET hit == committed /\ lease # None /\ lease.cell = c
  IN /\ lease' = IF hit THEN None ELSE lease
     /\ aborts' = IF hit /\ lease.session = page
                  THEN aborts \cup {[cell |-> c, attempt |-> lease.attempt]}
                  ELSE aborts

\* abortLease and onAbort, after a change of cell c that was committed: the
\* timer is cleared, and the page is told if the lease is its own.
AbortLease(c, committed, page) ==
  LET hit == committed /\ lease # None /\ lease.cell = c
  IN /\ lease' = IF hit THEN [lease EXCEPT !.timer = FALSE] ELSE lease
     /\ aborts' = IF hit /\ lease.session = page
                  THEN aborts \cup {[cell |-> c, attempt |-> lease.attempt]}
                  ELSE aborts

\* expireIfRunning: the attempt that holds the slot is expired if it still runs.
Expirable ==
  /\ Usable(lease.cell)
  /\ Versionable(lease.cell)
  /\ LET j == memory[lease.cell].state IN CanExpire(j, lease.attempt, j.active.renewal)

ExpireIfRunning(o) ==
  IF Expirable
  THEN Commit(lease.cell, Stored(lease.cell, Expired(memory[lease.cell].state)), o)
  ELSE NoCommit

\* Mutants of FreeSlot: the attempt is not expired; a failed expiry keeps the slot.
FreeWithoutExpiry(o) == NoCommit /\ lease' = None
FreeIfExpired(o) ==
  ExpireIfRunning(o) /\ lease' = IF Expirable /\ o # "ok" THEN lease ELSE None

\* settled and rendererLost free the slot whatever the write of the expiry did.
\* The abort that expireIfRunning sends meets a page that no longer listens.
FreeSlot(o) == ExpireIfRunning(o) /\ lease' = None

-----------------------------------------------------------------------------
(* Sessions and pages: session() of ipc/local-exchange.cjs.                  *)

Held ==
  {c.session : c \in completing} \cup (IF lease = None THEN {} ELSE {lease.session})
    \cup (IF run = None THEN {} ELSE {run.session})

\* Every command of a page opens a session unless it has one.
Speak(s) ==
  /\ s \in IF session = None THEN Session \ Held ELSE {session}
  /\ session' = s

\* lost(): the IPC layer forgets the renderer and the host drops its lease.
LoseSession(o) ==
  /\ session' = None
  /\ IF lease # None /\ lease.session = session
     THEN FreeSlot(o)
     ELSE NoCommit /\ UNCHANGED lease

\* A page that was destroyed, or crashed, or was replaced the moment its
\* navigation started: an idle page takes its place.
PageLost(o) ==
  /\ LoseSession(o)
  /\ run' = None
  /\ aborts' = {}
  /\ leaving' = FALSE
  /\ UNCHANGED <<completing, approving>>

\* did-start-navigation comes before the new document: until it is committed,
\* the old page runs on, and may open another session.
NavigationStarts(o) ==
  /\ NavigationWindow
  /\ ~leaving
  /\ LoseSession(o)
  /\ leaving' = TRUE
  /\ UNCHANGED <<completing, approving, run, aborts>>

NavigationFails == leaving /\ leaving' = FALSE /\ UNCHANGED <<hostVars, session, run, aborts>>

\* The old page disappears, and nothing tells the IPC layer once more.
NavigationCommits ==
  /\ leaving
  /\ leaving' = FALSE
  /\ run' = None
  /\ aborts' = {}
  /\ UNCHANGED <<hostVars, session>>

-----------------------------------------------------------------------------
(* Commands any page may issue, in one step each.                            *)

Submit(c, o, s) ==
  /\ Speak(s)
  /\ Room
  /\ memory[c] = None /\ c \notin frozen
  /\ Commit(c, [state |-> Submitted, version |-> 0, selection |-> None], o)
  /\ UNCHANGED <<lease, completing, approving, leaving, run, aborts>>

\* start: a retryable job is returned to the queue and claimed in one commit.
\* The slot is taken only once the claim is stored.
ToClaim(c) ==
  IF CanRetry(memory[c].state) THEN Retried(memory[c].state) ELSE memory[c].state

Start(c, o, s, p) ==
  /\ run = None
  /\ Speak(s)
  /\ Room
  /\ Usable(c)
  /\ memory[c].selection = None
  /\ lease = None
  /\ CanClaim(ToClaim(c))
  /\ Versionable(c)
  /\ Commit(c, Stored(c, Claimed(ToClaim(c), p)), o)
  /\ LET n == memory[c].state.attempt + 1
     IN IF o = "ok"
        THEN /\ lease' = [cell |-> c, attempt |-> n, session |-> s, late |-> FALSE,
                          timer |-> TRUE]
             /\ run' = [stage |-> "starting", cell |-> c, attempt |-> n, session |-> s,
                        aborted |-> FALSE, reason |-> "retryable"]
        ELSE UNCHANGED <<lease, run>>
  /\ UNCHANGED <<completing, approving, leaving, aborts>>

\* cancel: the lease outlives the job until the provider call settles.
Cancel(c, o, s) ==
  /\ Speak(s)
  /\ Room
  /\ Usable(c)
  /\ memory[c].selection = None
  /\ CanCancel(memory[c].state)
  /\ Versionable(c)
  /\ Commit(c, Stored(c, Cancelled(memory[c].state)), o)
  /\ AbortLease(c, o = "ok", s)
  /\ UNCHANGED <<completing, approving, leaving, run>>

\* Mutant of Decided: the selection is stored without the state it belongs to.
DecidedHalf(c, state, selection) ==
  [memory[c] EXCEPT !.selection = selection, !.version = @ + 1]

Decided(c, state, selection) ==
  [memory[c] EXCEPT !.state = state, !.selection = selection, !.version = @ + 1]

Reject(c, o, s) ==
  /\ Speak(s)
  /\ Room
  /\ Usable(c)
  /\ memory[c].selection = None
  /\ CanReject(memory[c].state)
  /\ Versionable(c)
  /\ Commit(c, Decided(c, Rejected(memory[c].state), [kind |-> "rejected", choice |-> None]), o)
  /\ UNCHANGED <<lease, completing, approving, leaving, run, aborts>>

-----------------------------------------------------------------------------
(* approve: what it read of the cell is compared once the candidate is ready.*)

BeginApprove(c, choice, s) ==
  /\ Speak(s)
  /\ Room
  /\ Usable(c)
  /\ memory[c].state.result # None
  /\ approving' = approving \cup
       {[cell |-> c, selection |-> [kind |-> "approved", choice |-> choice],
         version |-> memory[c].version]}
  /\ UNCHANGED <<disk, memory, frozen, lease, completing, leaving, run, aborts>>

\* Mutant of Approvable: only the state's own decision is looked at.
ApprovableUndecided(a) ==
  Usable(a.cell) /\ memory[a.cell].state.decision.kind = "undecided"

Approvable(a) ==
  /\ Usable(a.cell)
  /\ memory[a.cell].selection = None
  /\ memory[a.cell].version = a.version
  /\ memory[a.cell].state.decision.kind = "undecided"

\* STALE, TERMINAL, a frozen cell, an object that could not be written, or the
\* replay of a decision that was taken: nothing is committed.
EndApprove(a, o) ==
  /\ a \in approving
  /\ approving' = approving \ {a}
  /\ \/ NoCommit
     \/ /\ Approvable(a)
        /\ Versionable(a.cell)
        /\ Commit(a.cell, Decided(a.cell, memory[a.cell].state, a.selection), o)
  /\ UNCHANGED <<lease, completing, pageVars>>

-----------------------------------------------------------------------------
(* runLocalJob.                                                              *)

Listen ==
  /\ run # None /\ run.stage = "starting"
  /\ run' = [run EXCEPT !.stage = "checking"]
  /\ UNCHANGED <<hostVars, session, leaving, aborts>>

\* progress(): whether the attempt may go on.
Progress(s) == Leased(run.cell, run.attempt, s) /\ Live(run.cell, run.attempt) /\ ~Overdue

\* Mutant of AskProgress: the first answer is not looked at.
AskInVain(s) ==
  /\ run # None /\ run.stage \in {"checking", "invoking"}
  /\ Speak(s)
  /\ run' = [run EXCEPT !.stage = "invoking"]
  /\ UNCHANGED <<hostVars, leaving, aborts>>

\* The first query closes the window between the claim and the listener; later
\* ones come with the progress of the provider.
AskProgress(s) ==
  /\ run # None /\ run.stage \in {"checking", "invoking"}
  /\ Speak(s)
  /\ run' = [run EXCEPT !.stage = "invoking", !.aborted = @ \/ ~Progress(s)]
  /\ UNCHANGED <<hostVars, leaving, aborts>>

\* invokeProvider hands out a result only while the signal is not aborted.
ProviderReturns ==
  /\ run # None /\ run.stage = "invoking" /\ ~run.aborted
  /\ run' = [run EXCEPT !.stage = "returned"]
  /\ UNCHANGED <<hostVars, session, leaving, aborts>>

\* An abort or the client's timeout ends the call as retryable, a bad request
\* or artifact as permanent.
ProviderFails(reason) ==
  /\ run # None /\ run.stage = "invoking"
  /\ run' = [run EXCEPT !.stage = "failing", !.reason = reason]
  /\ UNCHANGED <<hostVars, session, leaving, aborts>>

\* complete with a result of digest d: the cell is read before the result is
\* prepared.
BeginComplete(s, d) ==
  /\ run # None /\ run.stage = "returned"
  /\ Speak(s)
  /\ IF Usable(run.cell) /\ Room
     THEN /\ completing' = completing \cup
               {[cell |-> run.cell, attempt |-> run.attempt, session |-> s,
                 digest |-> d, version |-> memory[run.cell].version]}
          /\ run' = [run EXCEPT !.stage = "completing"]
     ELSE /\ run' = [run EXCEPT !.stage = "failing"]
          /\ UNCHANGED completing
  /\ UNCHANGED <<disk, memory, frozen, lease, approving, leaving, aborts>>

\* Mutant of FailAttempt: whoever holds the slot may fail the job.
FailUnfenced(c, n, s, reason, o) ==
  IF Room /\ Leased(c, n, s) /\ Usable(c)
  THEN Commit(c, Stored(c, FailedAttempt(memory[c].state, reason)), o)
  ELSE NoCommit

\* failAttempt: the lease stays until the call has settled.
FailAttempt(c, n, s, reason, o) ==
  IF /\ Room /\ Leased(c, n, s)
     /\ Usable(c) /\ Versionable(c) /\ CanFail(memory[c].state, n)
  THEN Commit(c, Stored(c, FailedAttempt(memory[c].state, reason)), o)
  ELSE NoCommit

\* A result that is malformed or larger than submitted for: the host itself
\* fails the attempt for good before it answers.
BadResult(o, s) ==
  /\ run # None /\ run.stage = "returned"
  /\ Speak(s)
  /\ FailAttempt(run.cell, run.attempt, s, "permanent", o)
  /\ run' = [run EXCEPT !.stage = "failing"]
  /\ UNCHANGED <<lease, completing, approving, leaving, aborts>>

\* The answer to a complete call reaches the run that waits for it, if any.
Answer(k, ok) ==
  run' = IF run # None /\ run.stage = "completing"
              /\ run.cell = k.cell /\ run.attempt = k.attempt
         THEN [run EXCEPT !.stage = IF ok THEN "settling" ELSE "failing"]
         ELSE run

ResultOf(k, p) == [attempt |-> k.attempt, provider |-> p, digest |-> k.digest]

\* The version, session and attempt fence of a new completion.
Adoptable(k) ==
  /\ Leased(k.cell, k.attempt, k.session)
  /\ Live(k.cell, k.attempt)
  /\ memory[k.cell].version = k.version

\* The same result again answers before any fence or deadline; otherwise an
\* attempt past its deadline is expired, and one in time is adopted.
EndComplete(k, o) ==
  /\ k \in completing
  /\ completing' = completing \ {k}
  /\ \/ \* refused, or the objects of the result could not be written
        /\ NoCommit /\ Answer(k, FALSE) /\ UNCHANGED <<lease, aborts>>
     \/ \* not a result of the kind that was submitted for
        /\ FailAttempt(k.cell, k.attempt, k.session, "permanent", o)
        /\ Answer(k, FALSE) /\ UNCHANGED <<lease, aborts>>
     \/ /\ Usable(k.cell)
        /\ memory[k.cell].state.phase = "succeeded"
        /\ memory[k.cell].state.result.digest = k.digest
        /\ memory[k.cell].state.result.attempt = k.attempt
        /\ NoCommit /\ Answer(k, TRUE) /\ UNCHANGED <<lease, aborts>>
     \/ /\ Adoptable(k) /\ Overdue
        /\ ExpireIfRunning(o)
        /\ AbortLease(k.cell, o = "ok", session)
        /\ Answer(k, FALSE)
     \/ /\ Adoptable(k) /\ ~Overdue
        /\ LET j == memory[k.cell].state
               r == ResultOf(k, j.active.provider)
           IN /\ CanComplete(j, r)
              /\ Versionable(k.cell)
              /\ Commit(k.cell, Stored(k.cell, Completed(j, r)), o)
        /\ Answer(k, o = "ok")
        /\ UNCHANGED <<lease, aborts>>
  /\ UNCHANGED <<approving, session, leaving>>

Fail(o, s) ==
  /\ run # None /\ run.stage = "failing"
  /\ Speak(s)
  /\ FailAttempt(run.cell, run.attempt, s, run.reason, o)
  /\ run' = [run EXCEPT !.stage = "settling"]
  /\ UNCHANGED <<lease, completing, approving, leaving, aborts>>

Settle(o, s) ==
  /\ run # None /\ run.stage = "settling"
  /\ Speak(s)
  /\ IF Leased(run.cell, run.attempt, s) THEN FreeSlot(o) ELSE NoCommit /\ UNCHANGED lease
  /\ run' = None
  /\ UNCHANGED <<completing, approving, leaving, aborts>>

\* A listener takes the message of its own attempt; before and after it
\* listens, messages are lost.
DeliverAbort(m) ==
  /\ m \in aborts
  /\ aborts' = aborts \ {m}
  /\ run' = IF run # None /\ run.stage \in {"checking", "invoking"}
                 /\ run.cell = m.cell /\ run.attempt = m.attempt
            THEN [run EXCEPT !.aborted = TRUE] ELSE run
  /\ UNCHANGED <<hostVars, session, leaving>>

-----------------------------------------------------------------------------
(* The deadline and the restart.                                             *)

DeadlinePasses ==
  /\ lease # None /\ ~lease.late
  /\ lease' = [lease EXCEPT !.late = TRUE]
  /\ UNCHANGED <<disk, memory, frozen, completing, approving, pageVars>>

\* A timer that fires early is armed again; one that fires late expires the
\* attempt, and is not armed again even if the write fails.
TimerFires(o) ==
  /\ lease # None /\ lease.timer /\ Overdue
  /\ ExpireIfRunning(o)
  /\ lease' = [lease EXCEPT !.timer = FALSE]
  /\ aborts' = IF Expirable /\ o = "ok" /\ lease.session = session
               THEN aborts \cup {[cell |-> lease.cell, attempt |-> lease.attempt]}
               ELSE aborts
  /\ UNCHANGED <<completing, approving, session, leaving, run>>

\* restore: the running attempts found on disk are expired before any command;
\* f is what happens to the write of each.
Restart(f) ==
  LET found == {c \in Cell : disk[c] # None}
      ran == {c \in found : ReadableCell(disk[c]) /\ disk[c].state.phase = "running"}
      countable == {c \in ran : Countable(disk[c].state) /\ disk[c].version < CounterMax}
      expired(c) == [disk[c] EXCEPT !.state = Expired(@), !.version = @ + 1]
  IN /\ memory' = [c \in Cell |-> IF c \in countable /\ f[c] = "ok" THEN expired(c) ELSE disk[c]]
     /\ disk' = [c \in Cell |-> IF c \in countable /\ f[c] # "failed" THEN expired(c) ELSE disk[c]]
     /\ frozen' = {c \in found : \/ ~ReadableCell(disk[c])
                              \/ c \in ran \ countable
                              \/ (c \in ran /\ f[c] # "ok")}
     /\ lease' = None /\ completing' = {} /\ approving' = {}
     /\ session' = None /\ leaving' = FALSE /\ run' = None /\ aborts' = {}

-----------------------------------------------------------------------------
Init ==
  /\ disk = [c \in Cell |-> None]
  /\ memory = disk
  /\ frozen = {}
  /\ lease = None
  /\ completing = {} /\ approving = {}
  /\ session = None /\ leaving = FALSE /\ run = None /\ aborts = {}

Command(o, s) ==
  \/ \E c \in Cell : Submit(c, o, s) \/ Cancel(c, o, s) \/ Reject(c, o, s)
  \/ \E c \in Cell, p \in Provider : Start(c, o, s, p)
  \/ \E c \in Cell, choice \in Choice : BeginApprove(c, choice, s)

RunStep(o, s) ==
  \/ Listen \/ AskProgress(s) \/ BadResult(o, s)
  \/ \E d \in Digest : BeginComplete(s, d)
  \/ Fail(o, s) \/ Settle(o, s)

Next ==
  \/ \E o \in WriteOutcome :
       \/ \E s \in Session : Command(o, s) \/ RunStep(o, s)
       \/ \E a \in approving : EndApprove(a, o)
       \/ \E k \in completing : EndComplete(k, o)
       \/ TimerFires(o) \/ PageLost(o) \/ NavigationStarts(o)
  \/ \E reason \in {"retryable", "permanent"} : ProviderFails(reason)
  \/ \E m \in aborts : DeliverAbort(m)
  \/ ProviderReturns \/ DeadlinePasses \/ NavigationFails \/ NavigationCommits
  \/ \E f \in [Cell -> WriteOutcome] : Restart(f)

Spec == Init /\ [][Next]_vars

\* The event loop, the timer and the page run on; the provider call ends because
\* the ComfyUI client gives it up after 120 s.  Nothing makes a user act, a page
\* go away, a message arrive or the process restart.
Fairness ==
  /\ WF_vars(DeadlinePasses)
  /\ WF_vars(\E o \in WriteOutcome : TimerFires(o))
  /\ WF_vars(\E o \in WriteOutcome, s \in Session : RunStep(o, s))
  /\ WF_vars(\E reason \in {"retryable", "permanent"} : ProviderFails(reason))
  /\ WF_vars(\E k \in completing, o \in WriteOutcome : EndComplete(k, o))

FairSpec == Spec /\ Fairness

-----------------------------------------------------------------------------
(* Safety.                                                                   *)

\* Every variable keeps its type; commands in progress keep to their bound.
TypeOK ==
  /\ disk \in [Cell -> JobCell \cup {None}]
  /\ memory \in [Cell -> JobCell \cup {None}]
  /\ frozen \subseteq Cell
  /\ lease \in Lease \cup {None}
  /\ completing \subseteq CompleteCall
  /\ approving \subseteq ApproveCall
  /\ Cardinality(completing) + Cardinality(approving) <= MaxPending
  /\ session \in Session \cup {None}
  /\ leaving \in BOOLEAN
  /\ run \in Run \cup {None}
  /\ aborts \subseteq Abort

\* Every cell file the host can leave behind, whatever write failed and wherever
\* it stopped, passes checkCell when it is read back.
CellsRestorable == \A c \in Cell : disk[c] # None => ReadableCell(disk[c])

\* A cell that is not frozen is on disk as the host has it in memory: current()
\* finds no difference, and a command works on what a restart would find.
CacheCoherent == \A c \in Cell \ frozen : memory[c] = disk[c]

Running(c) == memory[c] # None /\ memory[c].state.phase = "running"

\* A running job has somebody who can end it: it holds the physical slot, with a
\* timer armed for its attempt.  Only a failed write, which freezes the cell,
\* leaves a job running without one.
RunningIsLeased ==
  \A c \in Cell \ frozen :
    Running(c) =>
      /\ lease # None
      /\ lease.cell = c
      /\ lease.attempt = memory[c].state.attempt
      /\ lease.timer

\* The slot is kept for as long as the provider may still be working for the
\* page that started it, cancelled and expired attempts included: "its slot is
\* retained until actual settlement or renderer loss".
SlotCoversInvocation ==
  run # None /\ run.session = session => Leased(run.cell, run.attempt, run.session)

\* An attempt that ended under a provider call that goes on is not forgotten:
\* an abort is on its way, unless the write that ended it froze the cell.
AbortNotLost ==
  run # None /\ run.stage = "invoking" /\ ~run.aborted
    /\ run.session = session /\ run.cell \notin frozen
    /\ ~Live(run.cell, run.attempt)
    => [cell |-> run.cell, attempt |-> run.attempt] \in aborts

Succeeded(d, c) == d[c] # None /\ d[c].state.phase = "succeeded"

\* A result is adopted only from the call that holds the slot, before its
\* deadline, and on the very commit that was current when the call came in:
\* no cancelled, expired, restarted or superseded attempt wins late.
AdoptionIsFenced ==
  [][\A c \in Cell : ~Succeeded(disk, c) /\ Succeeded(disk', c) =>
       /\ lease # None /\ ~lease.late
       /\ \E k \in completing \ completing' :
            /\ k.cell = c /\ Leased(c, k.attempt, k.session)
            /\ k.version = disk[c].version
            /\ disk'[c].state.result.digest = k.digest]_vars

\* A decision once stored is never replaced, nor the result it was taken on,
\* whichever of two approvals or rejections was prepared first.
DecisionStands ==
  [][\A c \in Cell : disk[c] # None /\ disk[c].selection # None =>
       /\ disk'[c].selection = disk[c].selection
       /\ disk'[c].state = disk[c].state]_vars

JobOf(c) == IF disk[c] = None THEN Submitted ELSE disk[c].state

VerdictOf(c) ==
  IF disk[c] # None /\ disk[c].selection # None
  THEN IF disk[c].selection.kind = "approved" THEN "accepted" ELSE "rejected"
  ELSE "undecided"

Contract(c) == INSTANCE JobContract
                 WITH status <- StatusOf(JobOf(c)), attempt <- JobOf(c).attempt,
                      outcome <- OutcomeOf(JobOf(c)), verdict <- VerdictOf(c)

\* What the disk holds of each job keeps the promise of JobContract through
\* failed writes, lost pages and restarts.
HonoursContract ==
  /\ \A c \in Cell : Contract(c)!Init
  /\ [][\A c \in Cell : [Contract(c)!Next]_(Contract(c)!vars)]_vars

-----------------------------------------------------------------------------
(* Liveness.                                                                 *)

\* A job that runs stops running, or its cell freezes.
RunningEnds == \A c \in Cell : Running(c) ~> (c \in frozen \/ ~Running(c))

\* The physical slot does not stay taken for ever: it is "retained until actual
\* settlement or renderer loss", and one of the two comes.
SlotFreed == lease # None ~> lease = None
=============================================================================
