---------------------------- MODULE JobHost_proofs ----------------------------
(* What holds of the host and its jobs for any number of jobs, sessions and  *)
(* attempts, whatever writes fail and whenever pages and processes go away.  *)
EXTENDS JobHost, FiniteSetTheorems, TLAPS

USE MaxAttemptsAssumption, CounterMaxAssumption, HostAssumption

-----------------------------------------------------------------------------
(* What the commands the host gives do to a sound job: one lemma per command. *)
(* A retried job is claimable only because a retryable one has attempts left: *)
(* each part of Sound leans on readability.                                   *)

Sound(j) ==
  /\ j \in Job
  /\ Restorable(j)
  /\ j.phase = "queued" => j.attempt < MaxAttempts

LEMMA SubmittedSound == Sound(Submitted)
BY NoneAssumption DEF Sound, Submitted, Undecided, Job, Phase, Decision, Restorable

\* A counted change leaves a counter that is not full one higher.
LEMMA CountingStaysInRange ==
  ASSUME NEW j \in Job, Countable(j)
  PROVE  j.stateVersion + 1 \in 0..CounterMax
BY DEF Job, Countable

LEMMA ClaimedSound ==
  ASSUME NEW j, Sound(j), NEW p \in Provider, CanClaim(j)
  PROVE  Sound(Claimed(j, p))
<1> USE DEF Sound, CanClaim, Claimed, Bump
<1>1. /\ j.stateVersion + 1 \in 0..CounterMax
      /\ j.attempt + 1 \in 0..MaxAttempts
      /\ [provider |-> p, renewal |-> 0] \in Active
  BY CountingStaysInRange DEF Job, Active
<1>2. Claimed(j, p) \in Job
  BY <1>1 DEF Job, Phase
<1>3. Restorable(Claimed(j, p))
  BY <1>1, NoneAssumption DEF Job, Phase, Restorable
<1>4. QED
  BY <1>2, <1>3 DEF Job

LEMMA ExpiredSound ==
  ASSUME NEW j, Sound(j), NEW n, NEW renewal, CanExpire(j, n, renewal)
  PROVE  Sound(Expired(j))
<1> USE DEF Sound, CanExpire, Expired, RunningAttempt, Bump
<1>1. Expired(j) \in Job
  BY CountingStaysInRange DEF Job, Phase
<1>2. Restorable(Expired(j))
  BY DEF Job, Restorable
<1>3. QED
  BY <1>1, <1>2 DEF Job

LEMMA FailedSound ==
  ASSUME NEW j, Sound(j), NEW n, NEW reason \in {"retryable", "permanent"}, CanFail(j, n)
  PROVE  Sound(FailedAttempt(j, reason))
<1> USE DEF Sound, CanFail, FailedAttempt, RunningAttempt, Bump
<1>1. FailedAttempt(j, reason) \in Job
  BY CountingStaysInRange DEF Job, Phase
<1>2. Restorable(FailedAttempt(j, reason))
  BY DEF Job, Restorable
<1>3. QED
  BY <1>1, <1>2 DEF Job

LEMMA CompletedSound ==
  ASSUME NEW j, Sound(j), NEW r \in Result, CanComplete(j, r)
  PROVE  Sound(Completed(j, r))
<1> USE DEF Sound, CanComplete, Completed, RunningAttempt, Bump
<1>1. Completed(j, r) \in Job
  BY CountingStaysInRange DEF Job, Phase
<1>2. Restorable(Completed(j, r))
  BY NoneAssumption DEF Job, Restorable
<1>3. QED
  BY <1>1, <1>2 DEF Job

LEMMA RejectedSound ==
  ASSUME NEW j, Sound(j), CanReject(j)
  PROVE  Sound(Rejected(j))
<1> USE DEF Sound, CanReject, Rejected, Bump
<1>1. Rejected(j) \in Job
  BY CountingStaysInRange DEF Job, Decision
<1>2. Restorable(Rejected(j))
  BY DEF Job, Restorable
<1>3. QED
  BY <1>1, <1>2 DEF Job

LEMMA RetriedSound ==
  ASSUME NEW j, Sound(j), CanRetry(j)
  PROVE  Sound(Retried(j))
<1> USE DEF Sound, CanRetry, Retried, Bump
<1>1. Retried(j) \in Job
  BY CountingStaysInRange DEF Job, Phase
<1>2. Restorable(Retried(j))
  BY DEF Job, Restorable
<1>3. QED
  BY <1>1, <1>2 DEF Job, Restorable

LEMMA CancelledSound ==
  ASSUME NEW j, Sound(j), CanCancel(j)
  PROVE  Sound(Cancelled(j))
<1> USE DEF Sound, CanCancel, Cancelled, Bump, TerminalPhase
<1>1. Cancelled(j) \in Job
  BY CountingStaysInRange DEF Job, Phase
<1>2. Restorable(Cancelled(j))
  BY DEF Job, Restorable
<1>3. QED
  BY <1>1, <1>2 DEF Job

-----------------------------------------------------------------------------
(* How far a job has counted.  An attempt is claimed, ended and retried: at  *)
(* most three counts each, so that a running attempt can always be expired.  *)

Counted(j) ==
  /\ j.phase = "queued" => j.stateVersion <= 3 * j.attempt
  /\ j.phase = "running" => j.stateVersion <= 3 * j.attempt - 2
  /\ j.phase = "retryable" => j.stateVersion <= 3 * j.attempt - 1

\* What JobContract sees of a job's way from j to k: nothing, the begin of an
\* attempt, its end with or without an outcome, or a cancellation.
SeenAlike(j, k) ==
  StatusOf(k) = StatusOf(j) /\ k.attempt = j.attempt /\ OutcomeOf(k) = OutcomeOf(j)

Begins(j, k) ==
  /\ StatusOf(j) = "waiting" /\ StatusOf(k) = "running"
  /\ j.attempt < MaxAttempts /\ k.attempt = j.attempt + 1
  /\ OutcomeOf(k) = OutcomeOf(j)

GivesBack(j, k) ==
  /\ StatusOf(j) = "running" /\ StatusOf(k) = "waiting"
  /\ j.attempt < MaxAttempts /\ k.attempt = j.attempt
  /\ OutcomeOf(k) = OutcomeOf(j)

Finishes(j, k) ==
  /\ StatusOf(k) = "over" /\ k.attempt = j.attempt /\ OutcomeOf(k) \in Outcome
  /\ \/ /\ StatusOf(j) = "running"
        /\ OutcomeOf(k).kind = "succeeded" => OutcomeOf(k).result.attempt = j.attempt
        /\ OutcomeOf(k).kind = "exhausted" => j.attempt = MaxAttempts
     \/ StatusOf(j) # "over" /\ OutcomeOf(k).kind = "cancelled"

Follows(j, k) == SeenAlike(j, k) \/ Begins(j, k) \/ GivesBack(j, k) \/ Finishes(j, k)

\* k follows j by one or more commands that end nothing decided.
Advances(j, k) ==
  /\ Sound(k) /\ Counted(k)
  /\ Follows(j, k)
  /\ j.phase \notin TerminalPhase
  /\ k.decision = j.decision
  /\ k.stateVersion > j.stateVersion

LEMMA ClaimAdvances ==
  ASSUME NEW j, Sound(j), Counted(j), NEW p \in Provider, CanClaim(j)
  PROVE  Advances(j, Claimed(j, p)) /\ Claimed(j, p).phase = "running"
<1>1. Sound(Claimed(j, p))
  BY ClaimedSound
<1>2. /\ Claimed(j, p).phase = "running"
      /\ Claimed(j, p).attempt = j.attempt + 1
      /\ Claimed(j, p).decision = j.decision
      /\ Claimed(j, p).stateVersion = j.stateVersion + 1
  BY DEF Sound, Claimed, Bump, Job
<1>3. Begins(j, Claimed(j, p))
  BY <1>2 DEF Begins, StatusOf, OutcomeOf, CanClaim, TerminalPhase
<1>4. QED
  BY <1>1, <1>2, <1>3 DEF Advances, Follows, Counted, Sound, CanClaim, Job, TerminalPhase

LEMMA ExpiryAdvances ==
  ASSUME NEW j, Sound(j), Counted(j), NEW n, NEW renewal, CanExpire(j, n, renewal)
  PROVE  Advances(j, Expired(j)) /\ Expired(j).phase \in {"retryable", "failed"}
<1>1. Sound(Expired(j))
  BY ExpiredSound
<1>2. /\ Expired(j).phase \in {"retryable", "failed"}
      /\ Expired(j).attempt = j.attempt
      /\ Expired(j).decision = j.decision
      /\ Expired(j).stateVersion = j.stateVersion + 1
  BY DEF Sound, Expired, Bump, Job
<1>3. Follows(j, Expired(j))
  <2>1. CASE j.attempt < MaxAttempts
    <3>1. Expired(j).phase = "retryable"
      BY <2>1 DEF Sound, Expired, Bump, Job
    <3>2. GivesBack(j, Expired(j))
      BY <1>2, <2>1, <3>1
         DEF GivesBack, StatusOf, OutcomeOf, CanExpire, RunningAttempt, TerminalPhase
    <3>3. QED
      BY <3>2 DEF Follows
  <2>2. CASE ~(j.attempt < MaxAttempts)
    <3>1. Expired(j).phase = "failed" /\ Expired(j).failure = "exhausted"
      BY <2>2 DEF Sound, Expired, Bump, Job
    <3>2. OutcomeOf(Expired(j)) = [kind |-> "exhausted", result |-> None]
      BY <3>1 DEF OutcomeOf
    <3>3. j.attempt = MaxAttempts /\ [kind |-> "exhausted", result |-> None] \in Outcome
      BY <2>2 DEF Sound, Job, Outcome
    <3>4. StatusOf(j) = "running" /\ StatusOf(Expired(j)) = "over"
      BY <3>1 DEF StatusOf, CanExpire, RunningAttempt, TerminalPhase
    <3>5. Finishes(j, Expired(j))
      BY <1>2, <3>2, <3>3, <3>4 DEF Finishes
    <3>6. QED
      BY <3>5 DEF Follows
  <2>3. QED
    BY <2>1, <2>2
<1>4. QED
  BY <1>1, <1>2, <1>3
     DEF Advances, Counted, Sound, CanExpire, RunningAttempt, Job, TerminalPhase

LEMMA FailureAdvances ==
  ASSUME NEW j, Sound(j), Counted(j), NEW n, CanFail(j, n),
         NEW reason \in {"retryable", "permanent"}
  PROVE  /\ Advances(j, FailedAttempt(j, reason))
         /\ FailedAttempt(j, reason).phase \in {"retryable", "failed"}
<1>1. Sound(FailedAttempt(j, reason))
  BY FailedSound
<1>2. /\ FailedAttempt(j, reason).phase \in {"retryable", "failed"}
      /\ FailedAttempt(j, reason).attempt = j.attempt
      /\ FailedAttempt(j, reason).decision = j.decision
      /\ FailedAttempt(j, reason).stateVersion = j.stateVersion + 1
  BY DEF Sound, FailedAttempt, Bump, Job
<1>3. Follows(j, FailedAttempt(j, reason))
  <2> DEFINE k == FailedAttempt(j, reason)
  <2>1. CASE reason = "retryable" /\ j.attempt < MaxAttempts
    <3>1. k.phase = "retryable"
      BY <2>1 DEF Sound, FailedAttempt, Bump, Job
    <3> HIDE DEF k
    <3>2. GivesBack(j, k)
      BY <1>2, <2>1, <3>1
         DEF GivesBack, StatusOf, OutcomeOf, CanFail, RunningAttempt, TerminalPhase, k
    <3>3. QED
      BY <3>2 DEF Follows, k
  <2>2. CASE ~(reason = "retryable" /\ j.attempt < MaxAttempts)
    <3> DEFINE kind == IF reason = "permanent" THEN "permanent" ELSE "exhausted"
    <3>1. k.phase = "failed" /\ k.failure = kind
      BY <2>2 DEF Sound, FailedAttempt, Bump, Job
    <3>2. OutcomeOf(k) = [kind |-> kind, result |-> None]
      BY <3>1 DEF OutcomeOf
    <3>3. /\ kind = "exhausted" => j.attempt = MaxAttempts
          /\ kind # "succeeded" /\ [kind |-> kind, result |-> None] \in Outcome
      BY <2>2 DEF Sound, Job, Outcome
    <3>4. StatusOf(j) = "running" /\ StatusOf(k) = "over" /\ k.attempt = j.attempt
      BY <1>2, <3>1 DEF StatusOf, CanFail, RunningAttempt, TerminalPhase
    <3> HIDE DEF k, kind
    <3>5. Finishes(j, k)
      BY <3>2, <3>3, <3>4 DEF Finishes
    <3>6. QED
      BY <3>5 DEF Follows, k
  <2>3. QED
    BY <2>1, <2>2
<1>4. QED
  BY <1>1, <1>2, <1>3
     DEF Advances, Counted, Sound, CanFail, RunningAttempt, Job, TerminalPhase

LEMMA CompletionAdvances ==
  ASSUME NEW j, Sound(j), Counted(j), NEW r \in Result, CanComplete(j, r)
  PROVE  Advances(j, Completed(j, r)) /\ Completed(j, r).phase = "succeeded"
<1>1. Sound(Completed(j, r))
  BY CompletedSound
<1>2. /\ Completed(j, r).phase = "succeeded"
      /\ Completed(j, r).decision = j.decision
      /\ Completed(j, r).stateVersion = j.stateVersion + 1
      /\ Completed(j, r).attempt = j.attempt
      /\ Completed(j, r).result = r
  BY DEF Sound, Completed, Bump, Job
<1>3. Follows(j, Completed(j, r))
  <2>1. OutcomeOf(Completed(j, r)) = [kind |-> "succeeded", result |-> r]
    BY <1>2 DEF OutcomeOf
  <2>2. [kind |-> "succeeded", result |-> r] \in Outcome /\ r.attempt = j.attempt
    BY DEF Outcome, CanComplete, RunningAttempt
  <2>3. StatusOf(j) = "running" /\ StatusOf(Completed(j, r)) = "over"
    BY <1>2 DEF StatusOf, CanComplete, RunningAttempt, TerminalPhase
  <2>4. Finishes(j, Completed(j, r))
    BY <1>2, <2>1, <2>2, <2>3 DEF Finishes
  <2>5. QED
    BY <2>4 DEF Follows
<1>4. QED
  BY <1>1, <1>2, <1>3
     DEF Advances, Counted, Sound, CanComplete, RunningAttempt, Job, TerminalPhase

LEMMA RetryAdvances ==
  ASSUME NEW j, Sound(j), Counted(j), CanRetry(j)
  PROVE  Advances(j, Retried(j)) /\ SeenAlike(j, Retried(j))
<1>1. Sound(Retried(j))
  BY RetriedSound
<1>2. /\ Retried(j).phase = "queued"
      /\ Retried(j).attempt = j.attempt
      /\ Retried(j).decision = j.decision
      /\ Retried(j).stateVersion = j.stateVersion + 1
  BY DEF Sound, Retried, Bump, Job
<1>3. SeenAlike(j, Retried(j))
  BY <1>2 DEF SeenAlike, StatusOf, OutcomeOf, CanRetry, TerminalPhase
<1>4. QED
  BY <1>1, <1>2, <1>3 DEF Advances, Follows, Counted, Sound, CanRetry, Job, TerminalPhase

LEMMA CancelAdvances ==
  ASSUME NEW j, Sound(j), Counted(j), CanCancel(j)
  PROVE  Advances(j, Cancelled(j)) /\ Cancelled(j).phase = "cancelled"
<1>1. Sound(Cancelled(j))
  BY CancelledSound
<1>2. /\ Cancelled(j).phase = "cancelled"
      /\ Cancelled(j).decision = j.decision
      /\ Cancelled(j).stateVersion = j.stateVersion + 1
      /\ Cancelled(j).attempt = j.attempt
  BY DEF Sound, Cancelled, Bump, Job
<1>3. Follows(j, Cancelled(j))
  <2>1. OutcomeOf(Cancelled(j)) = [kind |-> "cancelled", result |-> None]
    BY <1>2 DEF OutcomeOf
  <2>2. [kind |-> "cancelled", result |-> None] \in Outcome
    BY DEF Outcome
  <2>3. StatusOf(j) # "over" /\ StatusOf(Cancelled(j)) = "over"
    BY <1>2 DEF StatusOf, CanCancel, TerminalPhase
  <2>4. Finishes(j, Cancelled(j))
    BY <1>2, <2>1, <2>2, <2>3 DEF Finishes
  <2>5. QED
    BY <2>4 DEF Follows
<1>4. QED
  BY <1>1, <1>2, <1>3 DEF Advances, Counted, Sound, CanCancel, Job

LEMMA FollowsLater ==
  ASSUME NEW j, NEW k, j.attempt \in Nat, Follows(j, k)
  PROVE  k.attempt >= j.attempt
BY DEF Follows, SeenAlike, Begins, GivesBack, Finishes

LEMMA FollowsAlike ==
  ASSUME NEW i, NEW j, NEW k, SeenAlike(i, j), Follows(j, k)
  PROVE  Follows(i, k)
<1>1. /\ StatusOf(j) = StatusOf(i) /\ j.attempt = i.attempt /\ OutcomeOf(j) = OutcomeOf(i)
  BY DEF SeenAlike
<1>2. QED
  BY <1>1 DEF Follows, SeenAlike, Begins, GivesBack, Finishes

\* A running attempt has counted too little for the bound to stop its expiry.
LEMMA RunningCountable ==
  ASSUME NEW j, Sound(j), Counted(j), j.phase = "running"
  PROVE  j.stateVersion < CounterMax /\ CanExpire(j, j.attempt, j.active.renewal)
<1>1. j.attempt \in 1..MaxAttempts /\ j.stateVersion \in Nat
  BY DEF Sound, Job, Restorable
<1>2. j.stateVersion < CounterMax
  BY <1>1 DEF Counted
<1>3. QED
  BY <1>2 DEF CanExpire, RunningAttempt, Countable

-----------------------------------------------------------------------------
(* Cells: what a cell file holds, and how one commit moves them.             *)

GoodCell(x) ==
  /\ x \in JobCell
  /\ Sound(x.state)
  /\ ReadableCell(x)
  /\ Counted(x.state)
  /\ x.state.phase \notin TerminalPhase => x.version <= x.state.stateVersion

\* y follows x: its job moved on undecided, or its success was decided on.
CellFollows(x, y) ==
  /\ x.selection = None
  /\ \/ y.selection = None /\ Follows(x.state, y.state)
     \/ /\ y.selection \in Selection
        /\ x.state.phase = "succeeded"
        /\ SeenAlike(x.state, y.state)

LEMMA MovedGood ==
  ASSUME NEW x, GoodCell(x), x.version < CounterMax, NEW k, Advances(x.state, k)
  PROVE  /\ GoodCell([x EXCEPT !.state = k, !.version = @ + 1])
         /\ [x EXCEPT !.state = k, !.version = @ + 1].version = x.version + 1
         /\ [x EXCEPT !.state = k, !.version = @ + 1].state = k
         /\ CellFollows(x, [x EXCEPT !.state = k, !.version = @ + 1])
<1> DEFINE y == [x EXCEPT !.state = k, !.version = @ + 1]
<1>1. x \in JobCell /\ x.version \in Nat
  BY DEF GoodCell, JobCell
<1>2. /\ y.state = k
      /\ y.version = x.version + 1
      /\ y.selection = x.selection
  BY <1>1 DEF JobCell
<1>3. y \in JobCell
  <2>1. k \in Job /\ x.version + 1 \in 0..CounterMax
    BY <1>1 DEF Advances, Sound, JobCell
  <2>2. QED
    BY <1>1, <2>1 DEF JobCell
<1>4. x.selection = None /\ x.state.decision.kind = "undecided"
  BY DEF GoodCell, ReadableCell, Advances, TerminalPhase
<1> HIDE DEF y
<1>5. ReadableCell(y)
  BY <1>2, <1>4 DEF ReadableCell, Advances, Sound
<1>6. k.stateVersion \in Nat /\ x.state.stateVersion \in Nat
  BY <1>1 DEF Advances, Sound, Job, JobCell
<1>7. y.version <= k.stateVersion
  BY <1>1, <1>2, <1>6 DEF GoodCell, Advances
<1>8. Sound(k) /\ Counted(k)
  BY DEF Advances
<1>9. GoodCell(y)
  BY <1>2, <1>3, <1>5, <1>7, <1>8 DEF GoodCell
<1>10. CellFollows(x, y)
  BY <1>2, <1>4 DEF CellFollows, Advances
<1>11. QED
  BY <1>2, <1>9, <1>10 DEF y

LEMMA StoredGood ==
  ASSUME NEW c \in Cell, GoodCell(memory[c]), Versionable(c),
         NEW k, Advances(memory[c].state, k)
  PROVE  /\ GoodCell(Stored(c, k))
         /\ Stored(c, k).version = memory[c].version + 1
         /\ Stored(c, k).state = k
         /\ CellFollows(memory[c], Stored(c, k))
BY MovedGood DEF Stored, Versionable

LEMMA ApprovedGood ==
  ASSUME NEW c \in Cell, GoodCell(memory[c]), Versionable(c),
         memory[c].selection = None, memory[c].state.phase = "succeeded",
         NEW selection \in Selection, selection.kind = "approved"
  PROVE  /\ GoodCell(Decided(c, memory[c].state, selection))
         /\ Decided(c, memory[c].state, selection).version = memory[c].version + 1
         /\ Decided(c, memory[c].state, selection).state = memory[c].state
         /\ CellFollows(memory[c], Decided(c, memory[c].state, selection))
<1> DEFINE x == memory[c]
           y == Decided(c, memory[c].state, selection)
<1>1. /\ x \in JobCell
      /\ x.version + 1 \in 0..CounterMax
      /\ Sound(x.state) /\ Counted(x.state)
      /\ x.state.decision.kind = "undecided"
      /\ Restorable(x.state)
  BY DEF GoodCell, JobCell, Versionable, ReadableCell
<1>2. /\ y.state = x.state
      /\ y.version = x.version + 1
      /\ y.selection = selection
  BY <1>1 DEF Decided, JobCell
<1>3. y \in JobCell
  BY <1>1 DEF Decided, JobCell
<1>4. ReadableCell(y)
  <2>1. selection # None
    BY HostNoneAssumption
  <2>2. QED
    BY <1>1, <1>2, <2>1 DEF ReadableCell
<1> HIDE DEF y
<1>5. GoodCell(y)
  BY <1>1, <1>2, <1>3, <1>4 DEF GoodCell, TerminalPhase
<1>6. CellFollows(memory[c], y)
  BY <1>2 DEF CellFollows, SeenAlike
<1>7. QED
  BY <1>2, <1>5, <1>6 DEF y

Refusal == [kind |-> "rejected", choice |-> None]

LEMMA RejectedGood ==
  ASSUME NEW c \in Cell, GoodCell(memory[c]), Versionable(c), CanReject(memory[c].state),
         memory[c].selection = None
  PROVE  /\ GoodCell(Decided(c, Rejected(memory[c].state), Refusal))
         /\ Decided(c, Rejected(memory[c].state), Refusal).version = memory[c].version + 1
         /\ Decided(c, Rejected(memory[c].state), Refusal).state.phase = "succeeded"
         /\ CellFollows(memory[c], Decided(c, Rejected(memory[c].state), Refusal))
<1> DEFINE x == memory[c]
           k == Rejected(memory[c].state)
           y == Decided(c, Rejected(memory[c].state), Refusal)
<1>1. /\ x \in JobCell
      /\ x.version + 1 \in 0..CounterMax
      /\ Sound(x.state)
      /\ x.state \in Job
  BY DEF GoodCell, JobCell, Versionable, Sound
<1>2. /\ Sound(k) /\ k \in Job /\ k.phase = "succeeded" /\ k.decision.kind = "rejected"
      /\ SeenAlike(x.state, k)
  <2>1. Sound(k)
    BY <1>1, RejectedSound
  <2>2. /\ k.phase = "succeeded" /\ k.decision.kind = "rejected"
        /\ k.attempt = x.state.attempt /\ k.result = x.state.result
    BY <1>1 DEF Rejected, Bump, Job, CanReject
  <2>3. SeenAlike(x.state, k)
    BY <2>2 DEF SeenAlike, StatusOf, OutcomeOf, CanReject, TerminalPhase
  <2>4. QED
    BY <2>1, <2>2, <2>3 DEF Sound
<1> HIDE DEF k
<1>3. /\ y.state = k
      /\ y.version = x.version + 1
      /\ y.selection = Refusal
  BY <1>1, <1>2 DEF Decided, JobCell, k
<1>4. y \in JobCell /\ Refusal \in Selection
  <2>1. Refusal \in Selection
    BY DEF Refusal, Selection
  <2>2. QED
    BY <1>1, <1>2, <2>1 DEF Decided, JobCell, k
<1>5. ReadableCell(y)
  <2>1. Refusal # None /\ Refusal.kind = "rejected"
    BY HostNoneAssumption DEF Refusal, Selection
  <2>2. QED
    BY <1>2, <1>3, <2>1 DEF ReadableCell, Sound
<1> HIDE DEF y
<1>6. GoodCell(y)
  BY <1>2, <1>3, <1>4, <1>5 DEF GoodCell, Counted, TerminalPhase
<1>7. CellFollows(x, y)
  BY <1>2, <1>3, <1>4 DEF CellFollows, CanReject
<1>8. QED
  BY <1>2, <1>3, <1>6, <1>7 DEF y, k

-----------------------------------------------------------------------------
(* The cells of the host, and the approvals that wait for their candidate.   *)

HostCells ==
  /\ disk \in [Cell -> JobCell \cup {None}]
  /\ memory \in [Cell -> JobCell \cup {None}]
  /\ frozen \subseteq Cell
  /\ \A c \in Cell : disk[c] # None => GoodCell(disk[c])
  /\ \A c \in Cell : memory[c] # None => GoodCell(memory[c])
  /\ CacheCoherent

\* A cell only moves on from the version an approval has read; on that version
\* it still has the result the approval is about.
Approvals ==
  /\ approving \subseteq ApproveCall
  /\ \A a \in approving :
       /\ a.selection.kind = "approved"
       /\ memory[a.cell] # None
       /\ a.version <= memory[a.cell].version
       /\ a.version = memory[a.cell].version => memory[a.cell].state.phase = "succeeded"

\* The result of a cell is that of the call that holds the slot in time.
Fenced(c, new) ==
  /\ lease # None /\ ~lease.late
  /\ \E m \in completing \ completing' :
       /\ m.cell = c /\ Leased(c, m.attempt, m.session)
       /\ m.version = memory[c].version
       /\ new.state.result.digest = m.digest

CellsMove ==
  \/ NoCommit
  \/ \E c \in Cell, new \in JobCell, o \in WriteOutcome :
       /\ c \notin frozen
       /\ GoodCell(new)
       /\ IF memory[c] = None
          THEN new.state = Submitted /\ new.selection = None
          ELSE CellFollows(memory[c], new) /\ new.version = memory[c].version + 1
       /\ new.state.phase = "running" /\ o = "ok" =>
            /\ lease' # None
            /\ lease'.cell = c
            /\ lease'.attempt = new.state.attempt
            /\ lease'.timer
       /\ new.state.phase = "succeeded" =>
            /\ memory[c] # None
            /\ memory[c].state.phase = "succeeded" \/ Fenced(c, new)
       /\ Commit(c, new, o)

Stopped(c) == memory'[c] = None \/ memory'[c].state.phase # "running"

\* A slot that is given up, or whose timer stops, leaves no job running.
SlotMoves ==
  lease # None =>
    \/ /\ lease' # None
       /\ lease'.cell = lease.cell
       /\ lease'.attempt = lease.attempt
       /\ lease'.timer = lease.timer
    \/ lease.cell \in frozen'
    \/ Stopped(lease.cell)

LEMMA MoveKeepsCells ==
  ASSUME HostCells, CellsMove
  PROVE  HostCells'
<1>1. CASE NoCommit
  BY <1>1 DEF HostCells, NoCommit, CacheCoherent
<1>2. CASE \E c \in Cell, new \in JobCell, o \in WriteOutcome :
             GoodCell(new) /\ Commit(c, new, o)
  <2>1. PICK c \in Cell, new \in JobCell, o \in WriteOutcome :
               GoodCell(new) /\ Commit(c, new, o)
    BY <1>2
  <2>2. /\ disk' \in [Cell -> JobCell \cup {None}]
        /\ memory' \in [Cell -> JobCell \cup {None}]
        /\ frozen' \subseteq Cell
    BY <2>1 DEF HostCells, Commit
  <2>3. \A d \in Cell : disk'[d] # None => GoodCell(disk'[d])
    BY <2>1 DEF HostCells, Commit
  <2>4. \A d \in Cell : memory'[d] # None => GoodCell(memory'[d])
    BY <2>1 DEF HostCells, Commit
  <2>5. CacheCoherent'
    BY <2>1 DEF HostCells, Commit, CacheCoherent, WriteOutcome
  <2>6. QED
    BY <2>2, <2>3, <2>4, <2>5 DEF HostCells
<1>3. QED
  BY <1>1, <1>2 DEF CellsMove

LEMMA MoveKeepsApprovals ==
  ASSUME HostCells, Approvals, CellsMove, approving' \subseteq approving
  PROVE  Approvals'
<1>1. CASE NoCommit
  BY <1>1 DEF Approvals, NoCommit
<1>2. ASSUME NEW c \in Cell, NEW new \in JobCell, NEW o \in WriteOutcome,
             memory[c] # None => new.version = memory[c].version + 1,
             Commit(c, new, o)
      PROVE  Approvals'
  <2> SUFFICES ASSUME NEW a \in approving
               PROVE  /\ memory'[a.cell] # None
                      /\ a.version <= memory'[a.cell].version
                      /\ a.version = memory'[a.cell].version
                           => memory'[a.cell].state.phase = "succeeded"
    BY DEF Approvals
  <2>1. a \in ApproveCall /\ a.cell \in Cell /\ a.version \in Nat
    BY DEF Approvals, ApproveCall
  <2>2. CASE memory'[a.cell] = memory[a.cell]
    BY <2>2 DEF Approvals
  <2>3. CASE memory'[a.cell] # memory[a.cell]
    <3>1. a.cell = c /\ memory'[c] = new
      BY <1>2, <2>1, <2>3 DEF Commit, HostCells
    <3>2. /\ new # None
          /\ memory[c] \in JobCell
          /\ new.version = memory[c].version + 1
          /\ memory[c].version \in Nat
          /\ a.version <= memory[c].version
      BY <1>2, <3>1, HostNoneAssumption DEF Approvals, HostCells, JobCell
    <3>3. QED
      BY <2>1, <3>1, <3>2
  <2>4. QED
    BY <2>2, <2>3
<1>3. QED
  BY <1>1, <1>2 DEF CellsMove

LEMMA MoveKeepsLeased ==
  ASSUME HostCells, RunningIsLeased, CellsMove, SlotMoves
  PROVE  RunningIsLeased'
<1> SUFFICES ASSUME NEW d \in Cell, d \notin frozen', Running(d)'
             PROVE  /\ lease' # None
                    /\ lease'.cell = d
                    /\ lease'.attempt = memory'[d].state.attempt
                    /\ lease'.timer
  BY DEF RunningIsLeased, Running
<1>1. CASE memory'[d] = memory[d] /\ d \notin frozen
  <2>1. /\ lease # None
        /\ lease.cell = d
        /\ lease.attempt = memory[d].state.attempt
        /\ lease.timer
    BY <1>1 DEF RunningIsLeased, Running
  <2>2. QED
    BY <1>1, <2>1 DEF SlotMoves, Stopped, Running
<1>2. ASSUME NEW c \in Cell, NEW new \in JobCell, NEW o \in WriteOutcome,
             Commit(c, new, o),
             new.state.phase = "running" /\ o = "ok" =>
                /\ lease' # None
                /\ lease'.cell = c
                /\ lease'.attempt = new.state.attempt
                /\ lease'.timer
      PROVE  \/ memory'[d] = memory[d] /\ d \notin frozen
             \/ /\ lease' # None
                /\ lease'.cell = d
                /\ lease'.attempt = memory'[d].state.attempt
                /\ lease'.timer
  <2>1. CASE o = "ok" /\ d = c
    <3>1. memory'[d] = new /\ new.state.phase = "running"
      BY <1>2, <2>1 DEF Commit, HostCells, Running
    <3>2. QED
      BY <1>2, <2>1, <3>1
  <2>2. CASE d # c
    BY <1>2, <2>2 DEF Commit, HostCells
  <2>3. CASE o # "ok" /\ d = c
    BY <1>2, <2>3 DEF Commit
  <2>4. QED
    BY <2>1, <2>2, <2>3
<1>3. CASE NoCommit
  BY <1>1, <1>3 DEF NoCommit
<1>4. QED
  BY <1>1, <1>2, <1>3 DEF CellsMove

-----------------------------------------------------------------------------
(* The writes that end an attempt.                                           *)

\* After expireIfRunning nothing runs in the slot, unless its cell is frozen.
LEMMA ExpiryMoves ==
  ASSUME HostCells, lease # None, lease.cell \in Cell, RunningIsLeased,
         NEW o \in WriteOutcome, ExpireIfRunning(o)
  PROVE  /\ CellsMove
         /\ lease.cell \in frozen' \/ Stopped(lease.cell)
<1> DEFINE c == lease.cell
           k == Expired(memory[c].state)
<1>1. CASE Expirable
  <2>1. /\ c \notin frozen /\ memory[c] # None /\ Versionable(c)
        /\ GoodCell(memory[c])
        /\ CanExpire(memory[c].state, lease.attempt, memory[c].state.active.renewal)
    BY <1>1 DEF Expirable, Usable, HostCells
  <2>2. Advances(memory[c].state, k) /\ k.phase \in {"retryable", "failed"}
    BY <2>1, ExpiryAdvances DEF GoodCell
  <2> HIDE DEF k
  <2>3. /\ GoodCell(Stored(c, k))
        /\ Stored(c, k).version = memory[c].version + 1
        /\ Stored(c, k).state = k
        /\ CellFollows(memory[c], Stored(c, k))
    BY <2>1, <2>2, StoredGood
  <2>4. Commit(c, Stored(c, k), o)
    BY <1>1 DEF ExpireIfRunning, k
  <2>5. CellsMove
    <3>1. Stored(c, k) \in JobCell
      BY <2>3 DEF GoodCell
    <3>2. Stored(c, k).state.phase \notin {"running", "succeeded"}
      BY <2>2, <2>3
    <3>3. QED
      BY <2>1, <2>3, <2>4, <3>1, <3>2 DEF CellsMove
  <2>6. CASE o = "ok"
    <3>1. memory'[c] = Stored(c, k)
      BY <2>4, <2>6 DEF Commit, HostCells
    <3>2. QED
      BY <2>2, <2>3, <2>5, <3>1 DEF Stopped
  <2>7. CASE o # "ok"
    BY <2>4, <2>5, <2>7 DEF Commit
  <2>8. QED
    BY <2>6, <2>7
<1>2. CASE ~Expirable
  <2>1. NoCommit
    BY <1>2 DEF ExpireIfRunning
  <2>2. ASSUME c \notin frozen, Running(c)
        PROVE  FALSE
    <3>1. GoodCell(memory[c]) /\ memory[c].state.phase = "running" /\ Usable(c)
      BY <2>2 DEF Running, HostCells, Usable
    <3>2. /\ memory[c].state.stateVersion < CounterMax
          /\ CanExpire(memory[c].state, memory[c].state.attempt,
                       memory[c].state.active.renewal)
      BY <3>1, RunningCountable DEF GoodCell
    <3>3. lease.attempt = memory[c].state.attempt
      BY <2>2 DEF RunningIsLeased
    <3>4. Versionable(c)
      <4>1. /\ memory[c].version \in Nat
            /\ memory[c].state.stateVersion \in Nat
            /\ memory[c].version <= memory[c].state.stateVersion
        BY <3>1 DEF GoodCell, JobCell, Job, TerminalPhase
      <4>2. QED
        BY <3>2, <4>1 DEF Versionable
    <3>5. QED
      BY <1>2, <3>1, <3>2, <3>3, <3>4 DEF Expirable
  <2>3. QED
    BY <2>1, <2>2 DEF CellsMove, NoCommit, Running, Stopped
<1>3. QED
  BY <1>1, <1>2

LEMMA FailMoves ==
  ASSUME HostCells, NEW c \in Cell, NEW n, NEW s,
         NEW reason \in {"retryable", "permanent"},
         NEW o \in WriteOutcome, FailAttempt(c, n, s, reason, o)
  PROVE  CellsMove
<1> DEFINE k == FailedAttempt(memory[c].state, reason)
           able == /\ Room /\ Leased(c, n, s)
                   /\ Usable(c) /\ Versionable(c) /\ CanFail(memory[c].state, n)
<1>1. CASE able
  <2>1. c \notin frozen /\ memory[c] # None /\ GoodCell(memory[c])
    BY <1>1 DEF Usable, HostCells
  <2>2. Advances(memory[c].state, k) /\ k.phase \in {"retryable", "failed"}
    BY <1>1, <2>1, FailureAdvances DEF GoodCell
  <2>3. Commit(c, Stored(c, k), o)
    BY <1>1 DEF FailAttempt
  <2> HIDE DEF k
  <2>4. /\ GoodCell(Stored(c, k))
        /\ Stored(c, k).version = memory[c].version + 1
        /\ Stored(c, k).state = k
        /\ CellFollows(memory[c], Stored(c, k))
    BY <1>1, <2>1, <2>2, StoredGood
  <2>5. Stored(c, k) \in JobCell /\ Stored(c, k).state.phase \notin {"running", "succeeded"}
    BY <2>2, <2>4 DEF GoodCell
  <2>6. QED
    BY <2>1, <2>3, <2>4, <2>5 DEF CellsMove
<1>2. CASE ~able
  BY <1>2 DEF FailAttempt, CellsMove
<1>3. QED
  BY <1>1, <1>2

-----------------------------------------------------------------------------
(* Every step but a restart moves cells and slot this way.                   *)

Shapes ==
  /\ lease \in Lease \cup {None}
  /\ completing \subseteq CompleteCall
  /\ session \in Session \cup {None}
  /\ leaving \in BOOLEAN
  /\ run \in Run \cup {None}
  /\ aborts \subseteq Abort

SomeRestart == \E f \in [Cell -> WriteOutcome] : Restart(f)

\* The slot stays as it is, but for its deadline.
SlotStays ==
  \/ lease' = lease
  \/ lease # None /\ lease' = [lease EXCEPT !.late = TRUE]

LEMMA SlotStaysMoves ==
  ASSUME Shapes, SlotStays
  PROVE  SlotMoves
<1>1. CASE lease' = lease
  BY <1>1 DEF SlotMoves
<1>2. CASE lease # None /\ lease' = [lease EXCEPT !.late = TRUE]
  <2>1. lease \in Lease /\ lease' \in Lease
    BY <1>2 DEF Shapes, Lease
  <2>2. lease' # None
    BY <2>1, HostNoneAssumption
  <2>3. QED
    BY <1>2, <2>1, <2>2 DEF SlotMoves, Lease
<1>3. QED
  BY <1>1, <1>2 DEF SlotStays

LEMMA SubmitMoves ==
  ASSUME HostCells, NEW c \in Cell, NEW o \in WriteOutcome, NEW s, Submit(c, o, s)
  PROVE  CellsMove
<1> DEFINE x == [state |-> Submitted, version |-> 0, selection |-> None]
<1>1. Sound(Submitted)
  BY SubmittedSound
<1>2. Submitted.phase = "queued" /\ Submitted.stateVersion = 0
        /\ Submitted.attempt = 0 /\ Submitted.decision.kind = "undecided"
  BY DEF Submitted, Undecided
<1>3. Submitted \in Job /\ Restorable(Submitted)
  BY <1>1 DEF Sound
<1> HIDE DEF Submitted
<1>4. x \in JobCell
  BY <1>3 DEF JobCell
<1>5. GoodCell(x)
  BY <1>1, <1>2, <1>3, <1>4 DEF GoodCell, ReadableCell, Counted
<1>6. c \notin frozen /\ memory[c] = None /\ Commit(c, x, o)
  BY DEF Submit
<1>7. x.state.phase \notin {"running", "succeeded"} /\ x.state = Submitted /\ x.selection = None
  BY <1>2
<1> HIDE DEF x
<1>8. QED
  BY <1>4, <1>5, <1>6, <1>7 DEF CellsMove

\* The state a claim is made on follows the stored one or is the stored one.
LEMMA ToClaimSound ==
  ASSUME NEW c \in Cell, GoodCell(memory[c])
  PROVE  /\ Sound(ToClaim(c)) /\ Counted(ToClaim(c))
         /\ ToClaim(c).attempt = memory[c].state.attempt
         /\ SeenAlike(memory[c].state, ToClaim(c))
         /\ \/ ToClaim(c) = memory[c].state
            \/ Advances(memory[c].state, ToClaim(c))
<1>1. Sound(memory[c].state) /\ Counted(memory[c].state)
  BY DEF GoodCell
<1>2. CASE CanRetry(memory[c].state)
  <2>1. /\ Advances(memory[c].state, Retried(memory[c].state))
        /\ SeenAlike(memory[c].state, Retried(memory[c].state))
    BY <1>1, <1>2, RetryAdvances
  <2>2. Retried(memory[c].state).attempt = memory[c].state.attempt
    BY <1>1 DEF Sound, Retried, Bump, Job
  <2>3. QED
    BY <1>2, <2>1, <2>2 DEF ToClaim, Advances
<1>3. CASE ~CanRetry(memory[c].state)
  BY <1>1, <1>3 DEF ToClaim, SeenAlike
<1>4. QED
  BY <1>2, <1>3

LEMMA StartMoves ==
  ASSUME HostCells, NEW c \in Cell, NEW o \in WriteOutcome, NEW s \in Session,
         NEW p \in Provider, Start(c, o, s, p)
  PROVE  CellsMove /\ lease = None
<1> DEFINE j == memory[c].state
           q == ToClaim(c)
           k == Claimed(ToClaim(c), p)
           new == Stored(c, k)
           n == memory[c].state.attempt + 1
<1>1. /\ c \notin frozen /\ memory[c] # None /\ Versionable(c) /\ GoodCell(memory[c])
      /\ CanClaim(q) /\ lease = None
  BY DEF Start, Usable, HostCells
<1>2. /\ Sound(q) /\ Counted(q)
      /\ q.attempt = j.attempt
      /\ SeenAlike(j, q)
      /\ q = j \/ Advances(j, q)
  BY <1>1, ToClaimSound
<1>3. Advances(q, k) /\ k.attempt = n /\ k.phase = "running"
  <2>1. Advances(q, k) /\ k.phase = "running"
    BY <1>1, <1>2, ClaimAdvances
  <2>2. Claimed(q, p).attempt = q.attempt + 1
    BY <1>2 DEF Sound, Claimed, Bump, Job
  <2>3. QED
    BY <1>2, <2>1, <2>2
<1>4. Advances(j, k)
  <2>1. CASE q = j
    BY <1>3, <2>1
  <2>2. CASE Advances(j, q)
    <3>1. j.stateVersion \in Nat /\ q.stateVersion \in Nat /\ k.stateVersion \in Nat
      BY <1>1, <1>2, <1>3 DEF GoodCell, Advances, Sound, Job
    <3>2. Follows(j, k)
      BY <1>2, <1>3, FollowsAlike DEF Advances
    <3>3. QED
      BY <1>3, <2>2, <3>1, <3>2 DEF Advances
  <2>3. QED
    BY <1>2, <2>1, <2>2
<1>5. /\ Commit(c, new, o)
      /\ o = "ok" => lease' = [cell |-> c, attempt |-> n, session |-> s, late |-> FALSE,
                               timer |-> TRUE]
  BY DEF Start
<1>6. n \in 1..MaxAttempts
  BY <1>1, <1>2 DEF CanClaim, GoodCell, Sound, Job
<1> HIDE DEF q, k, n
<1>7. /\ GoodCell(new)
      /\ new.version = memory[c].version + 1
      /\ new.state = k
      /\ CellFollows(memory[c], new)
  BY <1>1, <1>4, StoredGood
<1> HIDE DEF new
<1>8. o = "ok" => /\ lease' # None
                  /\ lease'.cell = c
                  /\ lease'.attempt = n
                  /\ lease'.timer
  <2>1. SUFFICES ASSUME o = "ok"
                 PROVE  /\ lease' # None
                        /\ lease'.cell = c
                        /\ lease'.attempt = n
                        /\ lease'.timer
    OBVIOUS
  <2>2. lease' \in Lease
    <3>1. [cell |-> c, attempt |-> n, session |-> s, late |-> FALSE, timer |-> TRUE] \in Lease
      BY <1>6 DEF Lease
    <3>2. QED
      BY <1>5, <2>1, <3>1
  <2>3. lease' # None
    BY <2>2, HostNoneAssumption
  <2>4. QED
    BY <1>5, <2>1, <2>3
<1>9. new \in JobCell
  BY <1>7 DEF GoodCell
<1>10. \E x \in JobCell :
         /\ GoodCell(x)
         /\ CellFollows(memory[c], x) /\ x.version = memory[c].version + 1
         /\ x.state.phase # "succeeded"
         /\ x.state.phase = "running" /\ o = "ok" =>
              /\ lease' # None
              /\ lease'.cell = c
              /\ lease'.attempt = x.state.attempt
              /\ lease'.timer
         /\ Commit(c, x, o)
  BY <1>3, <1>5, <1>7, <1>8, <1>9
<1>11. QED
  BY <1>1, <1>10 DEF CellsMove

LEMMA CancelMoves ==
  ASSUME HostCells, Shapes, NEW c \in Cell, NEW o \in WriteOutcome, NEW s,
         Cancel(c, o, s)
  PROVE  CellsMove /\ SlotMoves
<1> DEFINE k == Cancelled(memory[c].state)
<1>1. /\ c \notin frozen /\ memory[c] # None /\ Versionable(c) /\ GoodCell(memory[c])
      /\ CanCancel(memory[c].state)
      /\ Commit(c, Stored(c, k), o)
      /\ AbortLease(c, o = "ok", s)
  BY DEF Cancel, Usable, HostCells
<1>2. Advances(memory[c].state, k) /\ k.phase = "cancelled"
  BY <1>1, CancelAdvances DEF GoodCell
<1> HIDE DEF k
<1>3. /\ GoodCell(Stored(c, k))
      /\ Stored(c, k).version = memory[c].version + 1
      /\ Stored(c, k).state = k
      /\ CellFollows(memory[c], Stored(c, k))
  BY <1>1, <1>2, StoredGood
<1>4. Stored(c, k) \in JobCell /\ Stored(c, k).state.phase \notin {"running", "succeeded"}
  BY <1>2, <1>3 DEF GoodCell
<1>5. CellsMove
  BY <1>1, <1>3, <1>4 DEF CellsMove
<1>6. SlotMoves
  <2>1. CASE o = "ok" /\ lease # None /\ lease.cell = c
    <3>1. memory'[c] = Stored(c, k)
      BY <1>1, <2>1 DEF Commit, HostCells
    <3>2. Stopped(c)
      BY <1>4, <3>1 DEF Stopped
    <3>3. QED
      BY <2>1, <3>2 DEF SlotMoves
  <2>2. CASE ~(o = "ok" /\ lease # None /\ lease.cell = c)
    <3>1. lease' = lease
      BY <1>1, <2>2 DEF AbortLease
    <3>2. QED
      BY <3>1 DEF SlotMoves
  <2>3. QED
    BY <2>1, <2>2
<1>7. QED
  BY <1>5, <1>6

LEMMA RejectMoves ==
  ASSUME HostCells, NEW c \in Cell, NEW o \in WriteOutcome, NEW s, Reject(c, o, s)
  PROVE  CellsMove
<1> DEFINE new == Decided(c, Rejected(memory[c].state), Refusal)
<1>1. /\ c \notin frozen /\ memory[c] # None /\ Versionable(c) /\ GoodCell(memory[c])
      /\ CanReject(memory[c].state) /\ memory[c].selection = None
      /\ memory[c].state.phase = "succeeded"
      /\ Commit(c, new, o)
  BY DEF Reject, CanReject, Usable, HostCells, Refusal
<1>2. /\ GoodCell(new)
      /\ new.version = memory[c].version + 1
      /\ new.state.phase = "succeeded"
      /\ CellFollows(memory[c], new)
  BY <1>1, RejectedGood
<1> HIDE DEF new
<1>3. QED
  BY <1>1, <1>2 DEF CellsMove, GoodCell

LEMMA EndApproveMoves ==
  ASSUME HostCells, Approvals, NEW a \in approving, NEW o \in WriteOutcome,
         EndApprove(a, o)
  PROVE  CellsMove
<1> DEFINE c == a.cell
           new == Decided(c, memory[c].state, a.selection)
<1>1. CASE NoCommit
  BY <1>1 DEF CellsMove
<1>2. CASE Approvable(a) /\ Versionable(c) /\ Commit(c, new, o)
  <2>1. c \in Cell /\ a.selection \in Selection /\ a.selection.kind = "approved"
    BY DEF Approvals, ApproveCall
  <2>2. /\ c \notin frozen /\ memory[c] # None /\ GoodCell(memory[c])
        /\ memory[c].selection = None
        /\ memory[c].state.phase = "succeeded"
    BY <1>2, <2>1 DEF Approvable, Usable, HostCells, Approvals
  <2>3. /\ GoodCell(new)
        /\ new.version = memory[c].version + 1
        /\ new.state = memory[c].state
        /\ CellFollows(memory[c], new)
    BY <1>2, <2>1, <2>2, ApprovedGood
  <2> HIDE DEF new
  <2>4. QED
    BY <1>2, <2>1, <2>2, <2>3 DEF CellsMove, GoodCell
<1>3. QED
  BY <1>1, <1>2 DEF EndApprove

LEMMA EndCompleteMoves ==
  ASSUME HostCells, Shapes, RunningIsLeased, NEW m \in completing,
         NEW o \in WriteOutcome, EndComplete(m, o)
  PROVE  CellsMove /\ SlotMoves
<1> DEFINE c == m.cell
<1>1. m \in CompleteCall /\ c \in Cell /\ m.attempt \in 1..MaxAttempts /\ m.digest \in Digest
  BY DEF Shapes, CompleteCall
<1>2. CASE NoCommit /\ lease' = lease
  BY <1>2 DEF CellsMove, SlotMoves
<1>3. CASE FailAttempt(c, m.attempt, m.session, "permanent", o) /\ lease' = lease
  BY <1>1, <1>3, FailMoves DEF SlotMoves
<1>4. CASE Adoptable(m) /\ ExpireIfRunning(o)
  <2>1. lease # None /\ lease.cell = c
    BY <1>4 DEF Adoptable, Leased
  <2>2. QED
    BY <1>1, <1>4, <2>1, ExpiryMoves DEF SlotMoves
<1>5. CASE /\ Adoptable(m) /\ ~lease.late /\ completing' = completing \ {m}
           /\ LET j == memory[c].state
                  r == ResultOf(m, j.active.provider)
              IN /\ CanComplete(j, r)
                 /\ Versionable(c)
                 /\ Commit(c, Stored(c, Completed(j, r)), o)
           /\ lease' = lease
  <2> DEFINE j == memory[c].state
             r == ResultOf(m, j.active.provider)
             k == Completed(j, r)
  <2>1. /\ c \notin frozen /\ memory[c] # None /\ GoodCell(memory[c])
        /\ RunningAttempt(j, m.attempt)
        /\ memory[c].version = m.version
        /\ lease # None /\ Leased(c, m.attempt, m.session)
    BY <1>1, <1>5 DEF Adoptable, Live, Leased, Usable, HostCells
  <2>2. Sound(j) /\ Counted(j) /\ j \in Job /\ j.active \in Active
    BY <2>1 DEF GoodCell, Sound, Restorable, RunningAttempt, Job
  <2>3. r \in Result /\ r.digest = m.digest
    BY <1>1, <2>2 DEF ResultOf, Result, Active
  <2>4. CanComplete(j, r) /\ Versionable(c) /\ Commit(c, Stored(c, k), o)
    BY <1>5
  <2> HIDE DEF r, j
  <2>5. Advances(j, k) /\ k.phase = "succeeded" /\ k.result = r
    <3>1. Completed(j, r).result = r
      BY <2>2 DEF Completed, Bump, Job
    <3>2. QED
      BY <2>2, <2>3, <2>4, <3>1, CompletionAdvances
  <2> HIDE DEF k
  <2>6. /\ GoodCell(Stored(c, k))
        /\ Stored(c, k).version = memory[c].version + 1
        /\ Stored(c, k).state = k
        /\ CellFollows(memory[c], Stored(c, k))
    BY <1>1, <2>1, <2>4, <2>5, StoredGood DEF j
  <2>7. /\ Stored(c, k) \in JobCell
        /\ Stored(c, k).state.phase # "running"
        /\ Fenced(c, Stored(c, k))
    BY <1>5, <2>1, <2>3, <2>5, <2>6 DEF GoodCell, Fenced
  <2>8. CellsMove
    BY <1>1, <2>1, <2>4, <2>6, <2>7 DEF CellsMove
  <2>9. QED
    BY <1>5, <2>8 DEF SlotMoves
<1>6. QED
  BY <1>2, <1>3, <1>4, <1>5 DEF EndComplete, Overdue

LEMMA FreeSlotMoves ==
  ASSUME HostCells, Shapes, RunningIsLeased, lease # None,
         NEW o \in WriteOutcome, FreeSlot(o)
  PROVE  CellsMove /\ SlotMoves
<1>1. lease.cell \in Cell
  BY DEF Shapes, Lease
<1>2. QED
  BY <1>1, ExpiryMoves DEF FreeSlot, SlotMoves

LEMMA LoseSessionMoves ==
  ASSUME HostCells, Shapes, RunningIsLeased, NEW o \in WriteOutcome, LoseSession(o)
  PROVE  CellsMove /\ SlotMoves
BY FreeSlotMoves DEF LoseSession, CellsMove, SlotMoves

LEMMA SettleMoves ==
  ASSUME HostCells, Shapes, RunningIsLeased, NEW o \in WriteOutcome, NEW s, Settle(o, s)
  PROVE  CellsMove /\ SlotMoves
BY FreeSlotMoves DEF Settle, Leased, CellsMove, SlotMoves

LEMMA TimerMoves ==
  ASSUME HostCells, Shapes, RunningIsLeased, NEW o \in WriteOutcome, TimerFires(o)
  PROVE  CellsMove /\ SlotMoves
<1>1. lease # None /\ lease.cell \in Cell /\ ExpireIfRunning(o)
  BY DEF TimerFires, Shapes, Lease
<1>2. QED
  BY <1>1, ExpiryMoves DEF SlotMoves

LEMMA RunFailMoves ==
  ASSUME HostCells, Shapes, NEW o \in WriteOutcome, NEW s, BadResult(o, s) \/ Fail(o, s)
  PROVE  CellsMove /\ SlotMoves
<1>1. run # None /\ run.cell \in Cell /\ run.reason \in {"retryable", "permanent"}
  BY DEF BadResult, Fail, Shapes, Run
<1>2. CASE BadResult(o, s)
  BY <1>1, <1>2, FailMoves DEF BadResult, SlotMoves
<1>3. CASE Fail(o, s)
  BY <1>1, <1>3, FailMoves DEF Fail, SlotMoves
<1>4. QED
  BY <1>2, <1>3

LEMMA StepMoves ==
  ASSUME HostCells, Approvals, Shapes, RunningIsLeased, Next, ~SomeRestart
  PROVE  CellsMove /\ SlotMoves
<1>1. ASSUME NEW o \in WriteOutcome, NEW s \in Session, Command(o, s)
      PROVE  CellsMove /\ SlotMoves
  <2>1. ASSUME NEW c \in Cell, Submit(c, o, s)
        PROVE  CellsMove /\ SlotMoves
    BY <2>1, SubmitMoves DEF Submit, SlotMoves
  <2>2. ASSUME NEW c \in Cell, Cancel(c, o, s)
        PROVE  CellsMove /\ SlotMoves
    BY <2>2, CancelMoves
  <2>3. ASSUME NEW c \in Cell, Reject(c, o, s)
        PROVE  CellsMove /\ SlotMoves
    BY <2>3, RejectMoves DEF Reject, SlotMoves
  <2>4. ASSUME NEW c \in Cell, NEW p \in Provider, Start(c, o, s, p)
        PROVE  CellsMove /\ SlotMoves
    BY <2>4, StartMoves DEF SlotMoves
  <2>5. ASSUME NEW c \in Cell, NEW choice \in Choice, BeginApprove(c, choice, s)
        PROVE  CellsMove /\ SlotMoves
    BY <2>5 DEF BeginApprove, CellsMove, NoCommit, SlotMoves
  <2>6. QED
    BY <1>1, <2>1, <2>2, <2>3, <2>4, <2>5 DEF Command
<1>2. ASSUME NEW o \in WriteOutcome, NEW s \in Session, RunStep(o, s)
      PROVE  CellsMove /\ SlotMoves
  <2>1. CASE Listen
    BY <2>1 DEF Listen, hostVars, CellsMove, NoCommit, SlotMoves
  <2>2. CASE AskProgress(s)
    BY <2>2 DEF AskProgress, hostVars, CellsMove, NoCommit, SlotMoves
  <2>3. ASSUME NEW d \in Digest, BeginComplete(s, d)
        PROVE  CellsMove /\ SlotMoves
    BY <2>3 DEF BeginComplete, CellsMove, NoCommit, SlotMoves
  <2>4. CASE BadResult(o, s) \/ Fail(o, s)
    BY <2>4, RunFailMoves
  <2>5. CASE Settle(o, s)
    BY <2>5, SettleMoves
  <2>6. QED
    BY <1>2, <2>1, <2>2, <2>3, <2>4, <2>5 DEF RunStep
<1>3. ASSUME NEW o \in WriteOutcome, NEW a \in approving, EndApprove(a, o)
      PROVE  CellsMove /\ SlotMoves
  BY <1>3, EndApproveMoves DEF EndApprove, SlotMoves
<1>4. ASSUME NEW o \in WriteOutcome, NEW m \in completing, EndComplete(m, o)
      PROVE  CellsMove /\ SlotMoves
  BY <1>4, EndCompleteMoves
<1>5. ASSUME NEW o \in WriteOutcome, TimerFires(o) \/ PageLost(o) \/ NavigationStarts(o)
      PROVE  CellsMove /\ SlotMoves
  BY <1>5, TimerMoves, LoseSessionMoves DEF PageLost, NavigationStarts
<1>6. ASSUME NEW reason \in {"retryable", "permanent"}, ProviderFails(reason)
      PROVE  CellsMove /\ SlotMoves
  BY <1>6 DEF ProviderFails, hostVars, CellsMove, NoCommit, SlotMoves
<1>7. ASSUME NEW m \in aborts, DeliverAbort(m)
      PROVE  CellsMove /\ SlotMoves
  BY <1>7 DEF DeliverAbort, hostVars, CellsMove, NoCommit, SlotMoves
<1>8. CASE ProviderReturns \/ NavigationFails \/ NavigationCommits
  BY <1>8 DEF ProviderReturns, NavigationFails, NavigationCommits, hostVars, CellsMove,
              NoCommit, SlotMoves
<1>9. CASE DeadlinePasses
  BY <1>9, SlotStaysMoves DEF DeadlinePasses, SlotStays, CellsMove, NoCommit
<1>10. QED
  BY <1>1, <1>2, <1>3, <1>4, <1>5, <1>6, <1>7, <1>8, <1>9 DEF Next, SomeRestart

-----------------------------------------------------------------------------
(* A restart expires what it finds running, or freezes it.                   *)

LEMMA RestartKeeps ==
  ASSUME HostCells, NEW f \in [Cell -> WriteOutcome], Restart(f)
  PROVE  HostCells' /\ RunningIsLeased'
<1> DEFINE found == {c \in Cell : disk[c] # None}
           ran == {c \in found : ReadableCell(disk[c]) /\ disk[c].state.phase = "running"}
           countable == {c \in ran : Countable(disk[c].state) /\ disk[c].version < CounterMax}
           expired(c) == [disk[c] EXCEPT !.state = Expired(@), !.version = @ + 1]
<1>1. /\ memory' = [c \in Cell |-> IF c \in countable /\ f[c] = "ok" THEN expired(c) ELSE disk[c]]
      /\ disk' = [c \in Cell |-> IF c \in countable /\ f[c] # "failed" THEN expired(c) ELSE disk[c]]
      /\ frozen' = {c \in found : \/ ~ReadableCell(disk[c])
                                  \/ c \in ran \ countable
                                  \/ (c \in ran /\ f[c] # "ok")}
  BY Zenon DEF Restart
<1>2. ASSUME NEW c \in countable
      PROVE  GoodCell(expired(c)) /\ expired(c).state.phase # "running"
  <2>1. /\ c \in Cell /\ disk[c] # None /\ GoodCell(disk[c])
        /\ disk[c].state.phase = "running"
        /\ Countable(disk[c].state) /\ disk[c].version < CounterMax
    BY DEF HostCells
  <2>2. CanExpire(disk[c].state, disk[c].state.attempt, disk[c].state.active.renewal)
    BY <2>1 DEF CanExpire, RunningAttempt
  <2>3. /\ Advances(disk[c].state, Expired(disk[c].state))
        /\ Expired(disk[c].state).phase \in {"retryable", "failed"}
    BY <2>1, <2>2, ExpiryAdvances DEF GoodCell
  <2>4. QED
    BY <2>1, <2>3, MovedGood
<1> HIDE DEF countable, expired
<1>3. ASSUME NEW c \in Cell
      PROVE  /\ disk'[c] # None => GoodCell(disk'[c])
             /\ memory'[c] # None => GoodCell(memory'[c])
             /\ disk'[c] \in JobCell \cup {None}
             /\ memory'[c] \in JobCell \cup {None}
  BY <1>1, <1>2 DEF HostCells, GoodCell
<1>4. /\ disk' \in [Cell -> JobCell \cup {None}]
      /\ memory' \in [Cell -> JobCell \cup {None}]
  BY <1>1, <1>3
<1>5. frozen' \subseteq Cell
  BY <1>1
<1>6. ASSUME NEW c \in Cell, c \notin frozen'
      PROVE  /\ memory'[c] = disk'[c]
             /\ memory'[c] # None => memory'[c].state.phase # "running"
  <2>1. CASE c \in countable
    <3>1. f[c] = "ok"
      BY <1>1, <1>6, <2>1 DEF countable
    <3>2. QED
      BY <1>1, <1>2, <2>1, <3>1
  <2>2. CASE c \notin countable
    <3>1. memory'[c] = disk[c] /\ disk'[c] = disk[c]
      BY <1>1, <2>2
    <3>2. disk[c] # None => ReadableCell(disk[c])
      BY DEF HostCells, GoodCell
    <3>3. QED
      BY <1>1, <1>6, <2>2, <3>1, <3>2
  <2>3. QED
    BY <2>1, <2>2
<1>7. HostCells'
  BY <1>3, <1>4, <1>5, <1>6 DEF HostCells, CacheCoherent
<1>8. RunningIsLeased'
  BY <1>6 DEF RunningIsLeased, Running
<1>9. QED
  BY <1>7, <1>8

-----------------------------------------------------------------------------
(* The other variables: their types, the bound on commands, the slot's cover.*)

CommandsBounded ==
  /\ IsFiniteSet(completing) /\ IsFiniteSet(approving)
  /\ Cardinality(completing) + Cardinality(approving) <= MaxPending

\* At most one command comes, and only when there is room.
CommandsMove ==
  \/ completing' \subseteq completing /\ approving' \subseteq approving
  \/ Room /\ approving' = approving /\ \E m : completing' = completing \cup {m}
  \/ Room /\ completing' = completing /\ \E a : approving' = approving \cup {a}

LEMMA CommandsStayBounded ==
  ASSUME CommandsBounded, CommandsMove
  PROVE  CommandsBounded'
<1>1. Cardinality(completing) \in Nat /\ Cardinality(approving) \in Nat
  BY FS_CardinalityType DEF CommandsBounded
<1>2. CASE completing' \subseteq completing /\ approving' \subseteq approving
  <2>1. /\ IsFiniteSet(completing') /\ Cardinality(completing') <= Cardinality(completing)
        /\ IsFiniteSet(approving') /\ Cardinality(approving') <= Cardinality(approving)
    BY <1>2, FS_Subset DEF CommandsBounded
  <2>2. Cardinality(completing') \in Nat /\ Cardinality(approving') \in Nat
    BY <2>1, FS_CardinalityType
  <2>3. QED
    BY <1>1, <2>1, <2>2 DEF CommandsBounded
<1>3. ASSUME NEW m, Room, approving' = approving, completing' = completing \cup {m}
      PROVE  CommandsBounded'
  <2>1. /\ IsFiniteSet(completing')
        /\ \/ Cardinality(completing') = Cardinality(completing)
           \/ Cardinality(completing') = Cardinality(completing) + 1
    BY <1>3, FS_AddElement DEF CommandsBounded
  <2>2. QED
    BY <1>1, <1>3, <2>1 DEF CommandsBounded, Room
<1>4. ASSUME NEW a, Room, completing' = completing, approving' = approving \cup {a}
      PROVE  CommandsBounded'
  <2>1. /\ IsFiniteSet(approving')
        /\ \/ Cardinality(approving') = Cardinality(approving)
           \/ Cardinality(approving') = Cardinality(approving) + 1
    BY <1>4, FS_AddElement DEF CommandsBounded
  <2>2. QED
    BY <1>1, <1>4, <2>1 DEF CommandsBounded, Room
<1>5. QED
  BY <1>2, <1>3, <1>4 DEF CommandsMove

SameSlot ==
  \/ lease' = lease
  \/ /\ lease # None /\ lease' # None
     /\ lease'.cell = lease.cell
     /\ lease'.attempt = lease.attempt
     /\ lease'.session = lease.session

\* A page keeps its run and the slot that covers it, or loses one of them
\* together with its session; a new session is nobody's.
PageMoves ==
  \/ run' = None
  \/ session' = None
  \/ /\ lease' # None
     /\ run'.cell = lease'.cell
     /\ run'.attempt = lease'.attempt
     /\ run'.session = lease'.session
  \/ /\ run # None
     /\ run'.cell = run.cell /\ run'.attempt = run.attempt /\ run'.session = run.session
     /\ session' = session \/ (session = None /\ session' \notin Held)
     /\ SameSlot

LEMMA PageStaysCovered ==
  ASSUME Shapes, Shapes', SlotCoversInvocation, PageMoves
  PROVE  SlotCoversInvocation'
<1> SUFFICES ASSUME run' # None, run'.session = session'
             PROVE  /\ lease' # None
                    /\ lease'.cell = run'.cell
                    /\ lease'.attempt = run'.attempt
                    /\ lease'.session = run'.session
  BY DEF SlotCoversInvocation, Leased
<1>1. session' # None
  BY HostNoneAssumption DEF Shapes, Run
<1>2. CASE /\ run # None
           /\ run'.cell = run.cell /\ run'.attempt = run.attempt
           /\ run'.session = run.session
           /\ session' = session \/ (session = None /\ session' \notin Held)
           /\ SameSlot
  <2>1. run.session \in Held
    BY <1>2 DEF Held
  <2>2. run.session = session
    BY <1>2, <2>1
  <2>3. /\ lease # None
        /\ lease.cell = run.cell
        /\ lease.attempt = run.attempt
        /\ lease.session = run.session
    BY <1>2, <2>2 DEF SlotCoversInvocation, Leased
  <2>4. QED
    BY <1>2, <2>3 DEF SameSlot
<1>3. QED
  BY <1>1, <1>2 DEF PageMoves

\* A change of the run of a page that keeps its job.
LEMMA SameRun ==
  ASSUME Shapes, run # None,
         NEW stage \in Stage, NEW aborted \in BOOLEAN, NEW reason \in {"retryable", "permanent"},
         run' = [run EXCEPT !.stage = stage, !.aborted = aborted, !.reason = reason]
  PROVE  /\ run' \in Run
         /\ run'.cell = run.cell /\ run'.attempt = run.attempt /\ run'.session = run.session
BY DEF Shapes, Run

LEMMA SpeakSession ==
  ASSUME Shapes, NEW s, Speak(s)
  PROVE  /\ s \in Session /\ session' = s
         /\ session' = session \/ (session = None /\ session' \notin Held)
BY HostNoneAssumption DEF Speak, Shapes

LEMMA AbortLeaseShapes ==
  ASSUME Shapes, NEW c \in Cell, NEW committed, NEW page, AbortLease(c, committed, page)
  PROVE  /\ lease' \in Lease \cup {None}
         /\ aborts' \subseteq Abort
         /\ SameSlot
<1> DEFINE hit == committed /\ lease # None /\ lease.cell = c
<1>1. CASE hit
  <2>1. lease \in Lease /\ lease' = [lease EXCEPT !.timer = FALSE]
    BY <1>1 DEF AbortLease, Shapes
  <2>2. lease' \in Lease
    BY <2>1 DEF Lease
  <2>3. lease' # None
    BY <2>2, HostNoneAssumption
  <2>4. SameSlot
    BY <1>1, <2>1, <2>3 DEF SameSlot, Lease
  <2>5. [cell |-> c, attempt |-> lease.attempt] \in Abort
    BY <2>1 DEF Lease, Abort
  <2>6. aborts' \subseteq Abort
    BY <2>5 DEF AbortLease, Shapes
  <2>7. QED
    BY <2>2, <2>4, <2>6
<1>2. CASE ~hit
  BY <1>2 DEF AbortLease, Shapes, SameSlot
<1>3. QED
  BY <1>1, <1>2

\* A page's command that changes neither slot nor run.
LEMMA SpeakMoves ==
  ASSUME Shapes, NEW s, Speak(s), UNCHANGED <<lease, leaving, run>>,
         completing' \subseteq CompleteCall, aborts' \subseteq Abort
  PROVE  Shapes' /\ PageMoves
<1>1. /\ session' \in Session
      /\ session' = session \/ (session = None /\ session' \notin Held)
  BY SpeakSession
<1>2. Shapes'
  BY <1>1 DEF Shapes
<1>3. PageMoves
  BY <1>1 DEF PageMoves, SameSlot
<1>4. QED
  BY <1>2, <1>3

\* A step of the run that keeps the slot, whoever speaks.
LEMMA RunMoves ==
  ASSUME Shapes, run # None,
         NEW stage \in Stage, NEW aborted \in BOOLEAN, NEW reason \in {"retryable", "permanent"},
         run' = [run EXCEPT !.stage = stage, !.aborted = aborted, !.reason = reason],
         session' = session \/ (session = None /\ session' \in Session \ Held),
         UNCHANGED <<lease, leaving>>,
         completing' \subseteq CompleteCall, aborts' \subseteq Abort
  PROVE  Shapes' /\ PageMoves
<1>1. /\ run' \in Run
      /\ run'.cell = run.cell /\ run'.attempt = run.attempt /\ run'.session = run.session
  BY SameRun
<1>2. Shapes'
  BY <1>1 DEF Shapes
<1>3. PageMoves
  BY <1>1 DEF PageMoves, SameSlot
<1>4. QED
  BY <1>2, <1>3

LEMMA StartShapes ==
  ASSUME HostCells, Shapes, NEW c \in Cell, NEW o \in WriteOutcome, NEW s \in Session,
         NEW p \in Provider, Start(c, o, s, p)
  PROVE  Shapes' /\ PageMoves /\ CommandsMove
<1> DEFINE n == memory[c].state.attempt + 1
<1>1. n \in 1..MaxAttempts
  <2>1. GoodCell(memory[c]) /\ CanClaim(ToClaim(c))
    BY DEF Start, Usable, HostCells
  <2>2. ToClaim(c).attempt = memory[c].state.attempt
    BY <2>1, ToClaimSound
  <2>3. QED
    BY <2>1, <2>2 DEF CanClaim, GoodCell, Sound, Job
<1>2. CASE o = "ok"
  <2>1. /\ lease' = [cell |-> c, attempt |-> n, session |-> s, late |-> FALSE,
                     timer |-> TRUE]
        /\ run' = [stage |-> "starting", cell |-> c, attempt |-> n, session |-> s,
                   aborted |-> FALSE, reason |-> "retryable"]
    BY <1>2 DEF Start
  <2> HIDE DEF n
  <2>2. lease' \in Lease
    <3>1. [cell |-> c, attempt |-> n, session |-> s, late |-> FALSE, timer |-> TRUE] \in Lease
      BY <1>1 DEF Lease
    <3>2. QED
      BY <2>1, <3>1
  <2>3. run' \in Run
    <3>1. [stage |-> "starting", cell |-> c, attempt |-> n, session |-> s,
           aborted |-> FALSE, reason |-> "retryable"] \in Run
      BY <1>1 DEF Run, Stage
    <3>2. QED
      BY <2>1, <3>1
  <2>4. lease' # None
    BY <2>2, HostNoneAssumption
  <2>5. PageMoves
    BY <2>1, <2>4 DEF PageMoves
  <2>6. Shapes' /\ CommandsMove
    BY <2>2, <2>3 DEF Shapes, Start, Speak, CommandsMove
  <2>7. QED
    BY <2>5, <2>6
<1>3. CASE o # "ok"
  BY <1>3 DEF Start, Shapes, Speak, PageMoves, CommandsMove
<1>4. QED
  BY <1>2, <1>3

LEMMA CancelShapes ==
  ASSUME Shapes, NEW c \in Cell, NEW o, NEW s, Cancel(c, o, s)
  PROVE  Shapes' /\ PageMoves /\ CommandsMove
<1>1. /\ lease' \in Lease \cup {None}
      /\ aborts' \subseteq Abort
      /\ SameSlot
  BY AbortLeaseShapes DEF Cancel
<1>2. /\ session' \in Session
      /\ session' = session \/ (session = None /\ session' \notin Held)
  BY SpeakSession DEF Cancel
<1>3. QED
  BY <1>1, <1>2 DEF Cancel, Shapes, PageMoves, CommandsMove

LEMMA EndCompleteShapes ==
  ASSUME Shapes, NEW m \in completing, NEW o, EndComplete(m, o)
  PROVE  Shapes' /\ PageMoves /\ CommandsMove
<1>1. m.cell \in Cell
  BY DEF Shapes, CompleteCall
<1>2. /\ lease' \in Lease \cup {None}
      /\ aborts' \subseteq Abort
      /\ SameSlot
  <2>1. CASE UNCHANGED <<lease, aborts>>
    BY <2>1 DEF Shapes, SameSlot
  <2>2. CASE AbortLease(m.cell, o = "ok", session)
    BY <1>1, <2>2, AbortLeaseShapes
  <2>3. QED
    BY <2>1, <2>2 DEF EndComplete
<1>3. \/ run' = run
      \/ /\ run # None /\ run' \in Run
         /\ run'.cell = run.cell /\ run'.attempt = run.attempt /\ run'.session = run.session
  <2>1. \E ok \in BOOLEAN : Answer(m, ok)
    BY DEF EndComplete
  <2>2. QED
    BY <2>1 DEF Answer, Shapes, Run, Stage
<1>4. UNCHANGED <<approving, session, leaving>> /\ completing' \subseteq completing
  BY DEF EndComplete
<1>5. QED
  BY <1>2, <1>3, <1>4 DEF Shapes, PageMoves, CommandsMove

LEMMA LeavingShapes ==
  ASSUME Shapes, NEW o, PageLost(o) \/ NavigationStarts(o)
  PROVE  Shapes' /\ PageMoves /\ CommandsMove
<1>1. session' = None /\ lease' \in Lease \cup {None}
  BY DEF PageLost, NavigationStarts, LoseSession, FreeSlot, Shapes
<1>2. CASE PageLost(o)
  BY <1>1, <1>2 DEF PageLost, Shapes, PageMoves, CommandsMove
<1>3. CASE NavigationStarts(o)
  BY <1>1, <1>3 DEF NavigationStarts, Shapes, PageMoves, CommandsMove
<1>4. QED
  BY <1>2, <1>3

LEMMA SlotShapes ==
  ASSUME Shapes,
         \/ DeadlinePasses
         \/ \E o \in WriteOutcome : TimerFires(o)
  PROVE  Shapes' /\ PageMoves /\ CommandsMove
<1>1. /\ lease' \in Lease \cup {None} /\ SameSlot
      /\ aborts' \subseteq Abort
  <2>1. lease \in Lease
    BY DEF DeadlinePasses, TimerFires, Shapes
  <2>2. lease' = [lease EXCEPT !.late = TRUE] \/ lease' = [lease EXCEPT !.timer = FALSE]
    BY DEF DeadlinePasses, TimerFires
  <2>3. /\ lease' \in Lease
        /\ lease'.cell = lease.cell /\ lease'.attempt = lease.attempt
        /\ lease'.session = lease.session
    BY <2>1, <2>2 DEF Lease
  <2>4. lease # None /\ lease' # None
    BY <2>1, <2>3, HostNoneAssumption
  <2>5. [cell |-> lease.cell, attempt |-> lease.attempt] \in Abort
    BY <2>1 DEF Lease, Abort
  <2>6. aborts' \subseteq Abort
    BY <2>5 DEF DeadlinePasses, TimerFires, pageVars, Shapes
  <2>7. QED
    BY <2>3, <2>4, <2>6 DEF SameSlot
<1>2. UNCHANGED <<completing, approving, session, leaving, run>>
  BY DEF DeadlinePasses, TimerFires, pageVars
<1>3. QED
  BY <1>1, <1>2 DEF Shapes, PageMoves, CommandsMove

LEMMA RunStepShapes ==
  ASSUME HostCells, Shapes, NEW o \in WriteOutcome, NEW s \in Session, RunStep(o, s)
  PROVE  Shapes' /\ PageMoves /\ CommandsMove
<1>1. CASE run = None
  BY <1>1 DEF RunStep, Listen, AskProgress, BadResult, BeginComplete, Fail, Settle
<1>2. CASE Settle(o, s)
  <2>1. session' \in Session /\ run' = None /\ lease' \in Lease \cup {None}
    BY <1>2, SpeakSession DEF Settle, FreeSlot, Shapes
  <2>2. QED
    BY <1>2, <2>1 DEF Settle, Shapes, PageMoves, CommandsMove
<1>3. CASE run # None /\ ~Settle(o, s)
  <2>1. run \in Run
    BY <1>3 DEF Shapes
  <2>2. \E stage \in Stage, aborted \in BOOLEAN :
          run' = [run EXCEPT !.stage = stage, !.aborted = aborted, !.reason = run.reason]
    <3>1. CASE Listen
      <4>1. run' = [run EXCEPT !.stage = "checking", !.aborted = run.aborted,
                               !.reason = run.reason]
        BY <2>1, <3>1 DEF Listen, Run
      <4>2. QED
        BY <2>1, <4>1 DEF Stage, Run
    <3>2. CASE AskProgress(s)
      <4>1. run' = [run EXCEPT !.stage = "invoking", !.aborted = run.aborted \/ ~Progress(s),
                               !.reason = run.reason]
        BY <2>1, <3>2 DEF AskProgress, Run
      <4>2. (run.aborted \/ ~Progress(s)) \in BOOLEAN
        OBVIOUS
      <4>3. QED
        BY <4>1, <4>2 DEF Stage
    <3>3. ASSUME NEW d \in Digest, BeginComplete(s, d)
          PROVE  \E stage \in Stage, aborted \in BOOLEAN :
                   run' = [run EXCEPT !.stage = stage, !.aborted = aborted,
                                      !.reason = run.reason]
      <4>1. \E stage \in {"completing", "failing"} :
              run' = [run EXCEPT !.stage = stage, !.aborted = run.aborted,
                                 !.reason = run.reason]
        BY <2>1, <3>3 DEF BeginComplete, Run
      <4>2. QED
        BY <2>1, <4>1 DEF Stage, Run
    <3>4. CASE BadResult(o, s) \/ Fail(o, s)
      <4>1. \E stage \in {"failing", "settling"} :
              run' = [run EXCEPT !.stage = stage, !.aborted = run.aborted,
                                 !.reason = run.reason]
        BY <2>1, <3>4 DEF BadResult, Fail, Run
      <4>2. QED
        BY <2>1, <4>1 DEF Stage, Run
    <3>5. QED
      BY <1>3, <3>1, <3>2, <3>3, <3>4 DEF RunStep
  <2>3. PICK stage \in Stage, aborted \in BOOLEAN :
          run' = [run EXCEPT !.stage = stage, !.aborted = aborted, !.reason = run.reason]
    BY <2>2
  <2>4. session' = session \/ (session = None /\ session' \in Session \ Held)
    BY <1>3, SpeakSession
       DEF RunStep, Listen, AskProgress, BadResult, BeginComplete, Fail, hostVars
  <2>5. UNCHANGED <<lease, leaving, approving>> /\ aborts' \subseteq Abort
    BY <1>3 DEF RunStep, Listen, AskProgress, BadResult, BeginComplete, Fail, hostVars, Shapes
  <2>6. completing' \subseteq CompleteCall /\ CommandsMove
    <3>1. CASE completing' = completing
      BY <2>5, <3>1 DEF Shapes, CommandsMove
    <3>2. ASSUME NEW d \in Digest, BeginComplete(s, d), Usable(run.cell), Room
          PROVE  completing' \subseteq CompleteCall /\ CommandsMove
      <4>1. s \in Session /\ memory[run.cell].version \in 0..CounterMax
        BY <2>1, <3>2, SpeakSession DEF BeginComplete, Usable, HostCells, GoodCell, JobCell, Run
      <4>2. [cell |-> run.cell, attempt |-> run.attempt, session |-> s,
             digest |-> d, version |-> memory[run.cell].version] \in CompleteCall
        BY <2>1, <4>1 DEF CompleteCall, Run
      <4>3. QED
        BY <2>5, <3>2, <4>2 DEF BeginComplete, Shapes, CommandsMove
    <3>3. QED
      BY <1>3, <3>1, <3>2
         DEF RunStep, Listen, AskProgress, BadResult, BeginComplete, Fail, hostVars
  <2>7. run.reason \in {"retryable", "permanent"}
    BY <2>1 DEF Run
  <2>8. Shapes' /\ PageMoves
    BY <1>3, <2>3, <2>4, <2>5, <2>6, <2>7, RunMoves
  <2>9. QED
    BY <2>6, <2>8
<1>4. QED
  BY <1>1, <1>2, <1>3

LEMMA StepShapes ==
  ASSUME HostCells, Shapes, Next, ~SomeRestart
  PROVE  Shapes' /\ PageMoves /\ CommandsMove
<1>1. ASSUME NEW o \in WriteOutcome, NEW s \in Session, Command(o, s)
      PROVE  Shapes' /\ PageMoves /\ CommandsMove
  <2>1. ASSUME NEW c \in Cell, Submit(c, o, s) \/ Reject(c, o, s)
        PROVE  Shapes' /\ PageMoves /\ CommandsMove
    <3>1. /\ Speak(s) /\ UNCHANGED <<lease, leaving, run>>
          /\ UNCHANGED <<completing, approving, aborts>>
      BY <2>1 DEF Submit, Reject
    <3>2. completing' \subseteq CompleteCall /\ aborts' \subseteq Abort
      BY <3>1 DEF Shapes
    <3>3. QED
      BY <3>1, <3>2, SpeakMoves DEF CommandsMove
  <2>2. ASSUME NEW c \in Cell, Cancel(c, o, s)
        PROVE  Shapes' /\ PageMoves /\ CommandsMove
    BY <2>2, CancelShapes
  <2>3. ASSUME NEW c \in Cell, NEW p \in Provider, Start(c, o, s, p)
        PROVE  Shapes' /\ PageMoves /\ CommandsMove
    BY <2>3, StartShapes
  <2>4. ASSUME NEW c \in Cell, NEW choice \in Choice, BeginApprove(c, choice, s)
        PROVE  Shapes' /\ PageMoves /\ CommandsMove
    <3>1. /\ Speak(s) /\ UNCHANGED <<lease, leaving, run>>
          /\ UNCHANGED <<completing, aborts>> /\ Room
      BY <2>4 DEF BeginApprove
    <3>2. CommandsMove
      BY <2>4 DEF BeginApprove, CommandsMove
    <3>3. completing' \subseteq CompleteCall /\ aborts' \subseteq Abort
      BY <3>1 DEF Shapes
    <3>4. QED
      BY <3>1, <3>2, <3>3, SpeakMoves
  <2>5. QED
    BY <1>1, <2>1, <2>2, <2>3, <2>4 DEF Command
<1>2. ASSUME NEW o \in WriteOutcome, NEW s \in Session, RunStep(o, s)
      PROVE  Shapes' /\ PageMoves /\ CommandsMove
  BY <1>2, RunStepShapes
<1>3. ASSUME NEW o \in WriteOutcome, NEW a \in approving, EndApprove(a, o)
      PROVE  Shapes' /\ PageMoves /\ CommandsMove
  BY <1>3 DEF EndApprove, pageVars, Shapes, PageMoves, SameSlot, CommandsMove
<1>4. ASSUME NEW o \in WriteOutcome, NEW m \in completing, EndComplete(m, o)
      PROVE  Shapes' /\ PageMoves /\ CommandsMove
  BY <1>4, EndCompleteShapes
<1>5. ASSUME NEW o \in WriteOutcome, TimerFires(o)
      PROVE  Shapes' /\ PageMoves /\ CommandsMove
  BY <1>5, SlotShapes
<1>6. ASSUME NEW o \in WriteOutcome, PageLost(o) \/ NavigationStarts(o)
      PROVE  Shapes' /\ PageMoves /\ CommandsMove
  BY <1>6, LeavingShapes
<1>7. ASSUME NEW reason \in {"retryable", "permanent"}, ProviderFails(reason)
      PROVE  Shapes' /\ PageMoves /\ CommandsMove
  <2>1. /\ run # None /\ run \in Run
        /\ run' = [run EXCEPT !.stage = "failing", !.aborted = run.aborted,
                              !.reason = reason]
        /\ UNCHANGED <<hostVars, session, leaving, aborts>>
    BY <1>7 DEF ProviderFails, Shapes, Run
  <2>2. run.aborted \in BOOLEAN /\ "failing" \in Stage
    BY <2>1 DEF Run, Stage
  <2>3. completing' \subseteq CompleteCall /\ aborts' \subseteq Abort
    BY <2>1 DEF hostVars, Shapes
  <2>4. QED
    BY <2>1, <2>2, <2>3, RunMoves DEF hostVars, CommandsMove
<1>8. ASSUME NEW m \in aborts, DeliverAbort(m)
      PROVE  Shapes' /\ PageMoves /\ CommandsMove
  <2>1. UNCHANGED <<hostVars, session, leaving>> /\ aborts' \subseteq Abort
    BY <1>8 DEF DeliverAbort, Shapes
  <2>2. CASE run' = run
    BY <2>1, <2>2 DEF hostVars, Shapes, PageMoves, SameSlot, CommandsMove
  <2>3. CASE run # None /\ run' = [run EXCEPT !.aborted = TRUE]
    <3>1. /\ run' \in Run
          /\ run'.cell = run.cell /\ run'.attempt = run.attempt /\ run'.session = run.session
      BY <2>3 DEF Shapes, Run
    <3>2. QED
      BY <2>1, <2>3, <3>1 DEF hostVars, Shapes, PageMoves, SameSlot, CommandsMove
  <2>4. QED
    BY <1>8, <2>2, <2>3 DEF DeliverAbort
<1>9. CASE ProviderReturns
  <2>1. /\ run # None /\ run \in Run
        /\ run' = [run EXCEPT !.stage = "returned"]
        /\ UNCHANGED <<hostVars, session, leaving, aborts>>
    BY <1>9 DEF ProviderReturns, Shapes
  <2>2. /\ run' \in Run
        /\ run'.cell = run.cell /\ run'.attempt = run.attempt /\ run'.session = run.session
    BY <2>1 DEF Run, Stage
  <2>3. QED
    BY <2>1, <2>2 DEF hostVars, Shapes, PageMoves, SameSlot, CommandsMove
<1>10. CASE NavigationFails \/ NavigationCommits
  BY <1>10 DEF NavigationFails, NavigationCommits, hostVars, Shapes, PageMoves, SameSlot,
               CommandsMove
<1>11. CASE DeadlinePasses
  BY <1>11, SlotShapes
<1>12. QED
  BY <1>1, <1>2, <1>3, <1>4, <1>5, <1>6, <1>7, <1>8, <1>9, <1>10, <1>11
     DEF Next, SomeRestart

-----------------------------------------------------------------------------
(* The inductive invariant.                                                  *)

HostInv ==
  /\ HostCells
  /\ Approvals
  /\ Shapes
  /\ CommandsBounded
  /\ RunningIsLeased
  /\ SlotCoversInvocation

LEMMA HostInvInit == Init => HostInv
<1> SUFFICES ASSUME Init PROVE HostInv
  OBVIOUS
<1>1. HostCells
  BY DEF Init, HostCells, CacheCoherent
<1>2. Approvals /\ Shapes
  BY DEF Init, Approvals, Shapes
<1>3. CommandsBounded
  BY FS_EmptySet DEF Init, CommandsBounded
<1>4. RunningIsLeased /\ SlotCoversInvocation
  BY DEF Init, RunningIsLeased, Running, SlotCoversInvocation
<1>5. QED
  BY <1>1, <1>2, <1>3, <1>4 DEF HostInv

\* A restart leaves nothing in progress.
LEMMA HostInvRestart ==
  ASSUME HostInv, SomeRestart
  PROVE  HostInv'
<1>1. PICK f \in [Cell -> WriteOutcome] : Restart(f)
  BY DEF SomeRestart
<1>2. HostCells' /\ RunningIsLeased'
  BY <1>1, RestartKeeps DEF HostInv
<1>3. /\ lease' = None /\ completing' = {} /\ approving' = {}
      /\ session' = None /\ leaving' = FALSE /\ run' = None /\ aborts' = {}
  BY <1>1 DEF Restart
<1>4. Approvals' /\ Shapes' /\ SlotCoversInvocation'
  BY <1>3 DEF Approvals, Shapes, SlotCoversInvocation
<1>5. CommandsBounded'
  BY <1>3, FS_EmptySet DEF CommandsBounded
<1>6. QED
  BY <1>2, <1>4, <1>5 DEF HostInv

\* A new approval is about a result that is there.
LEMMA ApprovalsKept ==
  ASSUME HostInv, Next, ~SomeRestart
  PROVE  Approvals'
<1>1. HostCells /\ Approvals /\ CellsMove
  BY StepMoves DEF HostInv
<1>2. CASE approving' \subseteq approving
  BY <1>1, <1>2, MoveKeepsApprovals
<1>3. ASSUME NEW c \in Cell, NEW choice \in Choice, NEW s \in Session,
             BeginApprove(c, choice, s)
      PROVE  Approvals'
  <2> DEFINE a == [cell |-> c, selection |-> [kind |-> "approved", choice |-> choice],
                   version |-> memory[c].version]
  <2>1. GoodCell(memory[c]) /\ memory[c] # None /\ memory[c].state.phase = "succeeded"
    BY <1>1, <1>3
       DEF BeginApprove, Usable, HostCells, GoodCell, Sound, Restorable
  <2>2. a \in ApproveCall /\ a.selection.kind = "approved"
    BY <2>1 DEF ApproveCall, Selection, GoodCell, JobCell
  <2>3. approving' = approving \cup {a} /\ memory' = memory
    BY <1>3 DEF BeginApprove
  <2>4. a.cell = c /\ a.version = memory[c].version /\ memory[c].version \in Nat
    BY <2>1 DEF GoodCell, JobCell
  <2> HIDE DEF a
  <2>5. QED
    BY <1>1, <2>1, <2>2, <2>3, <2>4 DEF Approvals
<1>4. \/ approving' \subseteq approving
      \/ \E c \in Cell, choice \in Choice, s \in Session : BeginApprove(c, choice, s)
  <2>1. ASSUME NEW o \in WriteOutcome, NEW s \in Session, Command(o, s)
        PROVE  \/ approving' = approving
               \/ \E c \in Cell, choice \in Choice : BeginApprove(c, choice, s)
    BY <2>1 DEF Command, Submit, Cancel, Reject, Start
  <2>2. ASSUME NEW o \in WriteOutcome, NEW s \in Session, RunStep(o, s)
        PROVE  approving' = approving
    BY <2>2 DEF RunStep, Listen, AskProgress, BadResult, BeginComplete, Fail, Settle, hostVars
  <2>3. ASSUME NEW o \in WriteOutcome,
               \/ \E a \in approving : EndApprove(a, o)
               \/ \E m \in completing : EndComplete(m, o)
               \/ TimerFires(o) \/ PageLost(o) \/ NavigationStarts(o)
        PROVE  approving' \subseteq approving
    BY <2>3 DEF EndApprove, EndComplete, TimerFires, PageLost, NavigationStarts
  <2>4. ASSUME \/ \E reason \in {"retryable", "permanent"} : ProviderFails(reason)
               \/ \E m \in aborts : DeliverAbort(m)
               \/ ProviderReturns \/ DeadlinePasses \/ NavigationFails \/ NavigationCommits
        PROVE  approving' = approving
    BY <2>4 DEF ProviderFails, DeliverAbort, ProviderReturns, DeadlinePasses,
                NavigationFails, NavigationCommits, hostVars
  <2>5. QED
    BY <2>1, <2>2, <2>3, <2>4 DEF Next, SomeRestart
<1>5. QED
  BY <1>2, <1>3, <1>4

LEMMA HostInvStep == HostInv /\ [Next]_vars => HostInv'
<1> SUFFICES ASSUME HostInv, [Next]_vars PROVE HostInv'
  OBVIOUS
<1>1. CASE SomeRestart
  BY <1>1, HostInvRestart
<1>2. CASE Next /\ ~SomeRestart
  <2>1. CellsMove /\ SlotMoves
    BY <1>2, StepMoves DEF HostInv
  <2>2. Shapes' /\ PageMoves /\ CommandsMove
    BY <1>2, StepShapes DEF HostInv
  <2>3. HostCells' /\ RunningIsLeased'
    BY <2>1, MoveKeepsCells, MoveKeepsLeased DEF HostInv
  <2>4. Approvals'
    BY <1>2, ApprovalsKept
  <2>5. CommandsBounded'
    BY <2>2, CommandsStayBounded DEF HostInv
  <2>6. SlotCoversInvocation'
    BY <2>2, PageStaysCovered DEF HostInv
  <2>7. QED
    BY <2>2, <2>3, <2>4, <2>5, <2>6 DEF HostInv
<1>3. CASE UNCHANGED vars
  BY <1>3 DEF vars, hostVars, pageVars, HostInv, HostCells, CacheCoherent, Approvals, Shapes,
              CommandsBounded, RunningIsLeased, Running, SlotCoversInvocation, Leased
<1>4. QED
  BY <1>1, <1>2, <1>3

THEOREM HostInvariant == Spec => []HostInv
<1>1. Init => HostInv
  BY HostInvInit
<1>2. HostInv /\ [Next]_vars => HostInv'
  BY HostInvStep
<1>3. QED
  BY <1>1, <1>2, PTL DEF Spec

-----------------------------------------------------------------------------
(* What follows from it.                                                     *)

\* Every variable keeps its type and the commands in progress keep to
\* LOCAL_HOST_LIMITS.pending, whatever the limits and however many jobs.
THEOREM HostTypes == Spec => []TypeOK
<1>1. HostInv => TypeOK
  BY DEF HostInv, HostCells, Approvals, Shapes, CommandsBounded, TypeOK
<1>2. QED
  BY <1>1, HostInvariant, PTL

\* A host that is started again reads back every cell file it has left behind:
\* no order of commands, failed writes and restarts makes checkCell refuse one.
THEOREM HostCellsRestorable == Spec => []CellsRestorable
<1>1. HostInv => CellsRestorable
  BY DEF HostInv, HostCells, GoodCell, CellsRestorable
<1>2. QED
  BY <1>1, HostInvariant, PTL

\* What the host has in memory of a cell that is not frozen is what it has on
\* disk, so that current() never works on a cell a restart would not find.
THEOREM HostCacheCoherent == Spec => []CacheCoherent
<1>1. HostInv => CacheCoherent
  BY DEF HostInv, HostCells
<1>2. QED
  BY <1>1, HostInvariant, PTL

\* A running job holds the physical slot with a timer armed for its attempt, or
\* its cell is frozen: no job runs that nothing will end.
THEOREM HostRunningIsLeased == Spec => []RunningIsLeased
<1>1. HostInv => RunningIsLeased
  BY DEF HostInv
<1>2. QED
  BY <1>1, HostInvariant, PTL

\* The slot stays with the page that invokes the provider until that call has
\* settled or the page is lost, whoever cancels or expires the attempt.
THEOREM HostSlotCoversInvocation == Spec => []SlotCoversInvocation
<1>1. HostInv => SlotCoversInvocation
  BY DEF HostInv
<1>2. QED
  BY <1>1, HostInvariant, PTL

-----------------------------------------------------------------------------
(* What no step does.                                                        *)

LEMMA StepMovesDisk ==
  ASSUME HostInv, Next, ~SomeRestart, NEW c \in Cell, disk'[c] # disk[c]
  PROVE  /\ disk[c] = memory[c] /\ disk'[c] # None
         /\ IF memory[c] = None
            THEN disk'[c].state = Submitted /\ disk'[c].selection = None
            ELSE CellFollows(memory[c], disk'[c])
         /\ disk'[c].state.phase = "succeeded" =>
              /\ memory[c] # None
              /\ memory[c].state.phase = "succeeded" \/ Fenced(c, disk'[c])
<1>1. CellsMove
  BY StepMoves DEF HostInv
<1>2. ~NoCommit
  BY DEF NoCommit
<1>3. PICK d \in Cell, new \in JobCell, o \in WriteOutcome :
        /\ d \notin frozen
        /\ IF memory[d] = None
           THEN new.state = Submitted /\ new.selection = None
           ELSE CellFollows(memory[d], new)
        /\ new.state.phase = "succeeded" =>
             /\ memory[d] # None
             /\ memory[d].state.phase = "succeeded" \/ Fenced(d, new)
        /\ Commit(d, new, o)
  BY <1>1, <1>2 DEF CellsMove
<1>4. d = c /\ disk'[c] = new
  BY <1>3 DEF Commit, HostInv, HostCells
<1>5. disk[c] = memory[c] /\ disk'[c] # None
  BY <1>3, <1>4, HostNoneAssumption DEF HostInv, HostCells, CacheCoherent
<1>6. QED
  BY <1>3, <1>4, <1>5

\* A restart only expires attempts: what was decided stays, nothing succeeds.
LEMMA RestartMovesDisk ==
  ASSUME HostInv, SomeRestart, NEW c \in Cell, disk'[c] # disk[c]
  PROVE  /\ disk[c] # None /\ disk'[c] # None /\ CellFollows(disk[c], disk'[c])
         /\ disk'[c].state.phase # "succeeded"
<1>1. PICK f \in [Cell -> WriteOutcome] : Restart(f)
  BY DEF SomeRestart
<1>2. /\ disk[c] # None /\ GoodCell(disk[c]) /\ disk[c].state.phase = "running"
      /\ Countable(disk[c].state) /\ disk[c].version < CounterMax
      /\ disk'[c] = [disk[c] EXCEPT !.state = Expired(@), !.version = @ + 1]
  BY <1>1 DEF Restart, HostInv, HostCells
<1>3. CanExpire(disk[c].state, disk[c].state.attempt, disk[c].state.active.renewal)
  BY <1>2 DEF CanExpire, RunningAttempt
<1>4. /\ Advances(disk[c].state, Expired(disk[c].state))
      /\ Expired(disk[c].state).phase \in {"retryable", "failed"}
  BY <1>2, <1>3, ExpiryAdvances DEF GoodCell
<1>5. disk'[c] # None /\ CellFollows(disk[c], disk'[c])
  <2> DEFINE x == disk[c]
             k == Expired(x.state)
  <2>1. GoodCell(x) /\ x.version < CounterMax /\ Advances(x.state, k)
    BY <1>2, <1>4
  <2>2. disk'[c] = [x EXCEPT !.state = k, !.version = @ + 1]
    BY <1>2
  <2> HIDE DEF x, k
  <2>3. /\ GoodCell([x EXCEPT !.state = k, !.version = @ + 1])
        /\ CellFollows(x, [x EXCEPT !.state = k, !.version = @ + 1])
    BY <2>1, MovedGood
  <2>4. QED
    BY <2>2, <2>3, HostNoneAssumption DEF x, GoodCell
<1>6. disk'[c].state = Expired(disk[c].state)
  BY <1>2 DEF GoodCell, JobCell
<1>7. QED
  BY <1>2, <1>4, <1>5, <1>6

\* The fence of complete: a cell comes to succeed only by a call that holds the
\* slot before its deadline and read the version that is still the current one.
THEOREM HostAdoptionIsFenced == Spec => AdoptionIsFenced
<1> DEFINE FencedStep ==
      \A c \in Cell : ~Succeeded(disk, c) /\ Succeeded(disk', c) =>
        /\ lease # None /\ ~lease.late
        /\ \E k \in completing \ completing' :
             /\ k.cell = c /\ Leased(c, k.attempt, k.session)
             /\ k.version = disk[c].version
             /\ disk'[c].state.result.digest = k.digest
<1>1. HostInv /\ [Next]_vars => [FencedStep]_vars
  <2> SUFFICES ASSUME HostInv, Next, NEW c \in Cell,
                      ~Succeeded(disk, c), Succeeded(disk', c)
               PROVE  /\ lease # None /\ ~lease.late
                      /\ \E k \in completing \ completing' :
                           /\ k.cell = c /\ Leased(c, k.attempt, k.session)
                           /\ k.version = disk[c].version
                           /\ disk'[c].state.result.digest = k.digest
    OBVIOUS
  <2>1. disk'[c] # disk[c] /\ disk'[c].state.phase = "succeeded"
    BY DEF Succeeded
  <2>2. ~SomeRestart
    BY <2>1, RestartMovesDisk
  <2>3. Fenced(c, disk'[c]) /\ disk[c] = memory[c]
    BY <2>1, <2>2, StepMovesDisk DEF Succeeded
  <2>4. QED
    BY <2>3 DEF Fenced
<1>2. QED
  BY <1>1, HostInvariant, PTL DEF Spec, AdoptionIsFenced

\* No command, failed write or restart replaces a stored decision or the result
\* it was taken on.
THEOREM HostDecisionStands == Spec => DecisionStands
<1> DEFINE StandingStep ==
      \A c \in Cell : disk[c] # None /\ disk[c].selection # None =>
        /\ disk'[c].selection = disk[c].selection
        /\ disk'[c].state = disk[c].state
<1>1. HostInv /\ [Next]_vars => [StandingStep]_vars
  <2> SUFFICES ASSUME HostInv, Next, NEW c \in Cell,
                      disk[c] # None, disk[c].selection # None
               PROVE  disk'[c] = disk[c]
    OBVIOUS
  <2>1. CASE SomeRestart
    BY <2>1, RestartMovesDisk DEF CellFollows
  <2>2. CASE ~SomeRestart
    BY <2>2, StepMovesDisk DEF CellFollows
  <2>3. QED
    BY <2>1, <2>2
<1>2. QED
  BY <1>1, HostInvariant, PTL DEF Spec, DecisionStands

-----------------------------------------------------------------------------
(* The disk keeps the promise of JobContract.                                *)

LEMMA OverIsSettled ==
  ASSUME NEW j, Sound(j), j.phase = "succeeded"
  PROVE  OutcomeOf(j) # None /\ OutcomeOf(j).kind = "succeeded"
<1>1. j.result \in Result
  BY DEF Sound, Restorable, Job
<1>2. OutcomeOf(j) = [kind |-> "succeeded", result |-> j.result]
  BY DEF OutcomeOf
<1>3. [kind |-> "succeeded", result |-> j.result] \in Outcome
  BY <1>1 DEF Outcome
<1>4. QED
  BY <1>2, <1>3, OutcomeAssumption

\* A cell that is created or follows what it was is one step of the contract.
LEMMA CellStep ==
  ASSUME NEW c \in Cell,
         disk[c] # None => GoodCell(disk[c]) /\ disk'[c] # None,
         IF disk[c] = None
         THEN disk'[c].state = Submitted /\ disk'[c].selection = None
         ELSE CellFollows(disk[c], disk'[c])
  PROVE  [Contract(c)!Next]_(Contract(c)!vars)
<1>1. CASE disk[c] = None
  <2>1. JobOf(c) = Submitted /\ JobOf(c)' = Submitted
    BY <1>1 DEF JobOf
  <2>2. VerdictOf(c) = "undecided" /\ VerdictOf(c)' = "undecided"
    BY <1>1 DEF VerdictOf
  <2>3. QED
    BY <2>1, <2>2 DEF Contract!vars
<1>2. CASE disk[c] # None
  <2> DEFINE j == disk[c].state
             k == disk'[c].state
  <2>1. JobOf(c) = j /\ JobOf(c)' = k /\ VerdictOf(c) = "undecided"
    BY <1>2 DEF JobOf, VerdictOf, CellFollows
  <2>2. Sound(j) /\ CellFollows(disk[c], disk'[c])
    BY <1>2 DEF GoodCell
  <2> HIDE DEF j, k
  <2>3. CASE disk'[c].selection = None /\ Follows(j, k)
    <3>1. VerdictOf(c)' = "undecided"
      BY <2>3 DEF VerdictOf
    <3>2. CASE SeenAlike(j, k)
      BY <2>1, <3>1, <3>2 DEF SeenAlike, Contract!vars
    <3>3. CASE Begins(j, k)
      BY <2>1, <3>1, <3>3 DEF Begins, Contract!Begin, Contract!Next
    <3>4. CASE GivesBack(j, k)
      BY <2>1, <3>1, <3>4 DEF GivesBack, Contract!GiveBack, Contract!Next
    <3>5. CASE Finishes(j, k)
      <4>1. Contract(c)!Finish(OutcomeOf(k)) \/ Contract(c)!Cancel(OutcomeOf(k))
        BY <2>1, <3>1, <3>5 DEF Finishes, Contract!Finish, Contract!Cancel
      <4>2. QED
        BY <3>5, <4>1 DEF Finishes, Contract!Next
    <3>6. QED
      BY <2>3, <3>2, <3>3, <3>4, <3>5 DEF Follows
  <2>4. CASE /\ disk'[c].selection \in Selection
             /\ j.phase = "succeeded"
             /\ SeenAlike(j, k)
    <3>1. OutcomeOf(j) # None /\ OutcomeOf(j).kind = "succeeded"
      BY <2>2, <2>4, OverIsSettled
    <3>2. VerdictOf(c)' \in {"accepted", "rejected"}
      BY <1>2, <2>4, HostNoneAssumption DEF VerdictOf, Selection
    <3>3. Contract(c)!Decide(VerdictOf(c)')
      BY <2>1, <2>4, <3>1 DEF SeenAlike, Contract!Decide
    <3>4. QED
      BY <3>2, <3>3 DEF Contract!Next
  <2>5. QED
    BY <2>2, <2>3, <2>4 DEF CellFollows, j, k
<1>3. QED
  BY <1>1, <1>2

\* Each job, as the disk has it, implements JobContract: one outcome at most,
\* numbered attempts that run one at a time, and one decision on a success only,
\* through failed writes, lost pages and restarts.
THEOREM HostHonoursContract == Spec => HonoursContract
<1>1. Init => \A c \in Cell : Contract(c)!Init
  <2> SUFFICES ASSUME Init, NEW c \in Cell PROVE Contract(c)!Init
    OBVIOUS
  <2>1. JobOf(c) = Submitted /\ VerdictOf(c) = "undecided"
    BY DEF Init, JobOf, VerdictOf
  <2>2. StatusOf(Submitted) = "waiting" /\ Submitted.attempt = 0 /\ OutcomeOf(Submitted) = None
    BY DEF Submitted, StatusOf, OutcomeOf, TerminalPhase
  <2>3. QED
    BY <2>1, <2>2 DEF Contract!Init
<1>2. HostInv /\ HostInv' /\ [Next]_vars
        => [\A c \in Cell : [Contract(c)!Next]_(Contract(c)!vars)]_vars
  <2> SUFFICES ASSUME HostInv, HostInv', Next, NEW c \in Cell
               PROVE  [Contract(c)!Next]_(Contract(c)!vars)
    OBVIOUS
  <2>1. CASE disk'[c] = disk[c]
    <3>1. JobOf(c)' = JobOf(c) /\ VerdictOf(c)' = VerdictOf(c)
      BY <2>1 DEF JobOf, VerdictOf
    <3>2. QED
      BY <3>1 DEF Contract!vars
  <2>2. CASE disk'[c] # disk[c]
    <3>1. disk[c] # None => GoodCell(disk[c])
      BY DEF HostInv, HostCells
    <3>2. /\ disk'[c] # None
          /\ IF disk[c] = None
             THEN disk'[c].state = Submitted /\ disk'[c].selection = None
             ELSE CellFollows(disk[c], disk'[c])
      BY <2>2, StepMovesDisk, RestartMovesDisk
    <3>3. QED
      BY <3>1, <3>2, CellStep
  <2>3. QED
    BY <2>1, <2>2
<1>3. QED
  BY <1>1, <1>2, HostInvariant, PTL DEF Spec, HonoursContract

-----------------------------------------------------------------------------
(* Aborts are not lost.  The calls of complete that an earlier page has left *)
(* behind are of earlier attempts: none of them can end the attempt of a     *)
(* page that has not yet asked to complete.                                  *)

Before == {"starting", "checking", "invoking", "returned"}

Known(c, n) == memory[c] # None /\ n <= memory[c].state.attempt

KnownNext(c, n) == memory'[c] # None /\ n <= memory'[c].state.attempt

CallsKnown == \A k \in completing : Known(k.cell, k.attempt)

RunKnown == run # None => Known(run.cell, run.attempt)

RunUncompleted ==
  run # None /\ run.stage \in Before =>
    \A k \in completing : k.cell = run.cell => k.attempt # run.attempt

CallsInv == CallsKnown /\ RunKnown /\ RunUncompleted

\* What a step does to the run, and to the calls that have come in.
RunGoesOn ==
  \/ run' = None
  \/ /\ run # None
     /\ run'.cell = run.cell /\ run'.attempt = run.attempt
     /\ run'.stage \in Before => run.stage \in Before /\ completing' \subseteq completing
  \/ /\ memory[run'.cell] # None /\ run'.cell \in Cell
     /\ run'.attempt = memory[run'.cell].state.attempt + 1
     /\ KnownNext(run'.cell, run'.attempt)
     /\ completing' \subseteq completing

CallsGoOn ==
  \A k \in completing' :
    k \in completing \/ (run # None /\ k.cell = run.cell /\ k.attempt = run.attempt)

LEMMA AttemptsGrow ==
  ASSUME HostCells, CellsMove, NEW c \in Cell, NEW n \in Nat, Known(c, n)
  PROVE  KnownNext(c, n)
<1>1. CASE NoCommit
  BY <1>1 DEF NoCommit, Known, KnownNext
<1>2. ASSUME NEW d \in Cell, NEW new \in JobCell, NEW o \in WriteOutcome,
             memory[d] # None => CellFollows(memory[d], new),
             GoodCell(new), Commit(d, new, o)
      PROVE  KnownNext(c, n)
  <2>1. CASE memory'[c] = memory[c]
    BY <2>1 DEF Known, KnownNext
  <2>2. CASE memory'[c] # memory[c]
    <3>1. c = d /\ memory'[c] = new
      BY <1>2, <2>2 DEF Commit, HostCells
    <3>2. GoodCell(memory[c]) /\ CellFollows(memory[c], new)
      BY <1>2, <3>1 DEF Known, HostCells
    <3>3. memory[c].state.attempt \in Nat /\ new.state.attempt \in Nat
      BY <1>2, <3>2 DEF GoodCell, Sound, Job
    <3>4. Follows(memory[c].state, new.state)
      BY <3>2 DEF CellFollows, Follows
    <3>5. new.state.attempt >= memory[c].state.attempt
      BY <3>3, <3>4, FollowsLater
    <3>6. memory'[c] # None
      BY <3>1, HostNoneAssumption
    <3>7. QED
      BY <3>1, <3>3, <3>5, <3>6 DEF Known, KnownNext
  <2>3. QED
    BY <2>1, <2>2
<1>3. QED
  BY <1>1, <1>2 DEF CellsMove

LEMMA CallsInvMoves ==
  ASSUME HostInv, HostInv', CallsInv, CellsMove, RunGoesOn, CallsGoOn
  PROVE  CallsInv'
<1>1. /\ completing \subseteq CompleteCall /\ completing' \subseteq CompleteCall
      /\ run \in Run \cup {None} /\ run' \in Run \cup {None}
      /\ HostCells
  BY DEF HostInv, Shapes
<1>2. ASSUME run # None
      PROVE  run.cell \in Cell /\ run.attempt \in Nat /\ KnownNext(run.cell, run.attempt)
  <2>1. run.cell \in Cell /\ run.attempt \in Nat
    BY <1>1, <1>2 DEF Run
  <2>2. QED
    BY <1>1, <1>2, <2>1, AttemptsGrow DEF CallsInv, RunKnown
<1>3. ASSUME NEW k \in completing
      PROVE  k.cell \in Cell /\ k.attempt \in Nat /\ KnownNext(k.cell, k.attempt)
  <2>1. k.cell \in Cell /\ k.attempt \in Nat
    BY <1>1 DEF CompleteCall
  <2>2. QED
    BY <1>1, <2>1, AttemptsGrow DEF CallsInv, CallsKnown
<1>4. CallsKnown'
  BY <1>2, <1>3 DEF CallsGoOn, CallsKnown, Known, KnownNext
<1>5. RunKnown'
  BY <1>2 DEF RunGoesOn, RunKnown, Known, KnownNext
<1>6. RunUncompleted'
  <2>1. CASE run' = None
    BY <2>1 DEF RunUncompleted
  <2>2. CASE /\ run # None
             /\ run'.cell = run.cell /\ run'.attempt = run.attempt
             /\ run'.stage \in Before => run.stage \in Before /\ completing' \subseteq completing
    BY <2>2 DEF RunUncompleted, CallsInv
  <2>3. CASE /\ memory[run'.cell] # None /\ run'.cell \in Cell
             /\ run'.attempt = memory[run'.cell].state.attempt + 1
             /\ completing' \subseteq completing
    <3>1. memory[run'.cell].state.attempt \in Nat
      BY <1>1, <2>3 DEF HostCells, GoodCell, Sound, Job
    <3>2. \A k \in completing : k.cell = run'.cell => k.attempt # run'.attempt
      BY <1>3, <2>3, <3>1 DEF CallsInv, CallsKnown, Known
    <3>3. QED
      BY <2>3, <3>2 DEF RunUncompleted
  <2>4. QED
    BY <2>1, <2>2, <2>3 DEF RunGoesOn
<1>7. QED
  BY <1>4, <1>5, <1>6 DEF CallsInv

LEMMA StartRuns ==
  ASSUME HostInv, NEW c \in Cell, NEW o \in WriteOutcome, NEW s \in Session,
         NEW p \in Provider, Start(c, o, s, p)
  PROVE  RunGoesOn /\ CallsGoOn
<1> DEFINE n == memory[c].state.attempt + 1
<1>1. /\ memory[c] # None /\ GoodCell(memory[c])
      /\ CanClaim(ToClaim(c)) /\ Versionable(c)
      /\ HostCells /\ run = None /\ completing' = completing
  BY DEF Start, Usable, HostInv, HostCells
<1>2. CASE o = "ok"
  <2>1. /\ run' = [stage |-> "starting", cell |-> c, attempt |-> n, session |-> s,
                   aborted |-> FALSE, reason |-> "retryable"]
        /\ memory'[c] = Stored(c, Claimed(ToClaim(c), p))
    BY <1>1, <1>2 DEF Start, Commit, HostCells
  <2>2. Sound(ToClaim(c)) /\ ToClaim(c).attempt = memory[c].state.attempt
    BY <1>1, ToClaimSound
  <2>3. Claimed(ToClaim(c), p).attempt = n
    BY <2>2 DEF Sound, Claimed, Bump, Job
  <2>4. Stored(c, Claimed(ToClaim(c), p)).state = Claimed(ToClaim(c), p)
    BY <1>1 DEF Stored, GoodCell, JobCell
  <2>5. memory'[c].state.attempt = n
    BY <2>1, <2>3, <2>4
  <2>6. Stored(c, Claimed(ToClaim(c), p)) \in JobCell
    <3>1. Claimed(ToClaim(c), p) \in Job
      BY <1>1, <2>2, ClaimedSound DEF Sound
    <3>2. memory[c] \in JobCell /\ memory[c].version + 1 \in 0..CounterMax
      BY <1>1 DEF GoodCell, JobCell, Versionable
    <3>3. QED
      BY <3>1, <3>2 DEF Stored, JobCell
  <2>7. memory'[c] # None
    BY <2>1, <2>6, HostNoneAssumption
  <2>8. run'.cell = c /\ run'.attempt = n
    BY <2>1
  <2>9. n \in Nat
    BY <1>1 DEF GoodCell, Sound, Job
  <2> HIDE DEF n
  <2>10. KnownNext(c, n)
    BY <2>5, <2>7, <2>9 DEF KnownNext
  <2>11. QED
    BY <1>1, <2>8, <2>10 DEF RunGoesOn, CallsGoOn, n
<1>3. CASE o # "ok"
  BY <1>1, <1>3 DEF Start, RunGoesOn, CallsGoOn
<1>4. QED
  BY <1>2, <1>3

\* A page whose run only changes its stage, or has its aborted flag set.
LEMMA StageMoves ==
  ASSUME Shapes, run # None, UNCHANGED completing,
         run' = run \/ \E x : run' = [run EXCEPT !.aborted = x]
  PROVE  RunGoesOn /\ CallsGoOn
BY DEF Shapes, Run, RunGoesOn, CallsGoOn

LEMMA RunStepRuns ==
  ASSUME HostInv, NEW o \in WriteOutcome, NEW s \in Session, RunStep(o, s)
  PROVE  RunGoesOn /\ CallsGoOn
<1>1. CASE Settle(o, s)
  BY <1>1 DEF Settle, RunGoesOn, CallsGoOn
<1>2. CASE ~Settle(o, s)
  <2>1. run # None /\ run \in Run
    BY <1>2 DEF RunStep, Listen, AskProgress, BadResult, BeginComplete, Fail, HostInv, Shapes
  <2>2. CASE Listen
    BY <2>1, <2>2 DEF Listen, hostVars, Run, Before, RunGoesOn, CallsGoOn
  <2>3. CASE AskProgress(s)
    BY <2>1, <2>3 DEF AskProgress, hostVars, Run, Before, RunGoesOn, CallsGoOn
  <2>4. CASE BadResult(o, s) \/ Fail(o, s)
    BY <2>1, <2>4 DEF BadResult, Fail, Run, Before, RunGoesOn, CallsGoOn
  <2>5. ASSUME NEW d \in Digest, BeginComplete(s, d)
        PROVE  RunGoesOn /\ CallsGoOn
    <3>1. /\ run'.cell = run.cell /\ run'.attempt = run.attempt
          /\ run'.stage \in {"completing", "failing"}
      BY <2>1, <2>5 DEF BeginComplete, Run
    <3>2. RunGoesOn
      BY <2>1, <3>1 DEF RunGoesOn, Before
    <3>3. \/ completing' = completing
          \/ completing' = completing \cup
               {[cell |-> run.cell, attempt |-> run.attempt, session |-> s,
                 digest |-> d, version |-> memory[run.cell].version]}
      BY <2>5 DEF BeginComplete
    <3>4. CallsGoOn
      BY <2>1, <3>3 DEF CallsGoOn
    <3>5. QED
      BY <3>2, <3>4
  <2>6. QED
    BY <1>2, <2>2, <2>3, <2>4, <2>5 DEF RunStep
<1>3. QED
  BY <1>1, <1>2

LEMMA StepRuns ==
  ASSUME HostInv, Next, ~SomeRestart
  PROVE  RunGoesOn /\ CallsGoOn
<1>1. ASSUME run' = run, completing' \subseteq completing
      PROVE  RunGoesOn /\ CallsGoOn
  BY <1>1 DEF RunGoesOn, CallsGoOn
<1>2. ASSUME NEW o \in WriteOutcome, NEW s \in Session, Command(o, s)
      PROVE  RunGoesOn /\ CallsGoOn
  <2>1. ASSUME NEW c \in Cell, NEW p \in Provider, Start(c, o, s, p)
        PROVE  RunGoesOn /\ CallsGoOn
    BY <2>1, StartRuns
  <2>2. QED
    BY <1>1, <1>2, <2>1 DEF Command, Submit, Cancel, Reject, BeginApprove
<1>3. ASSUME NEW o \in WriteOutcome, NEW s \in Session, RunStep(o, s)
      PROVE  RunGoesOn /\ CallsGoOn
  BY <1>3, RunStepRuns
<1>4. ASSUME NEW o \in WriteOutcome, NEW m \in completing, EndComplete(m, o)
      PROVE  RunGoesOn /\ CallsGoOn
  <2>1. completing' \subseteq completing
    BY <1>4 DEF EndComplete
  <2>2. \E ok \in BOOLEAN : Answer(m, ok)
    BY <1>4 DEF EndComplete
  <2>3. \/ run' = run
        \/ /\ run # None /\ run'.cell = run.cell /\ run'.attempt = run.attempt
           /\ run'.stage \notin Before
    BY <2>2 DEF Answer, HostInv, Shapes, Run, Before
  <2>4. QED
    BY <1>1, <2>1, <2>3 DEF RunGoesOn, CallsGoOn
<1>5. ASSUME NEW o \in WriteOutcome,
             \/ \E a \in approving : EndApprove(a, o)
             \/ TimerFires(o) \/ PageLost(o) \/ NavigationStarts(o)
      PROVE  RunGoesOn /\ CallsGoOn
  BY <1>5 DEF EndApprove, TimerFires, PageLost, NavigationStarts, pageVars,
              RunGoesOn, CallsGoOn
<1>6. CASE \/ \E reason \in {"retryable", "permanent"} : ProviderFails(reason)
           \/ \E m \in aborts : DeliverAbort(m)
           \/ ProviderReturns
  <2>1. run \in Run \cup {None}
    BY DEF HostInv, Shapes
  <2>2. QED
    BY <1>6, <2>1 DEF ProviderFails, DeliverAbort, ProviderReturns, hostVars, Run, Before,
                      RunGoesOn, CallsGoOn
<1>7. CASE DeadlinePasses \/ NavigationFails \/ NavigationCommits
  BY <1>7 DEF DeadlinePasses, NavigationFails, NavigationCommits, hostVars, pageVars,
              RunGoesOn, CallsGoOn
<1>8. QED
  BY <1>2, <1>3, <1>4, <1>5, <1>6, <1>7 DEF Next, SomeRestart

\* The message that would tell the page that its attempt has ended.
RunMessage == [cell |-> run.cell, attempt |-> run.attempt]

AbortInv == CallsInv /\ AbortNotLost

LEMMA NotInvoking ==
  ASSUME \/ run' = None \/ run'.stage # "invoking" \/ run'.aborted
         \/ session' = None /\ Shapes'
  PROVE  AbortNotLost'
BY HostNoneAssumption DEF AbortNotLost, Shapes, Run

\* A step that leaves the run alone tells its page, unless the attempt was over
\* before or is not touched.
LEMMA Told ==
  ASSUME HostInv, AbortInv, run' = run, aborts \subseteq aborts', frozen \subseteq frozen',
         session' = session \/ (session = None /\ session' \notin Held),
         run # None /\ run.stage = "invoking" /\ run.session = session /\ Live(run.cell, run.attempt) =>
           \/ run.cell \in frozen' \/ RunMessage \in aborts'
           \/ memory'[run.cell] = memory[run.cell]
  PROVE  AbortNotLost'
<1> SUFFICES ASSUME run # None, run.stage = "invoking", ~run.aborted,
                    run.session = session', run.cell \notin frozen',
                    ~(/\ memory'[run.cell] # None
                      /\ RunningAttempt(memory'[run.cell].state, run.attempt))
             PROVE  RunMessage \in aborts'
  BY DEF AbortNotLost, RunMessage, Live, Usable
<1>1. run.session \in Held
  BY DEF Held
<1>2. session = run.session
  BY <1>1
<1>3. CASE Live(run.cell, run.attempt)
  BY <1>2, <1>3 DEF Live, Usable
<1>4. CASE ~Live(run.cell, run.attempt)
  BY <1>2, <1>4 DEF AbortInv, AbortNotLost, RunMessage
<1>5. QED
  BY <1>3, <1>4

\* The attempt a page invokes holds the slot under the page's own session.
LEMMA InvokedIsLeased ==
  ASSUME HostInv, run # None, run.session = session
  PROVE  /\ lease # None /\ lease \in Lease
         /\ lease.cell = run.cell /\ lease.attempt = run.attempt /\ lease.session = session
BY DEF HostInv, SlotCoversInvocation, Leased, Shapes

LEMMA CommandTells ==
  ASSUME HostInv, AbortInv, NEW o \in WriteOutcome, NEW s \in Session, Command(o, s)
  PROVE  AbortNotLost'
<1> DEFINE Invoked == /\ run # None /\ run.stage = "invoking" /\ run.session = session
                      /\ Live(run.cell, run.attempt)
<1>1. ASSUME NEW c \in Cell, NEW p \in Provider, Start(c, o, s, p)
      PROVE  AbortNotLost'
  BY <1>1, NotInvoking DEF Start
<1>2. ASSUME NEW c \in Cell, Submit(c, o, s) \/ Reject(c, o, s)
      PROVE  AbortNotLost'
  <2>1. /\ run' = run /\ aborts' = aborts /\ frozen \subseteq frozen'
        /\ Speak(s)
    BY <1>2 DEF Submit, Reject, Commit
  <2>2. Invoked => memory'[run.cell] = memory[run.cell]
    <3>1. memory[c] = None \/ memory[c].state.phase = "succeeded"
      BY <1>2 DEF Submit, Reject, CanReject
    <3>2. Invoked => run.cell # c
      BY <3>1 DEF Live, Usable, RunningAttempt
    <3>3. memory' = memory \/ \E x : memory' = [memory EXCEPT ![c] = x]
      BY <1>2 DEF Submit, Reject, Commit
    <3>4. ASSUME Invoked PROVE run.cell \in Cell
      BY <3>4 DEF HostInv, Shapes, Run
    <3> HIDE DEF Invoked
    <3>5. QED
      BY <3>2, <3>3, <3>4 DEF HostInv, HostCells
  <2>3. session' = session \/ (session = None /\ session' \notin Held)
    BY <2>1, SpeakSession DEF HostInv
  <2>4. QED
    BY <2>1, <2>2, <2>3, Told
<1>3. ASSUME NEW c \in Cell, Cancel(c, o, s)
      PROVE  AbortNotLost'
  <2>1. /\ run' = run /\ aborts \subseteq aborts' /\ frozen \subseteq frozen'
        /\ Speak(s)
    BY <1>3 DEF Cancel, Commit, AbortLease
  <2>2. session' = s /\ (session' = session \/ (session = None /\ session' \notin Held))
    BY <2>1, SpeakSession DEF HostInv
  <2>3. Invoked => \/ run.cell \in frozen' \/ RunMessage \in aborts'
                   \/ memory'[run.cell] = memory[run.cell]
    <3>1. SUFFICES ASSUME Invoked, run.cell = c, o = "ok" PROVE RunMessage \in aborts'
      BY <1>3 DEF Cancel, Commit, HostInv, HostCells
    <3>2. /\ lease # None /\ lease.cell = c
          /\ lease.attempt = run.attempt /\ lease.session = session
          /\ session \in Session
      BY <3>1, InvokedIsLeased DEF Lease
    <3>3. session = s
      BY <2>2, <3>2, HostNoneAssumption
    <3>4. aborts' = aborts \cup {[cell |-> c, attempt |-> lease.attempt]}
      BY <1>3, <3>1, <3>2, <3>3 DEF Cancel, AbortLease
    <3>5. QED
      BY <3>1, <3>2, <3>4 DEF RunMessage
  <2>4. QED
    BY <2>1, <2>2, <2>3, Told
<1>4. ASSUME NEW c \in Cell, NEW choice \in Choice, BeginApprove(c, choice, s)
      PROVE  AbortNotLost'
  <2>1. /\ run' = run /\ aborts' = aborts /\ frozen' = frozen /\ memory' = memory
        /\ Speak(s)
    BY <1>4 DEF BeginApprove
  <2>2. session' = session \/ (session = None /\ session' \notin Held)
    BY <2>1, SpeakSession DEF HostInv
  <2>3. QED
    BY <2>1, <2>2, Told
<1>5. QED
  BY <1>1, <1>2, <1>3, <1>4 DEF Command

LEMMA EndApproveTells ==
  ASSUME HostInv, AbortInv, NEW o \in WriteOutcome, NEW a \in approving, EndApprove(a, o)
  PROVE  AbortNotLost'
<1>1. /\ run' = run /\ aborts' = aborts /\ session' = session /\ frozen \subseteq frozen'
  BY DEF EndApprove, NoCommit, Commit, pageVars
<1>2. ASSUME run # None, Live(run.cell, run.attempt)
      PROVE  memory'[run.cell] = memory[run.cell]
  <2>1. CASE NoCommit
    BY <2>1 DEF NoCommit
  <2>2. CASE Approvable(a) /\ Commit(a.cell, Decided(a.cell, memory[a.cell].state, a.selection), o)
    <3>1. a.cell \in Cell /\ memory[a.cell].state.phase = "succeeded"
      BY <2>2 DEF Approvable, HostInv, Approvals, ApproveCall
    <3>2. run.cell # a.cell
      BY <1>2, <3>1 DEF Live, RunningAttempt
    <3>3. QED
      BY <2>2, <3>2 DEF Commit, HostInv, HostCells
  <2>3. QED
    BY <2>1, <2>2 DEF EndApprove
<1>3. QED
  BY <1>1, <1>2, Told

\* An expiry of the attempt in the slot is told, or freezes its cell.
LEMMA ExpiryTold ==
  ASSUME HostInv, lease # None, NEW o \in WriteOutcome, ExpireIfRunning(o),
         Expirable /\ o = "ok" /\ lease.session = session =>
           [cell |-> lease.cell, attempt |-> lease.attempt] \in aborts',
         run # None, run.session = session
  PROVE  \/ run.cell \in frozen' \/ RunMessage \in aborts'
         \/ memory'[run.cell] = memory[run.cell]
<1>1. lease.cell = run.cell /\ lease.attempt = run.attempt /\ lease.session = session
  BY InvokedIsLeased
<1>2. CASE Expirable
  BY <1>1, <1>2 DEF ExpireIfRunning, Commit, RunMessage
<1>3. CASE ~Expirable
  BY <1>3 DEF ExpireIfRunning, NoCommit
<1>4. QED
  BY <1>2, <1>3

LEMMA TimerTells ==
  ASSUME HostInv, AbortInv, NEW o \in WriteOutcome, TimerFires(o)
  PROVE  AbortNotLost'
<1>1. /\ run' = run /\ aborts \subseteq aborts' /\ session' = session /\ frozen \subseteq frozen'
  BY DEF TimerFires, ExpireIfRunning, NoCommit, Commit
<1>2. /\ lease # None /\ ExpireIfRunning(o)
      /\ Expirable /\ o = "ok" /\ lease.session = session =>
           [cell |-> lease.cell, attempt |-> lease.attempt] \in aborts'
  BY DEF TimerFires
<1>3. QED
  BY <1>1, <1>2, Told, ExpiryTold

\* A call of complete that ends an attempt belongs to the run that waits for it.
LEMMA EndCompleteTells ==
  ASSUME HostInv, AbortInv, NEW o \in WriteOutcome, NEW k \in completing, EndComplete(k, o)
  PROVE  AbortNotLost'
<1>1. /\ session' = session /\ aborts \subseteq aborts' /\ frozen \subseteq frozen'
      /\ k.cell \in Cell
  BY DEF EndComplete, NoCommit, FailAttempt, ExpireIfRunning, AbortLease, Commit,
         HostInv, Shapes, CompleteCall
<1>2. \E ok \in BOOLEAN : Answer(k, ok)
  BY DEF EndComplete
<1>3. CASE run' # run
  <2>1. run # None /\ run \in Run /\ run'.stage \in {"settling", "failing"}
    BY <1>2, <1>3 DEF Answer, HostInv, Shapes, Run
  <2>2. QED
    BY <2>1, NotInvoking
<1>4. CASE run' = run
  <2>1. ASSUME run # None, run.stage = "invoking", run.session = session
        PROVE  \/ run.cell \in frozen' \/ RunMessage \in aborts'
               \/ memory'[run.cell] = memory[run.cell]
    <3>1. /\ lease # None
          /\ lease.cell = run.cell /\ lease.attempt = run.attempt /\ lease.session = session
      BY <2>1, InvokedIsLeased
    <3>2. ~(k.cell = run.cell /\ k.attempt = run.attempt)
      BY <2>1 DEF AbortInv, CallsInv, RunUncompleted, Before
    <3>3. CASE NoCommit
      BY <3>3 DEF NoCommit
    <3>4. CASE Leased(k.cell, k.attempt, k.session)
      BY <3>1, <3>2, <3>4 DEF Leased
    <3>5. QED
      BY <3>3, <3>4 DEF EndComplete, FailAttempt, Adoptable
  <2>2. QED
    BY <1>1, <1>4, <2>1, Told
<1>5. QED
  BY <1>3, <1>4

\* What AskProgress lets go on is live.
LEMMA RunStepTells ==
  ASSUME HostInv, AbortInv, NEW o \in WriteOutcome, NEW s \in Session, RunStep(o, s)
  PROVE  AbortNotLost'
<1>1. CASE Settle(o, s)
  BY <1>1, NotInvoking DEF Settle
<1>2. CASE ~Settle(o, s)
  <2>1. run # None /\ run \in Run
    BY <1>2 DEF RunStep, Listen, AskProgress, BadResult, BeginComplete, Fail, HostInv, Shapes
  <2>2. CASE AskProgress(s)
    <3>1. /\ run'.cell = run.cell /\ run'.attempt = run.attempt
          /\ run'.aborted = (run.aborted \/ ~Progress(s))
          /\ memory' = memory /\ frozen' = frozen
      BY <2>1, <2>2 DEF AskProgress, Run, hostVars
    <3>2. CASE Progress(s)
      BY <3>1, <3>2 DEF Progress, Live, Usable, AbortNotLost
    <3>3. CASE ~Progress(s)
      BY <3>1, <3>3, NotInvoking
    <3>4. QED
      BY <3>2, <3>3
  <2>3. CASE ~AskProgress(s)
    <3>1. run'.stage # "invoking"
      BY <1>2, <2>1, <2>3 DEF RunStep, Listen, BadResult, BeginComplete, Fail, Run
    <3>2. QED
      BY <3>1, NotInvoking
  <2>4. QED
    BY <2>2, <2>3
<1>3. QED
  BY <1>1, <1>2

LEMMA DeliveryTells ==
  ASSUME HostInv, AbortInv, NEW m \in aborts, DeliverAbort(m)
  PROVE  AbortNotLost'
<1>1. UNCHANGED <<hostVars, session>> /\ aborts' = aborts \ {m}
  BY DEF DeliverAbort
<1>2. CASE run # None /\ run.stage = "invoking" /\ m = RunMessage
  <2>1. run' = [run EXCEPT !.aborted = TRUE] /\ run \in Run
    BY <1>2 DEF DeliverAbort, RunMessage, HostInv, Shapes
  <2>2. run'.aborted
    BY <2>1 DEF Run
  <2>3. QED
    BY <2>2, NotInvoking
<1>3. CASE run # None /\ run.stage = "invoking" /\ m # RunMessage
  <2>1. m \in Abort
    BY DEF HostInv, Shapes
  <2>2. ~(run.cell = m.cell /\ run.attempt = m.attempt)
    BY <1>3, <2>1 DEF RunMessage, Abort
  <2>3. run' = run
    BY <2>2 DEF DeliverAbort
  <2>4. RunMessage \in aborts => RunMessage \in aborts'
    BY <1>1, <1>3
  <2>5. QED
    BY <1>1, <1>3, <2>3, <2>4
       DEF AbortInv, AbortNotLost, RunMessage, Live, Usable, hostVars
<1>4. CASE run = None \/ run.stage # "invoking"
  <2>1. run' = None \/ run'.stage # "invoking"
    BY <1>4 DEF DeliverAbort, HostInv, Shapes, Run
  <2>2. QED
    BY <2>1, NotInvoking
<1>5. QED
  BY <1>2, <1>3, <1>4

LEMMA StepTells ==
  ASSUME HostInv, Shapes', AbortInv, Next, ~SomeRestart
  PROVE  AbortNotLost'
<1>1. ASSUME NEW o \in WriteOutcome, PageLost(o) \/ NavigationStarts(o)
      PROVE  AbortNotLost'
  <2>1. session' = None
    BY <1>1 DEF PageLost, NavigationStarts, LoseSession
  <2>2. QED
    BY <2>1, NotInvoking
<1>2. CASE (\E reason \in {"retryable", "permanent"} : ProviderFails(reason)) \/ ProviderReturns
  <2>1. run'.stage # "invoking"
    BY <1>2 DEF ProviderFails, ProviderReturns, HostInv, Shapes, Run
  <2>2. QED
    BY <2>1, NotInvoking
<1>3. CASE NavigationCommits
  BY <1>3, NotInvoking DEF NavigationCommits
<1>4. CASE DeadlinePasses \/ NavigationFails
  <2>1. UNCHANGED <<run, aborts, session, memory, frozen>>
    BY <1>4 DEF DeadlinePasses, NavigationFails, hostVars, pageVars
  <2>2. QED
    BY <2>1, Told
<1>5. QED
  BY <1>1, <1>2, <1>3, <1>4, CommandTells, RunStepTells, EndApproveTells, EndCompleteTells,
     TimerTells, DeliveryTells DEF Next, SomeRestart

LEMMA AbortInvInit == Init => AbortInv
BY DEF Init, AbortInv, CallsInv, CallsKnown, RunKnown, RunUncompleted, AbortNotLost

LEMMA AbortInvStep == HostInv /\ AbortInv /\ [Next]_vars => AbortInv'
<1> SUFFICES ASSUME HostInv, AbortInv, [Next]_vars PROVE AbortInv'
  OBVIOUS
<1>1. HostInv'
  BY HostInvStep
<1>2. CASE SomeRestart
  <2>1. completing' = {} /\ run' = None
    BY <1>2 DEF SomeRestart, Restart
  <2>2. QED
    BY <2>1 DEF AbortInv, CallsInv, CallsKnown, RunKnown, RunUncompleted, AbortNotLost
<1>3. CASE Next /\ ~SomeRestart
  <2>1. CellsMove
    BY <1>3, StepMoves DEF HostInv
  <2>2. CallsInv'
    BY <1>1, <1>3, <2>1, StepRuns, CallsInvMoves DEF AbortInv
  <2>3. AbortNotLost'
    BY <1>1, <1>3, StepTells DEF HostInv
  <2>4. QED
    BY <2>2, <2>3 DEF AbortInv
<1>4. CASE UNCHANGED vars
  BY <1>4 DEF vars, hostVars, pageVars, AbortInv, CallsInv, CallsKnown, RunKnown,
              RunUncompleted, Known, AbortNotLost, Live, Usable
<1>5. QED
  BY <1>2, <1>3, <1>4

\* An attempt that was cancelled or expired while the provider works for it is
\* told to its page, or was told already, unless the write that ended it froze
\* the cell: an abort that crosses other messages is never lost on the host's side.
THEOREM HostAbortNotLost == Spec => []AbortNotLost
<1>1. HostInv /\ AbortInv /\ [Next]_vars => HostInv' /\ AbortInv'
  BY HostInvStep, AbortInvStep
<1>2. Spec => [](HostInv /\ AbortInv)
  BY HostInvInit, AbortInvInit, <1>1, PTL DEF Spec
<1>3. HostInv /\ AbortInv => AbortNotLost
  BY DEF AbortInv
<1>4. QED
  BY <1>2, <1>3, PTL
=============================================================================
