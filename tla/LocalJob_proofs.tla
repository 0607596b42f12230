--------------------------- MODULE LocalJob_proofs ---------------------------
(* What holds of a Local Exchange job for every bound on attempts and        *)
(* counters and every set of providers, results and artifacts.               *)
(* The inductive invariant is the conjunction JobInv: type correctness,      *)
(* readability of the stored state, and claimability of a queued job.  A     *)
(* renewal keeps its type only because a running job has an active attempt,  *)
(* and a retried job is claimable only because a retryable one has attempts  *)
(* left: each part of JobInv leans on readability.                           *)
EXTENDS LocalJob, TLAPS

JobInv == TypeOK /\ StateStaysReadable /\ QueuedIsClaimable

USE MaxAttemptsAssumption, CounterMaxAssumption

-----------------------------------------------------------------------------
LEMMA InitHolds == Init => JobInv
BY NoneAssumption DEF Init, Submitted, Undecided, JobInv, TypeOK, StateStaysReadable,
   QueuedIsClaimable, Job, Phase, Decision, Restorable

\* A counted change leaves a counter that is not full one higher.
LEMMA CountingStaysInRange ==
  ASSUME JobInv, Countable(job)
  PROVE  job.stateVersion + 1 \in 0..CounterMax
BY DEF JobInv, TypeOK, Job, Countable

LEMMA ClaimHolds == ASSUME JobInv, NEW p \in Provider, Claim(p) PROVE JobInv'
<1> USE DEF JobInv, TypeOK, StateStaysReadable, QueuedIsClaimable, Claim, CanClaim, Claimed, Bump
<1>1. /\ job.stateVersion + 1 \in 0..CounterMax
      /\ job.attempt + 1 \in 0..MaxAttempts
      /\ [provider |-> p, renewal |-> 0] \in Active
  BY CountingStaysInRange DEF Job, Active
<1>2. job' \in Job
  BY <1>1 DEF Job, Phase
<1>3. Restorable(job')
  BY <1>1, NoneAssumption DEF Job, Phase, Restorable
<1>4. QED
  BY <1>2, <1>3 DEF Job

LEMMA HeartbeatHolds ==
  ASSUME JobInv, NEW n \in 1..MaxAttempts, NEW renewal \in 0..CounterMax,
         Heartbeat(n, renewal)
  PROVE  JobInv'
<1> USE DEF JobInv, TypeOK, StateStaysReadable, QueuedIsClaimable, Heartbeat, CanRenew,
            Renewed, RunningAttempt, Bump
<1>1. job.active \in Active
  BY DEF Job, Restorable
<1>2. [job.active EXCEPT !.renewal = @ + 1] \in Active
  BY <1>1 DEF Active
<1>3. job' \in Job
  BY <1>1, <1>2, CountingStaysInRange DEF Job
<1>4. Restorable(job')
  BY <1>1, <1>2, NoneAssumption DEF Job, Restorable
<1>5. QED
  BY <1>3, <1>4 DEF Job

LEMMA ExpireHolds ==
  ASSUME JobInv, NEW n \in 1..MaxAttempts, NEW renewal \in 0..CounterMax,
         Expire(n, renewal)
  PROVE  JobInv'
<1> USE DEF JobInv, TypeOK, StateStaysReadable, QueuedIsClaimable, Expire, CanExpire,
            Expired, RunningAttempt, Bump
<1>1. job' \in Job
  BY CountingStaysInRange DEF Job, Phase
<1>2. Restorable(job')
  BY DEF Job, Restorable
<1>3. QED
  BY <1>1, <1>2 DEF Job

LEMMA FailureHolds ==
  ASSUME JobInv, NEW n \in 1..MaxAttempts, NEW reason \in {"retryable", "permanent"},
         FailAttempt(n, reason)
  PROVE  JobInv'
<1> USE DEF JobInv, TypeOK, StateStaysReadable, QueuedIsClaimable, FailAttempt,
            CanFail, FailedAttempt, RunningAttempt, Bump
<1>1. job' \in Job
  BY CountingStaysInRange DEF Job, Phase
<1>2. Restorable(job')
  BY DEF Job, Restorable
<1>3. QED
  BY <1>1, <1>2 DEF Job

LEMMA CompletionHolds == ASSUME JobInv, NEW r \in Result, Complete(r) PROVE JobInv'
<1> USE DEF JobInv, TypeOK, StateStaysReadable, QueuedIsClaimable, Complete,
            CanComplete, Completed, RunningAttempt, Bump
<1>1. job' \in Job
  BY CountingStaysInRange DEF Job, Phase
<1>2. Restorable(job')
  BY NoneAssumption DEF Job, Restorable
<1>3. QED
  BY <1>1, <1>2 DEF Job

LEMMA AcceptanceHolds == ASSUME JobInv, NEW a \in Acceptance, Accept(a) PROVE JobInv'
<1> USE DEF JobInv, TypeOK, StateStaysReadable, QueuedIsClaimable, Accept, CanAccept,
            Accepted, Bump
<1>1. job' \in Job
  BY CountingStaysInRange DEF Job, Decision
<1>2. Restorable(job')
  BY NoneAssumption DEF Job, Restorable, Acceptance
<1>3. QED
  BY <1>1, <1>2 DEF Job

LEMMA RejectionHolds == ASSUME JobInv, Reject PROVE JobInv'
<1> USE DEF JobInv, TypeOK, StateStaysReadable, QueuedIsClaimable, Reject, CanReject,
            Rejected, Bump
<1>1. job' \in Job
  BY CountingStaysInRange DEF Job, Decision
<1>2. Restorable(job')
  BY DEF Job, Restorable
<1>3. QED
  BY <1>1, <1>2 DEF Job

LEMMA RetryHolds == ASSUME JobInv, Retry PROVE JobInv'
<1> USE DEF JobInv, TypeOK, StateStaysReadable, QueuedIsClaimable, Retry, CanRetry,
            Retried, Bump
<1>1. job' \in Job
  BY CountingStaysInRange DEF Job, Phase
<1>2. Restorable(job')
  BY DEF Job, Restorable
<1>3. QED
  BY <1>1, <1>2 DEF Job, Restorable

LEMMA CancelHolds == ASSUME JobInv, Cancel PROVE JobInv'
<1> USE DEF JobInv, TypeOK, StateStaysReadable, QueuedIsClaimable, Cancel, CanCancel,
            Cancelled, Bump, TerminalPhase
<1>1. job' \in Job
  BY CountingStaysInRange DEF Job, Phase
<1>2. Restorable(job')
  BY DEF Job, Restorable
<1>3. QED
  BY <1>1, <1>2 DEF Job

LEMMA StepHolds == JobInv /\ [Next]_job => JobInv'
<1> SUFFICES ASSUME JobInv, [Next]_job
             PROVE  JobInv'
  OBVIOUS
<1>1. CASE Next
  BY <1>1, ClaimHolds, HeartbeatHolds, ExpireHolds, FailureHolds, CompletionHolds,
     AcceptanceHolds, RejectionHolds, RetryHolds, CancelHolds DEF Next
<1>2. CASE UNCHANGED job
  BY <1>2 DEF JobInv, TypeOK, StateStaysReadable, QueuedIsClaimable
<1>3. QED
  BY <1>1, <1>2

\* Whatever commands arrive and in whatever order, the job keeps its type, its
\* stored state can be read back, and a queued job can still be claimed.
THEOREM JobInvariant == Spec => []JobInv
BY InitHolds, StepHolds, PTL DEF Spec

THEOREM TypeCorrect == Spec => []TypeOK
BY JobInvariant, PTL DEF JobInv

\* The state a cell stores never becomes one that jobState refuses to read.
THEOREM StaysReadable == Spec => []StateStaysReadable
BY JobInvariant, PTL DEF JobInv

\* The attempt limit strands no queued job.
THEOREM StaysClaimable == Spec => []QueuedIsClaimable
BY JobInvariant, PTL DEF JobInv

-----------------------------------------------------------------------------
(* The job implements JobContract: heartbeats and the return of a retryable  *)
(* job to the queue are stuttering steps of the contract, expiry and failure *)
(* give the attempt back or finish the job, depending on what is left.       *)

USE DEF Contract!vars, StatusOf, OutcomeOf, TerminalPhase

LEMMA ContractInit == Init => Contract!Init
BY DEF Init, Submitted, Undecided, Contract!Init

LEMMA ClaimBegins ==
  ASSUME JobInv, NEW p \in Provider, Claim(p)
  PROVE  Contract!Begin
BY DEF JobInv, TypeOK, Job, Claim, CanClaim, Claimed, Bump, Contract!Begin

LEMMA HeartbeatStutters ==
  ASSUME JobInv, NEW n \in 1..MaxAttempts, NEW renewal \in 0..CounterMax,
         Heartbeat(n, renewal)
  PROVE  UNCHANGED Contract!vars
BY DEF JobInv, TypeOK, Job, Heartbeat, CanRenew, Renewed, RunningAttempt, Bump

LEMMA ExpireEndsAttempt ==
  ASSUME JobInv, NEW n \in 1..MaxAttempts, NEW renewal \in 0..CounterMax,
         Expire(n, renewal)
  PROVE  Contract!Next
<1> USE DEF JobInv, TypeOK, Job, Expire, CanExpire, Expired, RunningAttempt, Bump
<1>1. CASE job.attempt < MaxAttempts
  BY <1>1 DEF Contract!GiveBack, Contract!Next
<1>2. CASE ~(job.attempt < MaxAttempts)
  <2> DEFINE o == [kind |-> "exhausted", result |-> None]
  <2>1. o \in Outcome
    BY DEF Outcome
  <2>2. job.attempt = MaxAttempts
    BY <1>2
  <2>3. Contract!Finish(o)
    BY <1>2, <2>2 DEF Contract!Finish
  <2>4. QED
    BY <2>1, <2>3 DEF Contract!Next
<1>3. QED
  BY <1>1, <1>2

LEMMA FailureEndsAttempt ==
  ASSUME JobInv, NEW n \in 1..MaxAttempts, NEW reason \in {"retryable", "permanent"},
         FailAttempt(n, reason)
  PROVE  Contract!Next
<1> USE DEF JobInv, TypeOK, Job, FailAttempt, CanFail, FailedAttempt, RunningAttempt, Bump
<1>1. CASE reason = "retryable" /\ job.attempt < MaxAttempts
  BY <1>1 DEF Contract!GiveBack, Contract!Next
<1>2. CASE ~(reason = "retryable" /\ job.attempt < MaxAttempts)
  <2> DEFINE o == [kind |-> IF reason = "permanent" THEN "permanent" ELSE "exhausted",
                   result |-> None]
  <2>1. o \in Outcome
    BY DEF Outcome
  <2>2. o.kind = "exhausted" => job.attempt = MaxAttempts
    BY <1>2
  <2>3. Contract!Finish(o)
    BY <1>2, <2>2 DEF Contract!Finish
  <2>4. QED
    BY <2>1, <2>3 DEF Contract!Next
<1>3. QED
  BY <1>1, <1>2

LEMMA CompletionFinishes ==
  ASSUME JobInv, NEW r \in Result, Complete(r)
  PROVE  Contract!Next
<1> DEFINE o == [kind |-> "succeeded", result |-> r]
<1>1. o \in Outcome
  BY DEF Outcome
<1>2. Contract!Finish(o)
  BY DEF JobInv, TypeOK, Job, Complete, CanComplete, Completed, RunningAttempt, Bump,
         Contract!Finish
<1>3. QED
  BY <1>1, <1>2 DEF Contract!Next

LEMMA CancelFinishes == ASSUME JobInv, Cancel PROVE Contract!Next
<1> DEFINE o == [kind |-> "cancelled", result |-> None]
<1>1. o \in Outcome
  BY DEF Outcome
<1>2. Contract!Cancel(o)
  BY DEF JobInv, TypeOK, Job, Phase, Cancel, CanCancel, Cancelled, Bump, Contract!Cancel
<1>3. QED
  BY <1>1, <1>2 DEF Contract!Next

\* A decision is taken on a success and changes nothing but the verdict.
LEMMA DecisionDecides ==
  ASSUME JobInv, (\E a \in Acceptance : Accept(a)) \/ Reject
  PROVE  Contract!Next
<1> USE DEF JobInv, TypeOK, Job, Decision, Bump
<1>1. job.phase = "succeeded" /\ OutcomeOf(job) # None
  <2>1. job.phase = "succeeded" /\ job.result \in Result
    BY DEF Accept, CanAccept, Reject, CanReject, StateStaysReadable, Restorable
  <2>2. OutcomeOf(job) \in Outcome
    BY <2>1 DEF Outcome
  <2>3. QED
    BY <2>1, <2>2, OutcomeAssumption
<1>2. OutcomeOf(job).kind = "succeeded"
  BY <1>1
<1>3. ASSUME NEW a \in Acceptance, Accept(a)
      PROVE  Contract!Decide("accepted")
  BY <1>1, <1>2, <1>3 DEF Accept, CanAccept, Accepted, Contract!Decide
<1>4. CASE Reject
  <2>1. Contract!Decide("rejected")
    BY <1>1, <1>2, <1>4 DEF Reject, CanReject, Rejected, Contract!Decide
  <2>2. QED
    BY <2>1 DEF Contract!Next
<1>5. QED
  BY <1>3, <1>4 DEF Contract!Next

LEMMA RetryStutters == ASSUME JobInv, Retry PROVE UNCHANGED Contract!vars
BY DEF JobInv, TypeOK, Job, Retry, CanRetry, Retried, Bump

LEMMA ContractStep == JobInv /\ [Next]_job => [Contract!Next]_(Contract!vars)
<1> SUFFICES ASSUME JobInv, [Next]_job
             PROVE  [Contract!Next]_(Contract!vars)
  OBVIOUS
<1>1. CASE Next
  <2>1. ASSUME NEW p \in Provider, Claim(p)
        PROVE  Contract!Next
    BY <2>1, ClaimBegins DEF Contract!Next
  <2>2. QED
    BY <1>1, <2>1, HeartbeatStutters, ExpireEndsAttempt, FailureEndsAttempt,
       CompletionFinishes, CancelFinishes, DecisionDecides, RetryStutters DEF Next
<1>2. CASE UNCHANGED job
  BY <1>2
<1>3. QED
  BY <1>1, <1>2

\* For every bound and every set of providers, results and artifacts: one
\* winner per job, attempts numbered once each, decisions on successes only.
THEOREM JobKeepsContract == Spec => HonoursContract
<1>1. Init /\ [][Next]_job /\ []JobInv => Contract!Spec
  BY ContractInit, ContractStep, PTL DEF Contract!Spec
<1>2. QED
  BY <1>1, JobInvariant, PTL DEF Spec, HonoursContract
=============================================================================
