------------------------------- MODULE LocalJob -------------------------------
(* One job driven by any legal or illegal sequence of transitionLocalJob     *)
(* commands: packages/model/src/internal/local-exchange-state.ts.            *)
(* Callers are unconstrained: a command may name any attempt, renewal,       *)
(* result or acceptance, as a late or duplicated message would.              *)
EXTENDS JobTransitions

VARIABLE job

Init == job = Submitted

Claim(p) == CanClaim(job) /\ job' = Claimed(job, p)

Heartbeat(n, renewal) == CanRenew(job, n, renewal) /\ job' = Renewed(job)

Expire(n, renewal) == CanExpire(job, n, renewal) /\ job' = Expired(job)

FailAttempt(n, reason) == CanFail(job, n) /\ job' = FailedAttempt(job, reason)

Complete(r) == CanComplete(job, r) /\ job' = Completed(job, r)

Accept(a) == CanAccept(job, a) /\ job' = Accepted(job, a)

Reject == CanReject(job) /\ job' = Rejected(job)

Retry == CanRetry(job) /\ job' = Retried(job)

Cancel == CanCancel(job) /\ job' = Cancelled(job)

Next ==
  \/ \E p \in Provider : Claim(p)
  \/ \E n \in 1..MaxAttempts, renewal \in 0..CounterMax :
       Heartbeat(n, renewal) \/ Expire(n, renewal)
  \/ \E n \in 1..MaxAttempts, reason \in {"retryable", "permanent"} :
       FailAttempt(n, reason)
  \/ \E r \in Result : Complete(r)
  \/ \E a \in Acceptance : Accept(a)
  \/ Reject
  \/ Retry
  \/ Cancel

Spec == Init /\ [][Next]_job

-----------------------------------------------------------------------------
\* Every field of the job keeps its type, counters included.
TypeOK == job \in Job

\* No sequence of accepted commands reaches a state that jobState would reject
\* as SHAPE: such a state would refuse every later command and would freeze the
\* cell that stores it on the next start of the host.
StateStaysReadable == Restorable(job)

\* Whoever may retry a job may also claim it: claim's LIMIT check
\* (attempt >= maxAttempts) never strands a queued job.
QueuedIsClaimable == job.phase = "queued" => job.attempt < MaxAttempts

Contract == INSTANCE JobContract
              WITH status <- StatusOf(job), attempt <- job.attempt,
                   outcome <- OutcomeOf(job), verdict <- job.decision.kind

\* Whatever the order of claims, renewals, expiries, completions and decisions,
\* a job keeps the promise of JobContract: one winner per job, no attempt number
\* used twice, no outcome replaced, no decision on anything but a success.
HonoursContract == Contract!Spec
=============================================================================
