--------------------------- MODULE JobTransitions ---------------------------
(* The pure transition functions of one Local Exchange job:                  *)
(* packages/model/src/internal/local-exchange-state.ts.                      *)
(* A command is a guard "Can..." and the record it returns.  A rejected      *)
(* command and an idempotent replay both return the state they were given,   *)
(* so neither needs a definition.  Submission metadata is immutable: only    *)
(* maxAttempts is kept of it.                                                *)
EXTENDS Integers

CONSTANTS
  MaxAttempts,  \* submission.maxAttempts, between 1 and 8
  CounterMax,   \* Number.MAX_SAFE_INTEGER, the largest counter value
  Provider,     \* provider identities: an id together with a version
  Digest,       \* result digests: one for every distinct result content
  Artifact,     \* artifact ids a result holds
  None          \* JavaScript's null

ASSUME MaxAttemptsAssumption == MaxAttempts \in Nat \ {0}
ASSUME CounterMaxAssumption == CounterMax \in Nat

Phase == {"queued", "running", "retryable", "succeeded", "failed", "cancelled"}
TerminalPhase == {"succeeded", "failed", "cancelled"}

Active == [provider : Provider, renewal : 0..CounterMax]

\* resultMetadata: the attempt that produced the result, by which provider.
Result == [attempt : 1..MaxAttempts, provider : Provider, digest : Digest]

\* acceptanceMetadata: the accepted result and the artifact chosen from it.
Acceptance == [result : Result, artifact : Artifact]

ASSUME NoneAssumption == None \notin Active \cup Result \cup Acceptance

Decision == [kind : {"undecided", "rejected", "accepted"},
             acceptance : Acceptance \cup {None}]

Undecided == [kind |-> "undecided", acceptance |-> None]

Job == [phase : Phase, stateVersion : 0..CounterMax, attempt : 0..MaxAttempts,
        active : Active \cup {None}, result : Result \cup {None},
        failure : {"none", "permanent", "exhausted"}, decision : Decision]

-----------------------------------------------------------------------------
(* What the reader of a stored state demands of it.                          *)

\* jobState: the cross-field conditions under which a state is not SHAPE.
Restorable(j) ==
  /\ (j.phase = "running") <=> (j.active # None)
  /\ (j.phase = "succeeded") <=> (j.result # None)
  /\ j.phase \in {"running", "retryable", "succeeded", "failed"} => j.attempt > 0
  /\ j.result # None => j.result.attempt = j.attempt
  /\ j.phase = "retryable" => j.attempt < MaxAttempts
  /\ (j.phase = "failed") <=> (j.failure # "none")
  /\ j.failure = "exhausted" => j.attempt = MaxAttempts
  /\ j.phase # "succeeded" => j.decision.kind = "undecided"
  /\ IF j.decision.kind = "accepted"
     THEN j.result # None /\ j.decision.acceptance \in [result : {j.result}, artifact : Artifact]
     ELSE j.decision.acceptance = None

-----------------------------------------------------------------------------
(* The commands.                                                             *)

\* submitLocalJob of a submission key seen for the first time.
Submitted ==
  [phase |-> "queued", stateVersion |-> 0, attempt |-> 0, active |-> None,
   result |-> None, failure |-> "none", decision |-> Undecided]

\* Mutant of Countable: the last counter value is counted past.
CountableLate(j) == j.stateVersion <= CounterMax

\* increment: every change counts, and a full counter rejects the command.
Countable(j) == j.stateVersion < CounterMax
Bump(j) == [j EXCEPT !.stateVersion = @ + 1]

\* Mutant of RunningAttempt: the attempt is not compared.
RunningAtAll(j, n) == j.phase = "running"

\* running: the fence a worker's command must pass.
RunningAttempt(j, n) == j.phase = "running" /\ j.attempt = n

CanClaim(j) == j.phase = "queued" /\ j.attempt < MaxAttempts /\ Countable(j)
Claimed(j, p) ==
  Bump([j EXCEPT !.phase = "running", !.attempt = @ + 1,
                 !.active = [provider |-> p, renewal |-> 0]])

CanRenew(j, n, renewal) ==
  /\ RunningAttempt(j, n)
  /\ renewal = j.active.renewal
  /\ renewal < CounterMax
  /\ Countable(j)
Renewed(j) == Bump([j EXCEPT !.active.renewal = @ + 1])

CanExpire(j, n, renewal) ==
  RunningAttempt(j, n) /\ renewal = j.active.renewal /\ Countable(j)
\* Mutant of Expired: the limit on attempts is forgotten.
ExpiredAgain(j) == Bump([j EXCEPT !.active = None, !.phase = "retryable"])

Expired(j) ==
  Bump([j EXCEPT !.active = None,
                 !.phase = IF j.attempt < MaxAttempts THEN "retryable" ELSE "failed",
                 !.failure = IF j.attempt < MaxAttempts THEN "none" ELSE "exhausted"])

CanFail(j, n) == RunningAttempt(j, n) /\ Countable(j)
FailedAttempt(j, reason) ==
  LET again == reason = "retryable" /\ j.attempt < MaxAttempts
  IN Bump([j EXCEPT !.active = None,
                    !.phase = IF again THEN "retryable" ELSE "failed",
                    !.failure = IF again THEN "none"
                                ELSE IF reason = "permanent" THEN "permanent"
                                ELSE "exhausted"])

CanComplete(j, r) ==
  RunningAttempt(j, r.attempt) /\ j.active.provider = r.provider /\ Countable(j)
Completed(j, r) ==
  Bump([j EXCEPT !.phase = "succeeded", !.active = None, !.result = r])

CanAccept(j, a) ==
  /\ j.phase = "succeeded"
  /\ a.result = j.result
  /\ j.decision.kind = "undecided"
  /\ Countable(j)
Accepted(j, a) == Bump([j EXCEPT !.decision = [kind |-> "accepted", acceptance |-> a]])

CanReject(j) ==
  j.phase = "succeeded" /\ j.decision.kind = "undecided" /\ Countable(j)
Rejected(j) == Bump([j EXCEPT !.decision = [kind |-> "rejected", acceptance |-> None]])

\* Mutant of CanRetry: a job whose attempts are used up may be retried.
CanRetryFailed(j) == j.phase \in {"retryable", "failed"} /\ Countable(j)

CanRetry(j) == j.phase = "retryable" /\ Countable(j)
Retried(j) == Bump([j EXCEPT !.phase = "queued", !.active = None])

CanCancel(j) == j.phase \notin TerminalPhase /\ Countable(j)
Cancelled(j) == Bump([j EXCEPT !.phase = "cancelled", !.active = None])

-----------------------------------------------------------------------------
(* The job as its submitter sees it.                                         *)

Outcome == [kind : {"succeeded"}, result : Result]
             \cup [kind : {"permanent", "exhausted", "cancelled"}, result : {None}]

ASSUME OutcomeAssumption == None \notin Outcome

StatusOf(j) ==
  IF j.phase \in TerminalPhase THEN "over"
  ELSE IF j.phase = "running" THEN "running" ELSE "waiting"

OutcomeOf(j) ==
  CASE j.phase = "succeeded" -> [kind |-> "succeeded", result |-> j.result]
    [] j.phase = "failed" -> [kind |-> j.failure, result |-> None]
    [] j.phase = "cancelled" -> [kind |-> "cancelled", result |-> None]
    [] OTHER -> None
=============================================================================
