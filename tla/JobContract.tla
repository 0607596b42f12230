----------------------------- MODULE JobContract -----------------------------
(* What a Local Exchange job promises whoever submitted it, with neither     *)
(* host, lease nor renewal: attempts are numbered and run one at a time, at  *)
(* most MaxAttempts of them; the job ends once, with one outcome, and only a *)
(* success can be decided on, once.                                          *)
EXTENDS Integers

CONSTANTS MaxAttempts, Outcome, None

VARIABLES
  status,   \* "waiting" between attempts, "running" during one, then "over"
  attempt,  \* number of attempts begun
  outcome,  \* how the job ended, None until it has
  verdict   \* what was decided about a success

vars == <<status, attempt, outcome, verdict>>

Init ==
  status = "waiting" /\ attempt = 0 /\ outcome = None /\ verdict = "undecided"

Begin ==
  /\ status = "waiting"
  /\ attempt < MaxAttempts
  /\ status' = "running"
  /\ attempt' = attempt + 1
  /\ UNCHANGED <<outcome, verdict>>

\* An attempt that ends without an outcome leaves room for another one.
GiveBack ==
  /\ status = "running"
  /\ attempt < MaxAttempts
  /\ status' = "waiting"
  /\ UNCHANGED <<attempt, outcome, verdict>>

\* A success is the result of the attempt that is running; attempts are
\* exhausted only by the last one.
Finish(o) ==
  /\ status = "running"
  /\ o.kind = "succeeded" => o.result.attempt = attempt
  /\ o.kind = "exhausted" => attempt = MaxAttempts
  /\ status' = "over"
  /\ outcome' = o
  /\ UNCHANGED <<attempt, verdict>>

Cancel(o) ==
  /\ status # "over"
  /\ o.kind = "cancelled"
  /\ status' = "over"
  /\ outcome' = o
  /\ UNCHANGED <<attempt, verdict>>

Decide(v) ==
  /\ outcome # None
  /\ outcome.kind = "succeeded"
  /\ verdict = "undecided"
  /\ verdict' = v
  /\ UNCHANGED <<status, attempt, outcome>>

Next ==
  \/ Begin
  \/ GiveBack
  \/ \E o \in Outcome : Finish(o) \/ Cancel(o)
  \/ \E v \in {"accepted", "rejected"} : Decide(v)

Spec == Init /\ [][Next]_vars
=============================================================================
