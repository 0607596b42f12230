----------------------------- MODULE ActionRunner -----------------------------
(* ViviActionRunner: the drop, enqueue and replace policies, cooldowns and   *)
(* pulses of packages/viewer/src/actions/action-runner.ts.  The promises of  *)
(* a run are jobs of the microtask queue; callers start runs from tasks of   *)
(* their own, several in one task.  Refusals before the policy is looked at  *)
(* (invalid, disabled, no scope) change nothing and are left out.            *)
EXTENDS Naturals, SequencesExt

CONSTANTS
  Action,      \* action ids
  PolicyOf,    \* queuePolicy of each action
  CoolsDown,   \* actions with a cooldown
  MaxCalls,    \* bound: calls of runAction
  None

ASSUME ActionRunnerAssumption ==
  /\ PolicyOf \in [Action -> {"drop", "enqueue", "replace"}]
  /\ CoolsDown \subseteq Action
  /\ MaxCalls \in Nat
  /\ None \notin 1..MaxCalls

\* Calls are numbered as they come.
Run == 1..MaxCalls

VARIABLES
  runs,       \* every call: its action, how far it is and what became of it
  running,    \* this.running, by the run whose execution it is
  tails,      \* this.enqueueTails, by the run that is queued last
  tickets,    \* this.replaceTickets
  cooling,    \* actions whose cooldownUntil is to come
  waiters,    \* who waits for the running promise of a run, in order
  follower,   \* who is queued behind a queued run
  value,      \* the parameter each action pulses
  micro,      \* the microtask queue
  draining,   \* the task is over, its microtasks are running
  called      \* history: how many calls there were

vars == <<runs, running, tails, tickets, cooling, waiters, follower, value, micro,
          draining, called>>

\* A parameter holds its base value or what the pulse of a run has set.
Base == None
Value == Run \cup {Base}

RunState == [action : Action \cup {None},
             stage : {"new", "waiting", "executing", "settled", "done"},
             ticket : Nat, queued : BOOLEAN, ok : BOOLEAN, pulse : BOOLEAN, held : Value,
             skipped : BOOLEAN]

Job == {"resolve", "finish", "go", "end", "adopt", "tail"} \X Run

TypeOK ==
  /\ runs \in [Run -> RunState]
  /\ running \in [Action -> Run \cup {None}]
  /\ tails \in [Action -> Run \cup {None}]
  /\ tickets \in [Action -> Nat]
  /\ cooling \subseteq CoolsDown
  /\ waiters \in [Run -> Seq(Run)]
  /\ follower \in [Run -> Run \cup {None}]
  /\ value \in [Action -> Value]
  /\ micro \in Seq(Job)
  /\ draining \in BOOLEAN
  /\ called \in 0..MaxCalls

Init ==
  /\ runs = [r \in Run |-> [action |-> None, stage |-> "new", ticket |-> 0, queued |-> FALSE,
                            ok |-> FALSE, pulse |-> FALSE, held |-> Base, skipped |-> FALSE]]
  /\ running = [a \in Action |-> None]
  /\ tails = [a \in Action |-> None]
  /\ tickets = [a \in Action |-> 0]
  /\ cooling = {}
  /\ waiters = [r \in Run |-> <<>>]
  /\ follower = [r \in Run |-> None]
  /\ value = [a \in Action |-> Base]
  /\ micro = <<>> /\ draining = FALSE /\ called = 0

-----------------------------------------------------------------------------
(* performAction                                                             *)

\* What waits for the promise performAction returned: the finally block of a
\* replacing run, or the promise of a queued run.
Answering(r, st) ==
  (IF st.ticket > 0 THEN <<<<"end", r>>>> ELSE <<>>)
  \o (IF st.queued THEN <<<<"adopt", r>>>> ELSE <<>>)

\* st is the run as it calls performAction, rest the jobs queued before.  An
\* action ends at once, well or not, or it is a pulse that waits for its timer.
Perform(r, st, rest) ==
  LET a == st.action
  IN IF a \in cooling
     THEN /\ runs' = [runs EXCEPT ![r] = [st EXCEPT !.stage = "done", !.skipped = TRUE]]
          /\ micro' = rest \o Answering(r, st)
          /\ UNCHANGED <<running, value>>
     ELSE /\ running' = [running EXCEPT ![a] = r]
          /\ \/ \E ok \in BOOLEAN :
                  /\ runs' = [runs EXCEPT ![r] = [st EXCEPT !.stage = "settled", !.ok = ok]]
                  /\ micro' = rest \o <<<<"resolve", r>>, <<"finish", r>>>>
                  /\ UNCHANGED value
             \/ /\ runs' = [runs EXCEPT ![r] = [st EXCEPT !.stage = "executing", !.pulse = TRUE,
                                                          !.held = value[a]]]
                /\ value' = [value EXCEPT ![a] = r]
                /\ micro' = rest

\* The timer of a pulse, and the microtask that writes back what was read.
PulseEnds(r) ==
  /\ micro = <<>>
  /\ runs[r].stage = "executing"
  /\ value' = [value EXCEPT ![runs[r].action] = runs[r].held]
  /\ runs' = [runs EXCEPT ![r].stage = "settled", ![r].ok = TRUE]
  /\ micro' = <<<<"resolve", r>>, <<"finish", r>>>>
  /\ draining' = TRUE
  /\ UNCHANGED <<running, tails, tickets, cooling, waiters, follower, called>>

CooldownEnds(a) ==
  /\ a \in cooling
  /\ micro = <<>>
  /\ cooling' = cooling \ {a}
  /\ UNCHANGED <<runs, running, tails, tickets, waiters, follower, value, micro, draining, called>>

-----------------------------------------------------------------------------
(* runAction, up to its first await.                                         *)

\* Mutant of Behind: a queued run waits for the execution, not for the tail.
BehindRunning(a) == running[a]

\* Whom an enqueued run waits for: the tail, or else the execution.
Behind(a) == IF tails[a] # None THEN tails[a] ELSE running[a]

Busy(a) == running[a] # None

\* A task may call several times before its microtasks run.
InTask == micro = <<>> \/ ~draining

Calling(r, a) ==
  /\ InTask
  /\ r = called + 1
  /\ called' = r
  /\ draining' = FALSE

Called(r, a) == [runs[r] EXCEPT !.action = a]

CallDropped(r, a) ==
  /\ Calling(r, a)
  /\ PolicyOf[a] = "drop" /\ Busy(a)
  /\ runs' = [runs EXCEPT ![r] = [Called(r, a) EXCEPT !.stage = "done", !.skipped = TRUE]]
  /\ UNCHANGED <<running, tails, tickets, cooling, waiters, follower, value, micro>>

CallQueued(r, a) ==
  /\ Calling(r, a)
  /\ PolicyOf[a] = "enqueue" /\ Behind(a) # None
  /\ runs' = [runs EXCEPT ![r] = [Called(r, a) EXCEPT !.stage = "waiting", !.queued = TRUE]]
  /\ IF Behind(a) = tails[a]
     THEN follower' = [follower EXCEPT ![tails[a]] = r] /\ UNCHANGED waiters
     ELSE waiters' = [waiters EXCEPT ![running[a]] = Append(@, r)] /\ UNCHANGED follower
  /\ tails' = [tails EXCEPT ![a] = r]
  /\ UNCHANGED <<running, tickets, cooling, value, micro>>

CallReplacing(r, a) ==
  /\ Calling(r, a)
  /\ PolicyOf[a] = "replace" /\ Busy(a)
  /\ tickets' = [tickets EXCEPT ![a] = @ + 1]
  /\ runs' = [runs EXCEPT ![r] = [Called(r, a) EXCEPT !.stage = "waiting",
                                                      !.ticket = tickets[a] + 1]]
  /\ waiters' = [waiters EXCEPT ![running[a]] = Append(@, r)]
  /\ UNCHANGED <<running, tails, cooling, follower, value, micro>>

CallDirect(r, a) ==
  /\ Calling(r, a)
  /\ ~Busy(a) /\ (PolicyOf[a] = "enqueue" => Behind(a) = None)
  /\ Perform(r, Called(r, a), micro)
  /\ UNCHANGED <<tails, tickets, cooling, waiters, follower>>

-----------------------------------------------------------------------------
(* Microtasks.                                                               *)

NextIs(kind) == micro # <<>> /\ Head(micro)[1] = kind
Current == Head(micro)[2]
CurrentAction == runs[Current].action
Draining == draining' = TRUE /\ UNCHANGED called

\* The promise in this.running resolves; catch and then pass it on.
Resolve ==
  /\ NextIs("resolve")
  /\ micro' = Tail(micro) \o [i \in DOMAIN waiters[Current] |-> <<"go", waiters[Current][i]>>]
  /\ Draining
  /\ UNCHANGED <<runs, running, tails, tickets, cooling, waiters, follower, value>>

Cleared(r, a) == [running EXCEPT ![a] = IF @ = r THEN None ELSE @]

\* performAction goes on after its execution.
Finish ==
  /\ NextIs("finish")
  /\ runs' = [runs EXCEPT ![Current].stage = "done"]
  /\ running' = Cleared(Current, CurrentAction)
  /\ cooling' = IF runs[Current].ok THEN cooling \cup ({CurrentAction} \cap CoolsDown) ELSE cooling
  /\ micro' = Tail(micro) \o Answering(Current, runs[Current])
  /\ Draining
  /\ UNCHANGED <<tails, tickets, waiters, follower, value>>

\* Mutant of Superseded: whoever waited for the execution goes on.
SupersededNever(r) == FALSE

Superseded(r) == runs[r].ticket > 0 /\ tickets[runs[r].action] # runs[r].ticket

\* What a run waited for is over.
Go ==
  /\ NextIs("go")
  /\ IF Superseded(Current)
     THEN /\ runs' = [runs EXCEPT ![Current].stage = "done", ![Current].skipped = TRUE]
          /\ micro' = Tail(micro)
          /\ UNCHANGED <<running, value>>
     ELSE Perform(Current, runs[Current], Tail(micro))
  /\ Draining
  /\ UNCHANGED <<tails, tickets, cooling, waiters, follower>>

\* The finally block of a replacing run.
EndReplacing ==
  /\ NextIs("end")
  /\ tickets' = [tickets EXCEPT ![CurrentAction] = IF @ = runs[Current].ticket THEN 0 ELSE @]
  /\ micro' = Tail(micro)
  /\ Draining
  /\ UNCHANGED <<runs, running, tails, cooling, waiters, follower, value>>

\* Mutant of Behindward: only the caller of a queued run hears of its end.
BehindwardNot(r) == <<>>

Behindward(r) == IF follower[r] # None THEN <<<<"go", follower[r]>>>> ELSE <<>>

\* A queued run is over: its caller goes on first, then the run behind it.
Adopt ==
  /\ NextIs("adopt")
  /\ micro' = Tail(micro) \o <<<<"tail", Current>>>> \o Behindward(Current)
  /\ Draining
  /\ UNCHANGED <<runs, running, tails, tickets, cooling, waiters, follower, value>>

EndQueued ==
  /\ NextIs("tail")
  /\ tails' = [tails EXCEPT ![CurrentAction] = IF @ = Current THEN None ELSE @]
  /\ micro' = Tail(micro)
  /\ Draining
  /\ UNCHANGED <<runs, running, tickets, cooling, waiters, follower, value>>

Microtask == Resolve \/ Finish \/ Go \/ EndReplacing \/ Adopt \/ EndQueued

Next ==
  \/ \E r \in Run, a \in Action :
       CallDropped(r, a) \/ CallQueued(r, a) \/ CallReplacing(r, a) \/ CallDirect(r, a)
  \/ \E r \in Run : PulseEnds(r)
  \/ \E a \in Action : CooldownEnds(a)
  \/ Microtask

\* Microtasks run before anything else, and timers fire.
Fairness == WF_vars(Microtask) /\ \A r \in Run : WF_vars(PulseEnds(r))

Spec == Init /\ [][Next]_vars /\ Fairness

-----------------------------------------------------------------------------
(* Properties.                                                               *)

\* A parameter no pulse of its action is holding has its base value: the
\* executions of one action never overlap, or the second would have read and
\* written back what the first had set.
PulsesRestore ==
  \A a \in Action : value[a] # Base => value[a] \in Run /\ runs[value[a]].stage = "executing"

\* A run starts only when every earlier call of its action is over, and a call
\* is given up only while an execution or a cooldown is in its way or for a newer
\* call: a queued run never, the newest replacement never.
OrderKept ==
  [][\A r \in Run :
       /\ runs'[r].stage \in {"executing", "settled"} /\ runs[r].stage \in {"new", "waiting"} =>
            \A s \in 1..r-1 : runs[s].action = runs'[r].action => runs[s].stage = "done"
       /\ runs'[r].skipped /\ ~runs[r].skipped =>
            \/ runs'[r].action \in cooling
            \/ PolicyOf[runs'[r].action] = "drop"
            \/ /\ PolicyOf[runs'[r].action] = "replace"
               /\ \E s \in r+1..MaxCalls : runs[s].action = runs[r].action]_vars

\* Every call is answered.
Answered == \A r \in Run : runs[r].stage # "new" ~> runs[r].stage = "done"
=============================================================================
