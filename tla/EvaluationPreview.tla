-------------------------- MODULE EvaluationPreview --------------------------
(* The runtime preview adapters of src/lib/runtime-evaluation-preview.ts,    *)
(* each with its authoring host (request generations), its native runtime    *)
(* (activation) and its renderer, and the one capture slot they share in the *)
(* main process (electron/local-asset-copy.ts).  A step is what runs between *)
(* two awaits; IPC calls may be handled in another order than they were      *)
(* made, for the adapter waits for its cancels and does not rely on it.      *)
EXTENDS Naturals

CONSTANTS
  Preview,      \* adapters
  MaxLoads,     \* bound: calls of load()
  LastRequest,  \* the greatest request generation (2^53 - 1 in the code)
  None

ASSUME EvaluationPreviewAssumption ==
  /\ MaxLoads \in Nat /\ LastRequest \in Nat \ {0}
  /\ None \notin 1..MaxLoads /\ None \notin Preview

\* Calls of load() are numbered as they come, whichever adapter they are for.
Load == 1..MaxLoads

VARIABLES
  loads,     \* the attempts
  previews,  \* the adapters
  pending,   \* pendingCapture, which all adapters share: whose capture it is
  wire,      \* IPC calls main has not handled
  slot,      \* previewAttempt in main
  sessions,  \* sessions of the authoring hosts, by the load each belongs to
  called     \* history: how many calls of load() there were

vars == <<loads, previews, pending, wire, slot, sessions, called>>

Attempt ==
  [preview : Preview \cup {None},
   stage : {"new", "capture", "barrier", "create", "recover", "init", "inited", "done"},
   live : BOOLEAN,
   capture : {"waiting", "copy", "nothing", "failed"},
   cancel : {"no", "sent", "settled"},
   behind : Load \cup {None},
   request : 0..LastRequest, observed : BOOLEAN,
   init : {"waiting", "session", "missing", "failed"}]

Runtime == [observed : 0..LastRequest, exhausted : BOOLEAN, active : 0..LastRequest,
            retired : BOOLEAN]

Adapter ==
  [closed : BOOLEAN, current : Load \cup {None}, initializing : Load \cup {None},
   issued : 0..LastRequest, exhausted : BOOLEAN, runtime : Runtime,
   shown : 0..LastRequest]

TypeOK ==
  /\ loads \in [Load -> Attempt]
  /\ previews \in [Preview -> Adapter]
  /\ pending \in Load \cup {None}
  /\ wire \subseteq {"preview", "cancelPreview"} \X Load
  /\ slot \in [load : Load, cancelled : BOOLEAN] \cup {None}
  /\ sessions \subseteq Load
  /\ called \in 0..MaxLoads

NoAttempt == [preview |-> None, stage |-> "new", live |-> FALSE, capture |-> "waiting",
              cancel |-> "no", behind |-> None, request |-> 0, observed |-> FALSE,
              init |-> "waiting"]

NewRuntime == [observed |-> 0, exhausted |-> FALSE, active |-> 0, retired |-> FALSE]

\* A runtime that was disposed of refuses every call, as a retired one does.
Disposed == [NewRuntime EXCEPT !.retired = TRUE]

\* Every adapter as its factory leaves it.
Init ==
  /\ loads = [a \in Load |-> NoAttempt]
  /\ previews = [v \in Preview |->
       [closed |-> FALSE, current |-> None, initializing |-> None, issued |-> 0,
        exhausted |-> FALSE, runtime |-> NewRuntime, shown |-> 0]]
  /\ pending = None /\ wire = {} /\ slot = None /\ sessions = {} /\ called = 0

-----------------------------------------------------------------------------
(* Ownership.                                                                *)

\* Mutant of Owns: an open adapter's attempts all own it.
OwnsOpen(a) == ~previews[loads[a].preview].closed

Owns(a) ==
  LET v == previews[loads[a].preview]
  IN ~v.closed /\ v.current = a /\ loads[a].live

\* load() returns or throws, and the attempt holds nothing any more.
Settled(a) ==
  [loads EXCEPT ![a] = [NoAttempt EXCEPT !.preview = loads[a].preview, !.stage = "done"]]

At(a, stage) == loads[a].stage = stage

Discarded(a) == IF a = None THEN loads ELSE [loads EXCEPT ![a].live = FALSE]

-----------------------------------------------------------------------------
(* load(), from the call to the capture.                                     *)

Call(a) == a = called + 1 /\ called' = a

LoadRefused(a, v) ==
  /\ Call(a)
  /\ previews[v].closed \/ pending # None
  /\ loads' = [loads EXCEPT ![a].preview = v, ![a].stage = "done"]
  /\ UNCHANGED <<previews, pending, wire, slot, sessions>>

LoadBegins(a, v) ==
  /\ Call(a)
  /\ ~previews[v].closed /\ pending = None
  /\ loads' = [Discarded(previews[v].current) EXCEPT
                 ![a] = [@ EXCEPT !.preview = v, !.stage = "capture", !.live = TRUE]]
  /\ previews' = [previews EXCEPT ![v].current = a]
  /\ pending' = a
  /\ wire' = wire \cup {<<"preview", a>>}
  /\ UNCHANGED <<slot, sessions>>

\* Main: coordinator.preview, up to its answer.  A second one is refused.
HostCaptures(a) ==
  /\ <<"preview", a>> \in wire
  /\ wire' = wire \ {<<"preview", a>>}
  /\ IF slot = None
     THEN slot' = [load |-> a, cancelled |-> FALSE] /\ UNCHANGED loads
     ELSE loads' = [loads EXCEPT ![a].capture = "failed"] /\ UNCHANGED slot
  /\ UNCHANGED <<previews, pending, sessions, called>>

\* A project was chosen and read, or none was, or this failed; a cancelled
\* attempt fails.
HostAnswers(a) ==
  /\ slot # None /\ slot.load = a
  /\ \E answer \in {"copy", "nothing", "failed"} :
       /\ slot.cancelled => answer = "failed"
       /\ loads' = [loads EXCEPT ![a].capture = answer]
  /\ slot' = None
  /\ UNCHANGED <<previews, pending, wire, sessions, called>>

\* Main: coordinator.cancelPreview.  The attempt it meets is of this renderer.
HostCancels(a) ==
  /\ <<"cancelPreview", a>> \in wire
  /\ wire' = wire \ {<<"cancelPreview", a>>}
  /\ slot' = IF slot = None THEN None ELSE [slot EXCEPT !.cancelled = TRUE]
  /\ loads' = [loads EXCEPT ![a].cancel = "settled"]
  /\ UNCHANGED <<previews, pending, sessions, called>>

-----------------------------------------------------------------------------
(* load(), from the capture to the init.                                     *)

Retired(v) == previews[v].runtime.retired

\* Past the barrier: an explicit load replaces a retired runtime.
Proceeds(a) ==
  loads' = IF ~Owns(a) THEN Settled(a)
           ELSE [loads EXCEPT ![a].stage =
                   IF Retired(loads[a].preview) THEN "create" ELSE "recover"]

\* Mutant of CaptureOver: the capture is given up before its cancel is handled.
CaptureOverEarly(a) == loads[a].capture # "waiting"

\* The capture and, if the adapter has sent one, its cancel are answered.
CaptureOver(a) == loads[a].capture # "waiting" /\ loads[a].cancel # "sent"

\* Mutant of Barrier: an init in progress is not waited for.
BarrierNot(a) == None

\* Whose init the load has to wait for.
Barrier(a) == previews[loads[a].preview].initializing

CaptureResumes(a) ==
  /\ At(a, "capture") /\ CaptureOver(a)
  /\ pending' = IF pending = a THEN None ELSE pending
  /\ IF ~Owns(a) \/ loads[a].capture # "copy" THEN loads' = Settled(a)
     ELSE IF Barrier(a) # None
     THEN loads' = [loads EXCEPT ![a].stage = "barrier", ![a].behind = Barrier(a)]
     ELSE Proceeds(a)
  /\ UNCHANGED <<previews, wire, slot, sessions, called>>

BarrierResumes(a) ==
  /\ At(a, "barrier")
  /\ previews[loads[a].preview].initializing # loads[a].behind
  /\ Proceeds(a)
  /\ UNCHANGED <<previews, pending, wire, slot, sessions, called>>

\* createNativeEvaluationRuntime is over.  A replacement that comes too late is
\* disposed of, one in time takes the place of the retired runtime.
CreateResumes(a) ==
  /\ At(a, "create")
  /\ \E ok \in BOOLEAN :
       IF ok /\ Owns(a)
       THEN /\ previews' = [previews EXCEPT ![loads[a].preview].runtime = NewRuntime]
            /\ loads' = [loads EXCEPT ![a].stage = "recover"]
       ELSE loads' = Settled(a) /\ UNCHANGED previews
  /\ UNCHANGED <<pending, wire, slot, sessions, called>>

-----------------------------------------------------------------------------
(* The authoring host's issuer and the native runtime.                       *)

Exhausts(v) == previews[v].exhausted \/ previews[v].issued >= LastRequest

\* issueRequestGeneration: a failed issuance makes exhaustion sticky.
Issued(v) ==
  IF Exhausts(v) THEN [previews[v] EXCEPT !.exhausted = TRUE]
  ELSE [previews[v] EXCEPT !.issued = @ + 1]

\* observeRequestState on adapter p, if the runtime does not refuse it.
CanObserve(p) == ~p.runtime.retired /\ p.issued >= p.runtime.observed

Observed(p) ==
  IF CanObserve(p)
  THEN [p.runtime EXCEPT !.observed = p.issued, !.exhausted = @ \/ p.exhausted]
  ELSE p.runtime

\* What the runtime activates: the newest request it has heard of, once.
Fresh(rt, request) ==
  rt.observed # 0 /\ ~rt.exhausted /\ request = rt.observed /\ rt.active # request

-----------------------------------------------------------------------------
(* load(), from the init to its end.                                         *)

\* The renderer has recovered, or has thrown; the init is begun and observed.
RecoverResumes(a) ==
  /\ At(a, "recover")
  /\ \E ok \in BOOLEAN :
       IF ok /\ Owns(a)
       THEN LET v == loads[a].preview
                p == [Issued(v) EXCEPT !.initializing = a]
            IN \E trap \in BOOLEAN :
                 /\ previews' = [previews EXCEPT ![v] =
                      [p EXCEPT !.runtime = [Observed(p) EXCEPT !.retired = @ \/ trap]]]
                 /\ loads' = [loads EXCEPT
                      ![a].stage = "init",
                      ![a].request = IF Exhausts(v) THEN 0 ELSE p.issued,
                      ![a].observed = CanObserve(p) /\ ~trap]
       ELSE loads' = Settled(a) /\ UNCHANGED previews
  /\ UNCHANGED <<pending, wire, slot, sessions, called>>

\* The host's promise settles: without a request generation, or for an attempt
\* that lost the ports, it fails.
HostInits(a) ==
  /\ At(a, "init")
  /\ \E init \in {"session", "missing", "failed"} :
       /\ loads[a].request = 0 => init = "failed"
       /\ loads' = [loads EXCEPT ![a].stage = "inited", ![a].init = init]
       /\ sessions' = IF init = "failed" THEN sessions ELSE sessions \cup {a}
  /\ UNCHANGED <<previews, pending, wire, slot, called>>

\* Mutant of Released: only an attempt that still owns the adapter lets the next
\* one in.
ReleasedByOwner(a) == IF Owns(a) THEN None ELSE previews[loads[a].preview].initializing

\* The finally block: the ports are free and the barrier falls.
Released(a) ==
  LET barrier == previews[loads[a].preview].initializing
  IN IF barrier = a THEN None ELSE barrier

\* prepare, publish and commit may fail, and may trap the runtime; what they
\* commit is selected for display in the same step.
InitResumes(a) ==
  /\ At(a, "inited")
  /\ LET v == loads[a].preview
         p == [previews[v] EXCEPT !.initializing = Released(a)]
         rt == Observed(p)
     IN \E end \in {"commit", "failed", "trap"} :
          previews' = [previews EXCEPT ![v] =
            IF ~(Owns(a) /\ loads[a].observed /\ loads[a].init = "session") \/ end = "failed"
            THEN p
            ELSE IF end = "trap" THEN [p EXCEPT !.runtime.retired = TRUE]
            ELSE IF CanObserve(p) /\ Fresh(rt, loads[a].request)
            THEN [p EXCEPT !.runtime = [rt EXCEPT !.active = loads[a].request],
                           !.shown = loads[a].request]
            ELSE [p EXCEPT !.runtime = rt]]
  /\ loads' = Settled(a)
  /\ sessions' = sessions \ {a}
  /\ UNCHANGED <<pending, wire, slot, called>>

-----------------------------------------------------------------------------
(* The other operations.                                                     *)

\* setParameter or applyPreset traps the runtime; else it redraws what is shown.
MutateTraps(v) ==
  /\ ~previews[v].closed /\ ~Retired(v)
  /\ previews' = [previews EXCEPT ![v].runtime.retired = TRUE]
  /\ UNCHANGED <<loads, pending, wire, slot, sessions, called>>

\* Whose capture close() has to cancel.
Capturing(v) == {a \in Load : a = pending /\ loads[a].preview = v}

Close(v) ==
  /\ ~previews[v].closed
  /\ previews' = [previews EXCEPT ![v].closed = TRUE, ![v].current = None,
                                    ![v].runtime = Disposed]
  /\ loads' = [a \in Load |->
       LET kept == Discarded(previews[v].current)[a]
       IN IF a \in Capturing(v) THEN [kept EXCEPT !.cancel = "sent"] ELSE kept]
  /\ wire' = wire \cup ({"cancelPreview"} \X Capturing(v))
  /\ UNCHANGED <<pending, slot, sessions, called>>

\* What goes on with a load without anybody calling.
Continues(a) ==
  \/ HostCaptures(a) \/ HostAnswers(a) \/ HostCancels(a) \/ CaptureResumes(a)
  \/ BarrierResumes(a) \/ CreateResumes(a) \/ RecoverResumes(a) \/ HostInits(a)
  \/ InitResumes(a)

Next ==
  \/ \E a \in Load, v \in Preview : LoadRefused(a, v) \/ LoadBegins(a, v)
  \/ \E a \in Load : Continues(a)
  \/ \E v \in Preview : MutateTraps(v) \/ Close(v)

\* Main handles what it is sent and its promises, like those of the renderer and
\* the host, settle.
Fairness == \A a \in Load : WF_vars(Continues(a))

Spec == Init /\ [][Next]_vars /\ Fairness

-----------------------------------------------------------------------------
(* Properties.                                                               *)

\* The inits of an adapter never overlap: the host's one pair of ports would
\* serve an older init from a newer attempt's snapshot.
InitsAlone ==
  \A a, b \in Load :
    /\ loads[a].stage \in {"init", "inited"} /\ loads[b].stage \in {"init", "inited"}
    /\ loads[a].preview = loads[b].preview
    => a = b

\* A cancel meets the capture it was sent for or none: a capture is cancelled
\* only when its own adapter was closed.
CancelsOwn ==
  slot # None /\ slot.cancelled => previews[loads[slot.load].preview].closed

\* The display changes only by the newest load an open adapter has accepted, to
\* the newest request it has issued, and never goes back.
NewestShown ==
  [][\A v \in Preview : previews'[v].shown # previews[v].shown =>
       /\ ~previews[v].closed
       /\ previews'[v].shown > previews[v].shown
       /\ previews'[v].shown = previews[v].issued
       /\ \E a \in Load :
            /\ loads[a].request = previews'[v].shown /\ loads[a].preview = v
            /\ \A b \in Load : loads[b].preview = v /\ loads[b].stage \notin {"new", "done"} =>
                 b <= a]_vars

\* Every call of load() is answered.
LoadsAnswered == \A a \in Load : loads[a].stage # "new" ~> loads[a].stage = "done"
=============================================================================
