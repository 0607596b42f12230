----------------------- MODULE EvaluationPreview_proofs -----------------------
(* What holds of the preview adapters for any number of adapters, loads and  *)
(* request generations.  The inductive invariant PreviewInv says how far the *)
(* loads of an adapter may be at the same time: whose capture is pending,    *)
(* whose init is in progress, and who may begin the next one.                *)
EXTENDS EvaluationPreview, TLAPS

USE EvaluationPreviewAssumption

Busy(a) == loads[a].stage \notin {"new", "done"}
InInit(a) == loads[a].stage \in {"init", "inited"}
On(a) == previews[loads[a].preview]

\* Loads are numbered in the order they are called, and the newest one that was
\* not refused is the adapter's current one.
NumberedInv ==
  /\ \A a \in Load : a > called => loads[a] = NoAttempt
  /\ \A a \in Load : Busy(a) => loads[a].preview \in Preview
  /\ \A v \in Preview : previews[v].current # None => previews[v].current <= called
  /\ \A a \in Load : Busy(a) /\ ~On(a).closed => On(a).current # None /\ a <= On(a).current

\* What main is asked to do, and does, belongs to the one pending capture.
CaptureInv ==
  /\ \A a \in Load : <<"preview", a>> \in wire =>
       pending = a /\ loads[a].capture = "waiting" /\ slot = None
  /\ slot # None => pending = slot.load /\ loads[slot.load].capture = "waiting"
  /\ \A a \in Load : <<"cancelPreview", a>> \in wire =>
       pending = a /\ loads[a].cancel = "sent" /\ On(a).closed
  /\ pending # None => loads[pending].stage = "capture"

\* The barrier: an init holds its adapter's initializing, and the attempt that
\* owns the adapter begins its own only when that was let go.
InitInv ==
  /\ \A a \in Load : InInit(a) => On(a).initializing = a
  /\ \A a \in Load : loads[a].stage = "barrier" /\ Owns(a) =>
       On(a).initializing \in {loads[a].behind, None}
  /\ \A a \in Load : loads[a].stage \in {"create", "recover"} /\ Owns(a) =>
       On(a).initializing = None

\* Nothing newer than the init in progress is shown.
ShownInv ==
  /\ \A v \in Preview : previews[v].shown <= previews[v].issued
  /\ \A a \in Load : InInit(a) /\ loads[a].request # 0 => On(a).shown < loads[a].request

PreviewInv == TypeOK /\ NumberedInv /\ CaptureInv /\ InitInv /\ ShownInv /\ CancelsOwn

-----------------------------------------------------------------------------
(* Beginning.                                                                *)

LEMMA InitHolds == Init => PreviewInv
<1> SUFFICES ASSUME Init PROVE PreviewInv
  OBVIOUS
<1>1. TypeOK
  BY DEF Init, TypeOK, NoAttempt, Attempt, Adapter, NewRuntime, Runtime, Load
<1>2. \A a \in Load : loads[a].stage = "new"
  BY DEF Init, NoAttempt
<1>3. NumberedInv
  BY <1>2 DEF Init, NumberedInv, Busy, NoAttempt
<1>4. CaptureInv /\ CancelsOwn
  BY DEF Init, CaptureInv, CancelsOwn
<1>5. InitInv
  BY <1>2 DEF InitInv, InInit
<1>6. ShownInv
  BY <1>2 DEF Init, ShownInv, InInit
<1>7. QED
  BY <1>1, <1>3, <1>4, <1>5, <1>6 DEF PreviewInv

-----------------------------------------------------------------------------
(* Every step keeps PreviewInv.                                              *)

\* What TypeOK says of the parts the steps are about.
Parts ==
  /\ \A a \in Load : loads[a] \in Attempt /\ loads[a].request \in Nat
  /\ \A v \in Preview :
       /\ previews[v] \in Adapter
       /\ previews[v].current \in Load \cup {None}
       /\ previews[v].initializing \in Load \cup {None}
       /\ previews[v].issued \in Nat /\ previews[v].shown \in Nat
  /\ pending \in Load \cup {None}
  /\ slot # None => slot.load \in Load /\ slot.cancelled \in BOOLEAN
  /\ called \in Nat /\ Load \subseteq Nat /\ None \notin Load

LEMMA TypeParts == TypeOK => Parts
  BY DEF TypeOK, Load, Parts, Attempt, Adapter

\* Discarding the current attempt leaves attempts.
LEMMA DiscardedType ==
  ASSUME loads \in [Load -> Attempt], NEW a \in Load \cup {None}
  PROVE  Discarded(a) \in [Load -> Attempt]
<1>1. CASE a = None
  BY <1>1 DEF Discarded
<1>2. CASE a # None
  <2>1. [loads[a] EXCEPT !.live = FALSE] \in Attempt
    <3>1. loads[a] \in Attempt
      BY <1>2
    <3>2. QED
      BY <3>1 DEF Attempt
  <2>2. QED
    BY <1>2, <2>1 DEF Discarded
<1>3. QED
  BY <1>1, <1>2

LEMMA LoadRefusedKeeps ==
  ASSUME PreviewInv, NEW a \in Load, NEW v \in Preview, LoadRefused(a, v)
  PROVE  PreviewInv'
<1> USE DEF PreviewInv
<1>p. Parts
  BY TypeParts
<1>1. /\ a = called + 1 /\ called' = a
      /\ UNCHANGED <<previews, pending, wire, slot, sessions>>
  BY DEF LoadRefused, Call
<1>2. loads[a] = NoAttempt
  BY <1>1, <1>p DEF NumberedInv, Parts
<1>3. loads[a].stage = "new" /\ loads[a].cancel = "no"
  BY <1>2 DEF NoAttempt
<1>4. /\ \A b \in Load : b # a => loads'[b] = loads[b]
      /\ loads'[a].stage = "done"
  BY <1>p DEF Parts, TypeOK, LoadRefused, Attempt
<1>5. TypeOK'
  <2>1. [loads[a] EXCEPT !.preview = v, !.stage = "done"] \in Attempt
    <3>1. loads[a] \in Attempt
      BY <1>p DEF Parts
    <3>2. QED
      BY <3>1 DEF Attempt
  <2>2. loads' = [loads EXCEPT ![a] = [loads[a] EXCEPT !.preview = v, !.stage = "done"]]
    BY DEF LoadRefused, TypeOK
  <2>3. loads' \in [Load -> Attempt]
    BY <2>1, <2>2 DEF TypeOK
  <2>4. called' \in 0..MaxLoads
    BY <1>1 DEF Load
  <2>5. QED
    BY <1>1, <2>3, <2>4 DEF TypeOK
<1>6. \A b \in Load : loads'[b].stage # "done" => loads'[b] = loads[b]
  BY <1>4
<1>7. NumberedInv'
  <2>1. \A b \in Load : b > called' => loads'[b] = NoAttempt
    BY <1>1, <1>4, <1>p DEF NumberedInv, Parts
  <2>2. \A b \in Load : Busy(b)' => Busy(b) /\ loads'[b] = loads[b]
    BY <1>6 DEF Busy
  <2>3. \A w \in Preview : previews'[w].current # None => previews'[w].current <= called'
    BY <1>1, <1>p DEF NumberedInv, Parts
  <2>4. QED
    BY <1>1, <2>1, <2>2, <2>3 DEF NumberedInv, On
<1>8. pending # a
  BY <1>3, <1>p DEF CaptureInv, Parts
<1>9. CaptureInv'
  <2>1. \A b \in Load : b = pending => loads'[b] = loads[b]
    BY <1>4, <1>8
  <2>2. pending' # None => loads'[pending'].stage = "capture"
    BY <1>1, <2>1, <1>p DEF CaptureInv, Parts
  <2>3. slot' # None => pending' = slot'.load /\ loads'[slot'.load].capture = "waiting"
    BY <1>1, <2>1, <1>p DEF CaptureInv, Parts
  <2>4. \A b \in Load : <<"preview", b>> \in wire' =>
          pending' = b /\ loads'[b].capture = "waiting" /\ slot' = None
    BY <1>1, <2>1 DEF CaptureInv
  <2>5. \A b \in Load : <<"cancelPreview", b>> \in wire' =>
          pending' = b /\ loads'[b].cancel = "sent" /\ On(b)'.closed
    BY <1>1, <2>1 DEF CaptureInv, On
  <2>6. QED
    BY <2>2, <2>3, <2>4, <2>5 DEF CaptureInv
<1>10. CancelsOwn'
  BY <1>1, <1>4, <1>8, <1>p DEF CancelsOwn, CaptureInv, Parts
<1>11. InitInv'
  BY <1>1, <1>6 DEF InitInv, InInit, On, Owns
<1>12. ShownInv'
  BY <1>1, <1>6 DEF ShownInv, InInit, On
<1>13. QED
  BY <1>5, <1>7, <1>9, <1>10, <1>11, <1>12

LEMMA LoadBeginsKeeps ==
  ASSUME PreviewInv, NEW a \in Load, NEW v \in Preview, LoadBegins(a, v)
  PROVE  PreviewInv'
<1> USE DEF PreviewInv
<1>p. Parts
  BY TypeParts
<1>1. /\ a = called + 1 /\ called' = a
      /\ ~previews[v].closed /\ pending = None /\ pending' = a
      /\ wire' = wire \cup {<<"preview", a>>}
      /\ UNCHANGED <<slot, sessions>>
  BY DEF LoadBegins, Call
<1>2. loads[a] = NoAttempt
  BY <1>1, <1>p DEF NumberedInv, Parts
<1>3. loads[a].stage = "new" /\ loads[a].capture = "waiting"
  BY <1>2 DEF NoAttempt
<1>4. /\ \A b \in Load : b # a =>
           /\ loads'[b].stage = loads[b].stage /\ loads'[b].preview = loads[b].preview
           /\ loads'[b].capture = loads[b].capture /\ loads'[b].cancel = loads[b].cancel
           /\ loads'[b].behind = loads[b].behind /\ loads'[b].request = loads[b].request
           /\ b # previews[v].current => loads'[b] = loads[b]
      /\ loads'[a].stage = "capture" /\ loads'[a].preview = v
      /\ loads'[a].capture = loads[a].capture
  BY <1>p DEF Parts, TypeOK, LoadBegins, Attempt, Discarded
<1>5. /\ \A w \in Preview : w # v => previews'[w] = previews[w]
      /\ previews'[v].current = a
      /\ previews'[v].closed = previews[v].closed
      /\ previews'[v].initializing = previews[v].initializing
      /\ previews'[v].shown = previews[v].shown
      /\ previews'[v].issued = previews[v].issued
  BY <1>p DEF Parts, TypeOK, LoadBegins, Adapter
<1>6. TypeOK'
  <2>1. loads' \in [Load -> Attempt]
    <3> DEFINE D == Discarded(previews[v].current)
    <3> DEFINE x == [D[a] EXCEPT !.preview = v, !.stage = "capture", !.live = TRUE]
    <3>1. D \in [Load -> Attempt]
      BY <1>p, DiscardedType DEF Parts, TypeOK
    <3>2. x \in Attempt
      <4>1. D[a] \in Attempt
        BY <3>1
      <4> HIDE DEF D
      <4>2. QED
        BY <4>1 DEF Attempt
    <3>3. loads' = [D EXCEPT ![a] = x]
      BY <3>1 DEF LoadBegins
    <3> HIDE DEF D, x
    <3>4. QED
      BY <3>1, <3>2, <3>3
  <2>2. previews' \in [Preview -> Adapter]
    BY DEF TypeOK, LoadBegins, Adapter
  <2>3. called' \in 0..MaxLoads
    BY <1>1 DEF Load
  <2>4. QED
    BY <1>1, <2>1, <2>2, <2>3 DEF TypeOK
<1>7. NumberedInv'
  <2>1. \A b \in Load : b > called' => b # a /\ loads[b] = NoAttempt
    BY <1>1, <1>p DEF NumberedInv, Parts
  <2>2. \A b \in Load : b > called' => loads'[b] = NoAttempt
    BY <1>1, <1>4, <1>p, <2>1 DEF NumberedInv, Parts
  <2>3. \A b \in Load : Busy(b)' => b = a \/ (Busy(b) /\ loads'[b].preview = loads[b].preview)
    BY <1>4 DEF Busy
  <2>4. \A b \in Load : Busy(b)' => loads'[b].preview \in Preview
    BY <1>4, <2>3 DEF NumberedInv
  <2>5. \A w \in Preview : previews'[w].current # None => previews'[w].current <= called'
    BY <1>1, <1>5, <1>p DEF NumberedInv, Parts
  <2>6. ASSUME NEW b \in Load, Busy(b)', ~On(b)'.closed
        PROVE  On(b)'.current # None /\ b <= On(b)'.current
    <3>1. CASE b = a
      BY <3>1, <1>4, <1>5, <1>p DEF On, Parts
    <3>2. CASE b # a
      <4>1. b <= called
        BY <3>2, <1>4, <2>6, <1>p DEF NumberedInv, Busy, NoAttempt, Parts
      <4>2. Busy(b) /\ loads[b].preview \in Preview /\ loads'[b].preview = loads[b].preview
        BY <3>2, <2>3, <2>6 DEF NumberedInv
      <4>3. CASE loads[b].preview = v
        BY <4>1, <4>2, <4>3, <1>1, <1>5, <1>p DEF On, Parts
      <4>4. CASE loads[b].preview # v
        BY <4>2, <4>4, <1>5, <2>6 DEF NumberedInv, On
      <4>5. QED
        BY <4>3, <4>4
    <3>3. QED
      BY <3>1, <3>2
  <2>7. QED
    BY <2>2, <2>4, <2>5, <2>6 DEF NumberedInv
<1>8. slot = None
  BY <1>1, <1>p DEF CaptureInv, Parts
<1>9. CaptureInv'
  <2>1. \A b \in Load : <<"preview", b>> \in wire' => b = a
    BY <1>1, <1>p DEF CaptureInv, Parts
  <2>2. \A b \in Load : <<"cancelPreview", b>> \notin wire'
    BY <1>1, <1>p DEF CaptureInv, Parts
  <2>3. QED
    BY <1>1, <1>3, <1>4, <1>8, <2>1, <2>2 DEF CaptureInv
<1>10. CancelsOwn'
  BY <1>1, <1>8 DEF CancelsOwn
<1>11. InitInv'
  <2>1. \A b \in Load : loads'[b].stage \in {"init", "inited", "barrier", "create", "recover"} =>
          /\ Busy(b) /\ loads'[b].preview = loads[b].preview /\ loads[b].preview \in Preview
          /\ loads'[b].stage = loads[b].stage /\ loads'[b].behind = loads[b].behind
          /\ previews'[loads[b].preview].initializing = previews[loads[b].preview].initializing
    BY <1>4, <1>5 DEF NumberedInv, Busy
  <2>2. \A b \in Load : Busy(b) /\ b # a /\ Owns(b)' => Owns(b)
    <3> SUFFICES ASSUME NEW b \in Load, Busy(b), b # a, Owns(b)'
                 PROVE  Owns(b)
      OBVIOUS
    <3>1. loads[b].preview \in Preview /\ loads'[b].preview = loads[b].preview
      BY <1>4 DEF NumberedInv
    <3>2. loads[b].preview # v
      BY <1>5, <3>1 DEF Owns
    <3>3. loads'[b].live => loads[b].live
      BY <1>p DEF Parts, TypeOK, LoadBegins, Attempt, Discarded
    <3>4. QED
      BY <1>5, <3>1, <3>2, <3>3 DEF Owns
  <2>3. QED
    BY <1>4, <2>1, <2>2 DEF InitInv, InInit, On
<1>12. ShownInv'
  <2>1. \A b \in Load : InInit(b)' =>
          /\ InInit(b) /\ loads'[b].preview = loads[b].preview /\ loads[b].preview \in Preview
          /\ loads'[b].request = loads[b].request
          /\ previews'[loads[b].preview].shown = previews[loads[b].preview].shown
    BY <1>4, <1>5 DEF NumberedInv, Busy, InInit
  <2>2. \A w \in Preview : previews'[w].shown = previews[w].shown /\ previews'[w].issued = previews[w].issued
    BY <1>5
  <2>3. QED
    BY <2>1, <2>2 DEF ShownInv, On
<1>13. QED
  BY <1>6, <1>7, <1>9, <1>10, <1>11, <1>12
-----------------------------------------------------------------------------
(* What the steps have in common that continue a load.                       *)

\* A load that is neither new nor done goes on; nothing else is called, closed
\* or made current.
Continued(a) ==
  /\ Busy(a)
  /\ \A b \in Load : b # a => loads'[b] = loads[b]
  /\ loads'[a].preview = loads[a].preview
  /\ loads'[a].live => loads[a].live
  /\ \A w \in Preview : /\ previews'[w].closed = previews[w].closed
                        /\ previews'[w].current = previews[w].current
  /\ called' = called

\* Such a step makes nobody an owner.
LEMMA OwnsKept ==
  ASSUME PreviewInv, NEW a \in Load, Continued(a), NEW b \in Load, Busy(b), Owns(b)'
  PROVE  Owns(b)
<1>1. loads[b].preview \in Preview /\ loads'[b].preview = loads[b].preview
  BY DEF PreviewInv, NumberedInv, Continued
<1>2. loads'[b].live => loads[b].live
  BY DEF Continued
<1>3. QED
  BY <1>1, <1>2 DEF Owns, Continued

\* Such a step keeps the numbering.
LEMMA NumberedKept ==
  ASSUME PreviewInv, NEW a \in Load, Continued(a)
  PROVE  NumberedInv'
<1>p. Parts
  BY TypeParts DEF PreviewInv
<1>1. ~(a > called)
  BY DEF PreviewInv, NumberedInv, Continued, Busy, NoAttempt
<1>2. \A b \in Load : b > called' => loads'[b] = NoAttempt
  BY <1>1 DEF PreviewInv, NumberedInv, Continued
<1>3. \A b \in Load : Busy(b)' =>
        Busy(b) /\ loads'[b].preview = loads[b].preview /\ loads[b].preview \in Preview
  BY DEF PreviewInv, NumberedInv, Continued, Busy
<1>4. QED
  BY <1>2, <1>3 DEF PreviewInv, NumberedInv, Continued, On

\* A load whose capture is over leaves the captures alone.
LEMMA CaptureKept ==
  ASSUME PreviewInv, NEW a \in Load, Continued(a), loads[a].stage # "capture",
         UNCHANGED <<pending, wire, slot>>
  PROVE  CaptureInv' /\ CancelsOwn'
<1> USE DEF PreviewInv
<1>p. Parts
  BY TypeParts
<1>1. pending # a
  BY <1>p DEF CaptureInv, Parts
<1>2. \A b \in Load : b = pending =>
        /\ loads'[b] = loads[b] /\ loads[b].preview \in Preview
        /\ previews'[loads[b].preview].closed = previews[loads[b].preview].closed
  <2> SUFFICES ASSUME NEW b \in Load, b = pending
               PROVE  /\ loads'[b] = loads[b] /\ loads[b].preview \in Preview
                      /\ previews'[loads[b].preview].closed = previews[loads[b].preview].closed
    OBVIOUS
  <2>1. b # a /\ loads[b].stage = "capture"
    BY <1>1, <1>p DEF CaptureInv, Parts
  <2>2. loads[b].preview \in Preview
    BY <2>1 DEF NumberedInv, Busy
  <2>3. QED
    BY <2>1, <2>2 DEF Continued
<1>3. CaptureInv'
  <2>1. pending' # None => loads'[pending'].stage = "capture"
    BY <1>2, <1>p DEF CaptureInv, Parts
  <2>2. slot' # None => pending' = slot'.load /\ loads'[slot'.load].capture = "waiting"
    BY <1>2, <1>p DEF CaptureInv, Parts
  <2>3. \A b \in Load : <<"preview", b>> \in wire' =>
          pending' = b /\ loads'[b].capture = "waiting" /\ slot' = None
    BY <1>2 DEF CaptureInv
  <2>4. \A b \in Load : <<"cancelPreview", b>> \in wire' =>
          pending' = b /\ loads'[b].cancel = "sent" /\ On(b)'.closed
    BY <1>2 DEF CaptureInv, On
  <2>5. QED
    BY <2>1, <2>2, <2>3, <2>4 DEF CaptureInv
<1>4. CancelsOwn'
  BY <1>2, <1>p DEF CancelsOwn, CaptureInv, Parts
<1>5. QED
  BY <1>3, <1>4

\* A load that is in no init after the step keeps the barrier and what is shown,
\* if it respects the barrier itself.
LEMMA InitKept ==
  ASSUME PreviewInv, NEW a \in Load, Continued(a), ~InInit(a)',
         \A w \in Preview : /\ previews'[w].initializing = previews[w].initializing
                            /\ previews'[w].issued = previews[w].issued
                            /\ previews'[w].shown = previews[w].shown,
         loads'[a].stage = "barrier" /\ Owns(a)' => On(a)'.initializing \in {loads'[a].behind, None},
         loads'[a].stage \in {"create", "recover"} /\ Owns(a)' => On(a)'.initializing = None
  PROVE  InitInv' /\ ShownInv'
<1> USE DEF PreviewInv
<1>1. \A b \in Load : Busy(b) /\ b # a =>
        /\ loads'[b] = loads[b] /\ loads[b].preview \in Preview
        /\ On(b)'.initializing = On(b).initializing /\ On(b)'.shown = On(b).shown
  BY DEF Continued, NumberedInv, On
<1>2. \A b \in Load : Busy(b) /\ Owns(b)' => Owns(b)
  BY OwnsKept
<1>3. \A b \in Load : b # a /\ Busy(b)' => Busy(b)
  BY DEF Continued, Busy
<1>4. \A b \in Load : InInit(b)' => b # a /\ InInit(b) /\ Busy(b)
  BY DEF Continued, InInit, Busy
<1>5. InitInv'
  <2>1. \A b \in Load : InInit(b)' => On(b)'.initializing = b
    BY <1>1, <1>4 DEF InitInv
  <2>2. \A b \in Load : b # a /\ loads'[b].stage = "barrier" /\ Owns(b)' =>
          On(b)'.initializing \in {loads'[b].behind, None}
    BY <1>1, <1>2 DEF InitInv, Continued, Busy
  <2>3. \A b \in Load : b # a /\ loads'[b].stage \in {"create", "recover"} /\ Owns(b)' =>
          On(b)'.initializing = None
    BY <1>1, <1>2 DEF InitInv, Continued, Busy
  <2>4. QED
    BY <2>1, <2>2, <2>3 DEF InitInv
<1>6. ShownInv'
  BY <1>1, <1>4 DEF ShownInv
<1>7. QED
  BY <1>5, <1>6

\* A load that settles.
LEMMA SettledLoad ==
  ASSUME TypeOK, NEW a \in Load, loads' = Settled(a)
  PROVE  /\ loads' \in [Load -> Attempt]
         /\ \A b \in Load : b # a => loads'[b] = loads[b]
         /\ loads'[a].preview = loads[a].preview
         /\ loads'[a].stage = "done" /\ ~loads'[a].live
<1> DEFINE x == [NoAttempt EXCEPT !.preview = loads[a].preview, !.stage = "done"]
<1>1. x.preview = loads[a].preview /\ x.stage = "done" /\ ~x.live
  BY DEF NoAttempt
<1>2. x \in Attempt
  <2>1. loads[a].preview \in Preview \cup {None}
    BY DEF TypeOK, Attempt
  <2>2. 0 \in 0..LastRequest
    OBVIOUS
  <2>3. NoAttempt \in Attempt
    BY <2>2 DEF NoAttempt, Attempt
  <2>4. QED
    BY <2>1, <2>3 DEF Attempt
<1>3. loads' = [loads EXCEPT ![a] = x]
  BY DEF Settled
<1> HIDE DEF x
<1>4. QED
  BY <1>1, <1>2, <1>3 DEF TypeOK
-----------------------------------------------------------------------------
(* The capture.                                                              *)

LEMMA HostCapturesKeeps ==
  ASSUME PreviewInv, NEW a \in Load, HostCaptures(a)
  PROVE  PreviewInv'
<1> USE DEF PreviewInv
<1>p. Parts
  BY TypeParts
<1>1. pending = a /\ loads[a].capture = "waiting" /\ slot = None /\ loads[a].stage = "capture"
  BY <1>p DEF HostCaptures, CaptureInv, Parts
<1>2. /\ wire' = wire \ {<<"preview", a>>}
      /\ slot' = [load |-> a, cancelled |-> FALSE]
      /\ UNCHANGED <<loads, previews, pending, sessions, called>>
  BY <1>1 DEF HostCaptures
<1>3. TypeOK'
  BY <1>2 DEF TypeOK
<1>4. Continued(a)
  BY <1>1, <1>2 DEF Continued, Busy
<1>5. NumberedInv'
  BY <1>4, NumberedKept
<1>6. CaptureInv'
  <2>1. slot' # None => pending' = slot'.load /\ loads'[slot'.load].capture = "waiting"
    BY <1>1, <1>2
  <2>2. \A b \in Load : <<"preview", b>> \notin wire'
    BY <1>1, <1>2 DEF CaptureInv
  <2>3. QED
    BY <1>1, <1>2, <2>1, <2>2 DEF CaptureInv, On
<1>7. CancelsOwn'
  BY <1>2 DEF CancelsOwn
<1>8. InitInv' /\ ShownInv'
  BY <1>1, <1>2, <1>4, InitKept DEF InInit
<1>9. QED
  BY <1>3, <1>5, <1>6, <1>7, <1>8

LEMMA HostAnswersKeeps ==
  ASSUME PreviewInv, NEW a \in Load, HostAnswers(a)
  PROVE  PreviewInv'
<1> USE DEF PreviewInv
<1>p. Parts
  BY TypeParts
<1>1. pending = a /\ slot # None /\ loads[a].stage = "capture"
  BY <1>p DEF HostAnswers, CaptureInv, Parts
<1>2. slot' = None /\ UNCHANGED <<previews, pending, wire, sessions, called>>
  BY DEF HostAnswers
<1>3. PICK answer \in {"copy", "nothing", "failed"} :
        loads' = [loads EXCEPT ![a].capture = answer]
  BY DEF HostAnswers
<1>4. /\ \A b \in Load : b # a => loads'[b] = loads[b]
      /\ loads'[a].preview = loads[a].preview /\ loads'[a].stage = "capture"
      /\ loads'[a].live = loads[a].live /\ loads'[a].cancel = loads[a].cancel
  BY <1>1, <1>3, <1>p DEF Parts, TypeOK, Attempt
<1>5. TypeOK'
  <2>1. [loads[a] EXCEPT !.capture = answer] \in Attempt
    <3>1. loads[a] \in Attempt
      BY <1>p DEF Parts
    <3>2. QED
      BY <3>1 DEF Attempt
  <2>2. loads' \in [Load -> Attempt]
    BY <1>3, <2>1 DEF TypeOK
  <2>3. QED
    BY <1>2, <2>2 DEF TypeOK
<1>6. Continued(a)
  BY <1>1, <1>2, <1>4 DEF Continued, Busy
<1>7. NumberedInv'
  BY <1>6, NumberedKept
<1>8. CaptureInv'
  <2>1. \A b \in Load : <<"preview", b>> \notin wire'
    BY <1>1, <1>2 DEF CaptureInv
  <2>2. \A b \in Load : <<"cancelPreview", b>> \in wire' => b = a
    BY <1>1, <1>2 DEF CaptureInv
  <2>3. QED
    BY <1>1, <1>2, <1>4, <2>1, <2>2 DEF CaptureInv, On
<1>9. CancelsOwn'
  BY <1>2 DEF CancelsOwn
<1>10. InitInv' /\ ShownInv'
  BY <1>2, <1>4, <1>6, InitKept DEF InInit
<1>11. QED
  BY <1>5, <1>7, <1>8, <1>9, <1>10

LEMMA HostCancelsKeeps ==
  ASSUME PreviewInv, NEW a \in Load, HostCancels(a)
  PROVE  PreviewInv'
<1> USE DEF PreviewInv
<1>p. Parts
  BY TypeParts
<1>1. pending = a /\ On(a).closed /\ loads[a].stage = "capture"
  BY <1>p DEF HostCancels, CaptureInv, Parts
<1>2. /\ wire' = wire \ {<<"cancelPreview", a>>}
      /\ loads' = [loads EXCEPT ![a].cancel = "settled"]
      /\ slot' = IF slot = None THEN None ELSE [slot EXCEPT !.cancelled = TRUE]
      /\ UNCHANGED <<previews, pending, sessions, called>>
  BY DEF HostCancels
<1>3. /\ \A b \in Load : b # a => loads'[b] = loads[b]
      /\ loads'[a].preview = loads[a].preview /\ loads'[a].stage = "capture"
      /\ loads'[a].live = loads[a].live /\ loads'[a].capture = loads[a].capture
  BY <1>1, <1>2, <1>p DEF Parts, TypeOK, Attempt
<1>4. TypeOK'
  <2>1. [loads[a] EXCEPT !.cancel = "settled"] \in Attempt
    <3>1. loads[a] \in Attempt
      BY <1>p DEF Parts
    <3>2. QED
      BY <3>1 DEF Attempt
  <2>2. loads' \in [Load -> Attempt]
    BY <1>2, <2>1 DEF TypeOK
  <2>3. slot' \in [load : Load, cancelled : BOOLEAN] \cup {None}
    BY <1>2 DEF TypeOK
  <2>4. QED
    BY <1>2, <2>2, <2>3 DEF TypeOK
<1>5. (slot' # None => slot # None /\ slot'.load = slot.load) /\ (slot = None => slot' = None)
  BY <1>2 DEF TypeOK
<1>6. Continued(a)
  BY <1>1, <1>2, <1>3 DEF Continued, Busy
<1>7. NumberedInv'
  BY <1>6, NumberedKept
<1>8. CaptureInv'
  <2>1. \A b \in Load : <<"cancelPreview", b>> \notin wire'
    BY <1>1, <1>2 DEF CaptureInv
  <2>2. \A b \in Load : <<"preview", b>> \in wire' => <<"preview", b>> \in wire
    BY <1>2
  <2>3. \A b \in Load : loads'[b].capture = loads[b].capture
    BY <1>3
  <2>4. slot' # None => pending' = slot'.load /\ loads'[slot'.load].capture = "waiting"
    BY <1>2, <1>5, <2>3, <1>p DEF CaptureInv, Parts
  <2>5. \A b \in Load : <<"preview", b>> \in wire' =>
          pending' = b /\ loads'[b].capture = "waiting" /\ slot' = None
    BY <1>2, <1>5, <2>2, <2>3 DEF CaptureInv
  <2>6. pending' # None => loads'[pending'].stage = "capture"
    BY <1>1, <1>2, <1>3
  <2>7. QED
    BY <2>1, <2>4, <2>5, <2>6 DEF CaptureInv
<1>9. CancelsOwn'
  BY <1>1, <1>2, <1>3, <1>5 DEF CancelsOwn, CaptureInv, On
<1>10. InitInv' /\ ShownInv'
  BY <1>2, <1>3, <1>6, InitKept DEF InInit
<1>11. QED
  BY <1>4, <1>7, <1>8, <1>9, <1>10
-----------------------------------------------------------------------------
(* From the capture to the init.                                             *)

\* What a load leaves of itself when it moves on to a stage before its init.
Moved(a) ==
  /\ loads' \in [Load -> Attempt]
  /\ \A b \in Load : b # a => loads'[b] = loads[b]
  /\ loads'[a].preview = loads[a].preview
  /\ loads'[a].live => loads[a].live
  /\ loads'[a].stage \in {"barrier", "create", "recover", "done"}

LEMMA StageMoves ==
  ASSUME TypeOK, NEW a \in Load, NEW s \in {"create", "recover"},
         loads' = [loads EXCEPT ![a].stage = s]
  PROVE  Moved(a) /\ loads'[a].stage = s /\ loads'[a].live = loads[a].live
<1>1. loads[a] \in Attempt
  BY DEF TypeOK
<1>2. [loads[a] EXCEPT !.stage = s] \in Attempt
  BY <1>1 DEF Attempt
<1>3. /\ [loads[a] EXCEPT !.stage = s].stage = s
      /\ [loads[a] EXCEPT !.stage = s].preview = loads[a].preview
      /\ [loads[a] EXCEPT !.stage = s].live = loads[a].live
  BY <1>1 DEF Attempt
<1>4. QED
  BY <1>2, <1>3 DEF Moved, TypeOK

LEMMA ProceedsMoves ==
  ASSUME TypeOK, NEW a \in Load, Proceeds(a)
  PROVE  /\ Moved(a) /\ loads'[a].stage # "barrier"
         /\ loads'[a].stage \in {"create", "recover"} => Owns(a)
<1>1. CASE ~Owns(a)
  BY <1>1, SettledLoad DEF Proceeds, Moved
<1>2. CASE Owns(a)
  <2>1. PICK s \in {"create", "recover"} : loads' = [loads EXCEPT ![a].stage = s]
    BY <1>2 DEF Proceeds
  <2>2. Moved(a) /\ loads'[a].stage = s
    BY <2>1, StageMoves
  <2>3. QED
    BY <1>2, <2>2
<1>3. QED
  BY <1>1, <1>2

LEMMA CaptureResumesKeeps ==
  ASSUME PreviewInv, NEW a \in Load, CaptureResumes(a)
  PROVE  PreviewInv'
<1> USE DEF PreviewInv
<1>p. Parts
  BY TypeParts
<1>1. /\ loads[a].stage = "capture" /\ loads[a].capture # "waiting" /\ loads[a].cancel # "sent"
      /\ pending' = IF pending = a THEN None ELSE pending
      /\ UNCHANGED <<previews, wire, slot, sessions, called>>
  BY DEF CaptureResumes, At, CaptureOver
<1>2. /\ Moved(a)
      /\ loads'[a].stage = "barrier" => loads'[a].behind = On(a).initializing
      /\ loads'[a].stage \in {"create", "recover"} => On(a).initializing = None
  <2>1. CASE ~Owns(a) \/ loads[a].capture # "copy"
    BY <2>1, SettledLoad DEF CaptureResumes, Moved
  <2>2. CASE Owns(a) /\ loads[a].capture = "copy" /\ Barrier(a) # None
    <3> DEFINE x == [loads[a] EXCEPT !.stage = "barrier", !.behind = Barrier(a)]
    <3>1. loads[a] \in Attempt /\ Barrier(a) \in Load \cup {None}
      <4>1. loads[a].preview \in Preview
        BY <1>1 DEF NumberedInv, Busy
      <4>2. QED
        BY <4>1, <1>p DEF Parts, Barrier
    <3>2. x \in Attempt
      BY <3>1 DEF Attempt
    <3>3. /\ x.preview = loads[a].preview /\ x.live = loads[a].live
          /\ x.stage = "barrier" /\ x.behind = Barrier(a)
      BY <3>1 DEF Attempt
    <3>4. loads' = [loads EXCEPT ![a] = x]
      BY <2>2 DEF CaptureResumes, TypeOK
    <3> HIDE DEF x
    <3>5. QED
      BY <3>2, <3>3, <3>4 DEF Moved, TypeOK, Barrier, On
  <2>3. CASE Owns(a) /\ loads[a].capture = "copy" /\ Barrier(a) = None
    <3>1. Proceeds(a)
      BY <2>3 DEF CaptureResumes
    <3>2. QED
      BY <2>3, <3>1, ProceedsMoves DEF Barrier, On
  <2>4. QED
    BY <2>1, <2>2, <2>3
<1>3. TypeOK'
  BY <1>1, <1>2 DEF TypeOK, Moved
<1>4. Continued(a)
  BY <1>1, <1>2 DEF Continued, Busy, Moved
<1>5. NumberedInv'
  BY <1>4, NumberedKept
<1>6. CaptureInv' /\ CancelsOwn'
  <2>1. slot # None => slot.load # a /\ slot.load \in Load
    BY <1>1, <1>p DEF CaptureInv, Parts
  <2>2. pending' # None => pending' = pending /\ pending # a /\ pending \in Load
    BY <1>1, <1>p DEF Parts
  <2>3. \A b \in Load : <<"preview", b>> \in wire' =>
          pending' = b /\ loads'[b].capture = "waiting" /\ slot' = None
    BY <1>1, <1>2 DEF CaptureInv, Moved
  <2>4. \A b \in Load : <<"cancelPreview", b>> \in wire' =>
          pending' = b /\ loads'[b].cancel = "sent" /\ On(b)'.closed
    BY <1>1, <1>2 DEF CaptureInv, Moved, On
  <2>5. slot' # None => pending' = slot'.load /\ loads'[slot'.load].capture = "waiting"
    BY <1>1, <1>2, <2>1 DEF CaptureInv, Moved
  <2>6. CancelsOwn'
    BY <1>1, <1>2, <2>1 DEF CancelsOwn, Moved
  <2>7. pending' # None => loads'[pending'].stage = "capture"
    BY <1>2, <2>2 DEF CaptureInv, Moved
  <2>8. QED
    BY <2>3, <2>4, <2>5, <2>6, <2>7 DEF CaptureInv
<1>7. InitInv' /\ ShownInv'
  <2>1. On(a)' = On(a)
    BY <1>1, <1>2 DEF On, Moved
  <2>2. QED
    BY <1>1, <1>2, <1>4, <2>1, InitKept DEF InInit, Moved
<1>8. QED
  BY <1>3, <1>5, <1>6, <1>7

LEMMA BarrierResumesKeeps ==
  ASSUME PreviewInv, NEW a \in Load, BarrierResumes(a)
  PROVE  PreviewInv'
<1> USE DEF PreviewInv
<1>1. /\ loads[a].stage = "barrier" /\ On(a).initializing # loads[a].behind
      /\ UNCHANGED <<previews, pending, wire, slot, sessions, called>>
  BY DEF BarrierResumes, At, On
<1>2. /\ Moved(a) /\ loads'[a].stage # "barrier"
      /\ loads'[a].stage \in {"create", "recover"} => Owns(a)
  BY ProceedsMoves DEF BarrierResumes
<1>3. TypeOK'
  BY <1>1, <1>2 DEF TypeOK, Moved
<1>4. Continued(a)
  BY <1>1, <1>2 DEF Continued, Busy, Moved
<1>5. NumberedInv'
  BY <1>4, NumberedKept
<1>6. CaptureInv' /\ CancelsOwn'
  BY <1>1, <1>4, CaptureKept
<1>7. InitInv' /\ ShownInv'
  <2>1. On(a)' = On(a)
    BY <1>1, <1>2 DEF On, Moved
  <2>2. Owns(a) => On(a).initializing = None
    BY <1>1 DEF InitInv
  <2>3. QED
    BY <1>1, <1>2, <1>4, <2>1, <2>2, InitKept DEF InInit, Moved
<1>8. QED
  BY <1>3, <1>5, <1>6, <1>7

\* What a step leaves of the adapters when it only changes a runtime.
SameBut ==
  /\ previews' \in [Preview -> Adapter]
  /\ \A w \in Preview : /\ previews'[w].closed = previews[w].closed
                        /\ previews'[w].current = previews[w].current
                        /\ previews'[w].initializing = previews[w].initializing
                        /\ previews'[w].issued = previews[w].issued
                        /\ previews'[w].shown = previews[w].shown

LEMMA RuntimeChanges ==
  ASSUME TypeOK, NEW v \in Preview, NEW rt \in Runtime,
         previews' = [previews EXCEPT ![v] = [previews[v] EXCEPT !.runtime = rt]]
  PROVE  SameBut
<1> DEFINE x == [previews[v] EXCEPT !.runtime = rt]
<1>1. previews[v] \in Adapter
  BY DEF TypeOK
<1>2. x \in Adapter
  BY <1>1 DEF Adapter
<1>3. /\ x.closed = previews[v].closed /\ x.current = previews[v].current
      /\ x.initializing = previews[v].initializing
      /\ x.issued = previews[v].issued /\ x.shown = previews[v].shown
  BY <1>1 DEF Adapter
<1>4. previews' = [previews EXCEPT ![v] = x]
  OBVIOUS
<1> HIDE DEF x
<1>5. QED
  BY <1>2, <1>3, <1>4 DEF SameBut, TypeOK

LEMMA CreateResumesKeeps ==
  ASSUME PreviewInv, NEW a \in Load, CreateResumes(a)
  PROVE  PreviewInv'
<1> USE DEF PreviewInv
<1>1. loads[a].stage = "create" /\ UNCHANGED <<pending, wire, slot, sessions, called>>
  BY DEF CreateResumes, At
<1>2. loads[a].preview \in Preview
  BY <1>1 DEF NumberedInv, Busy
<1>3. /\ Moved(a) /\ loads'[a].stage \notin {"barrier", "create"}
      /\ loads'[a].stage = "recover" => Owns(a)
      /\ SameBut
  <2>1. CASE loads' = Settled(a) /\ UNCHANGED previews
    BY <2>1, SettledLoad DEF Moved, SameBut, TypeOK
  <2>2. CASE /\ Owns(a)
             /\ previews' = [previews EXCEPT ![loads[a].preview].runtime = NewRuntime]
             /\ loads' = [loads EXCEPT ![a].stage = "recover"]
    <3>1. NewRuntime \in Runtime
      BY DEF NewRuntime, Runtime
    <3>2. SameBut
      BY <1>2, <2>2, <3>1, RuntimeChanges
    <3>3. QED
      BY <2>2, <3>2, StageMoves
  <2>3. QED
    BY <2>1, <2>2 DEF CreateResumes
<1>4. TypeOK'
  BY <1>1, <1>3 DEF TypeOK, Moved, SameBut
<1>5. Continued(a)
  BY <1>1, <1>3 DEF Continued, Busy, Moved, SameBut
<1>6. NumberedInv'
  BY <1>5, NumberedKept
<1>7. CaptureInv' /\ CancelsOwn'
  BY <1>1, <1>5, CaptureKept
<1>8. InitInv' /\ ShownInv'
  <2>1. On(a)'.initializing = On(a).initializing
    BY <1>2, <1>3 DEF On, Moved, SameBut
  <2>2. Owns(a) => On(a).initializing = None
    BY <1>1 DEF InitInv
  <2>3. QED
    BY <1>3, <1>5, <2>1, <2>2, InitKept DEF InInit, Moved, SameBut
<1>9. QED
  BY <1>4, <1>6, <1>7, <1>8

-----------------------------------------------------------------------------
(* The init.                                                                 *)

LEMMA HostInitsKeeps ==
  ASSUME PreviewInv, NEW a \in Load, HostInits(a)
  PROVE  PreviewInv'
<1> USE DEF PreviewInv
<1>p. Parts
  BY TypeParts
<1>1. loads[a].stage = "init" /\ UNCHANGED <<previews, pending, wire, slot, called>>
  BY DEF HostInits, At
<1>2. PICK init \in {"session", "missing", "failed"} :
        /\ loads' = [loads EXCEPT ![a] = [loads[a] EXCEPT !.stage = "inited", !.init = init]]
        /\ sessions' = IF init = "failed" THEN sessions ELSE sessions \cup {a}
  BY DEF HostInits, TypeOK
<1> DEFINE x == [loads[a] EXCEPT !.stage = "inited", !.init = init]
<1>3. loads[a] \in Attempt
  BY <1>p DEF Parts
<1>4. x \in Attempt
  BY <1>3 DEF Attempt
<1>5. /\ x.stage = "inited" /\ x.preview = loads[a].preview /\ x.live = loads[a].live
      /\ x.request = loads[a].request
  BY <1>3 DEF Attempt
<1> HIDE DEF x
<1>6. /\ loads' \in [Load -> Attempt]
      /\ \A b \in Load : b # a => loads'[b] = loads[b]
      /\ loads'[a] = x
  BY <1>2, <1>4 DEF TypeOK, x
<1>7. TypeOK'
  BY <1>1, <1>2, <1>6 DEF TypeOK
<1>8. Continued(a)
  BY <1>1, <1>5, <1>6 DEF Continued, Busy
<1>9. NumberedInv'
  BY <1>8, NumberedKept
<1>10. CaptureInv' /\ CancelsOwn'
  BY <1>1, <1>8, CaptureKept
<1>11. \A b \in Load : loads'[b].stage # "inited" => loads'[b] = loads[b]
  BY <1>5, <1>6
<1>12. \A b \in Load : InInit(b)' =>
         /\ InInit(b) /\ loads'[b].preview = loads[b].preview /\ loads'[b].request = loads[b].request
  BY <1>1, <1>5, <1>6 DEF InInit
<1>13. InitInv'
  BY <1>1, <1>11, <1>12 DEF InitInv, On, Owns
<1>14. ShownInv'
  BY <1>1, <1>12 DEF ShownInv, On
<1>15. QED
  BY <1>7, <1>9, <1>10, <1>13, <1>14

\* Issuing a request generation makes a new greatest one, or none.
LEMMA IssuedNext ==
  ASSUME TypeOK, NEW v \in Preview
  PROVE  /\ Issued(v) \in Adapter
         /\ Issued(v).closed = previews[v].closed /\ Issued(v).current = previews[v].current
         /\ Issued(v).shown = previews[v].shown
         /\ Issued(v).issued >= previews[v].issued
         /\ ~Exhausts(v) => Issued(v).issued = previews[v].issued + 1
<1>1. /\ previews[v] \in Adapter /\ previews[v].issued \in 0..LastRequest
      /\ previews[v].issued >= previews[v].issued
  BY DEF TypeOK, Adapter
<1>2. CASE Exhausts(v)
  <2>1. Issued(v) = [previews[v] EXCEPT !.exhausted = TRUE]
    BY <1>2 DEF Issued
  <2>2. QED
    BY <1>1, <1>2, <2>1 DEF Adapter
<1>3. CASE ~Exhausts(v)
  <2>1. previews[v].issued + 1 \in 0..LastRequest
    BY <1>1, <1>3 DEF Exhausts
  <2>2. Issued(v) = [previews[v] EXCEPT !.issued = previews[v].issued + 1]
    BY <1>1, <1>3 DEF Issued, Adapter
  <2>3. QED
    BY <1>1, <2>1, <2>2 DEF Adapter
<1>4. QED
  BY <1>2, <1>3

\* Observing it leaves a runtime.
LEMMA ObservedType ==
  ASSUME NEW p \in Adapter
  PROVE  Observed(p) \in Runtime
<1>1. p.runtime \in Runtime /\ p.issued \in 0..LastRequest /\ p.exhausted \in BOOLEAN
  BY DEF Adapter
<1>2. CASE CanObserve(p)
  <2>1. p.runtime.exhausted \in BOOLEAN
    BY <1>1 DEF Runtime
  <2>2. (p.runtime.exhausted \/ p.exhausted) \in BOOLEAN
    BY <1>1, <2>1
  <2>3. QED
    BY <1>1, <1>2, <2>2 DEF Observed, Runtime
<1>3. CASE ~CanObserve(p)
  BY <1>1, <1>3 DEF Observed
<1>4. QED
  BY <1>2, <1>3

LEMMA RecoverResumesKeeps ==
  ASSUME PreviewInv, NEW a \in Load, RecoverResumes(a)
  PROVE  PreviewInv'
<1> USE DEF PreviewInv
<1>p. Parts
  BY TypeParts
<1>1. loads[a].stage = "recover" /\ UNCHANGED <<pending, wire, slot, sessions, called>>
  BY DEF RecoverResumes, At
<1>2. loads[a].preview \in Preview /\ loads[a] \in Attempt
  BY <1>1, <1>p DEF NumberedInv, Busy, Parts
<1>3. CASE loads' = Settled(a) /\ UNCHANGED previews
  <2>1. Moved(a) /\ loads'[a].stage = "done"
    BY <1>3, SettledLoad DEF Moved
  <2>2. TypeOK'
    BY <1>1, <1>3, <2>1 DEF TypeOK, Moved
  <2>3. Continued(a)
    BY <1>1, <1>3, <2>1 DEF Continued, Busy, Moved
  <2>4. NumberedInv'
    BY <2>3, NumberedKept
  <2>5. CaptureInv' /\ CancelsOwn'
    BY <1>1, <2>3, CaptureKept
  <2>6. InitInv' /\ ShownInv'
    BY <1>3, <2>1, <2>3, InitKept DEF InInit
  <2>7. QED
    BY <2>2, <2>4, <2>5, <2>6
<1>4. CASE Owns(a) /\ ~(loads' = Settled(a) /\ UNCHANGED previews)
  <2> DEFINE v == loads[a].preview
             p == [Issued(v) EXCEPT !.initializing = a]
  <2>1. PICK trap \in BOOLEAN :
          /\ previews' = [previews EXCEPT ![v] =
               [p EXCEPT !.runtime = [Observed(p) EXCEPT !.retired = @ \/ trap]]]
          /\ loads' = [loads EXCEPT
               ![a].stage = "init",
               ![a].request = IF Exhausts(v) THEN 0 ELSE p.issued,
               ![a].observed = CanObserve(p) /\ ~trap]
    BY <1>4 DEF RecoverResumes
  <2>2. /\ p \in Adapter
        /\ p.closed = previews[v].closed /\ p.current = previews[v].current
        /\ p.shown = previews[v].shown /\ p.initializing = a
        /\ p.issued >= previews[v].issued
        /\ ~Exhausts(v) => p.issued = previews[v].issued + 1
    <3>1. v \in Preview
      BY <1>2
    <3> DEFINE q == Issued(v)
    <3>2. /\ q \in Adapter
          /\ q.closed = previews[v].closed /\ q.current = previews[v].current
          /\ q.shown = previews[v].shown
          /\ q.issued >= previews[v].issued
          /\ ~Exhausts(v) => q.issued = previews[v].issued + 1
      BY <3>1, IssuedNext
    <3>3. p = [q EXCEPT !.initializing = a]
      OBVIOUS
    <3> HIDE DEF v, p, q
    <3>4. QED
      BY <3>2, <3>3 DEF Adapter
  <2>3. Observed(p) \in Runtime
    BY <2>2, ObservedType
  <2> DEFINE rt == [Observed(p) EXCEPT !.retired = @ \/ trap]
             x == [p EXCEPT !.runtime = rt]
             r == IF Exhausts(v) THEN 0 ELSE p.issued
             y == [loads[a] EXCEPT !.stage = "init", !.request = r,
                                   !.observed = CanObserve(p) /\ ~trap]
  <2>4. r \in 0..LastRequest /\ (CanObserve(p) /\ ~trap) \in BOOLEAN
    <3>1. p.issued \in 0..LastRequest
      BY <2>2 DEF Adapter
    <3> HIDE DEF p
    <3>2. r \in 0..LastRequest
      BY <3>1
    <3>3. (CanObserve(p) /\ ~trap) \in BOOLEAN
      OBVIOUS
    <3>4. QED
      BY <3>2, <3>3
  <2>5. previews' = [previews EXCEPT ![v] = x]
    BY <2>1
  <2>6. loads' = [loads EXCEPT ![a] = y]
    <3> DEFINE o == CanObserve(p) /\ ~trap
    <3>1. loads' = [loads EXCEPT ![a].stage = "init", ![a].request = r, ![a].observed = o]
      BY <2>1
    <3>2. y = [loads[a] EXCEPT !.stage = "init", !.request = r, !.observed = o]
      OBVIOUS
    <3> HIDE DEF v, p, r, o, y
    <3>3. QED
      BY <3>1, <3>2 DEF TypeOK
  <2> HIDE DEF v, p, r
  <2>7. rt \in Runtime
    <3> DEFINE o == Observed(p)
    <3>1. o \in Runtime
      BY <2>3
    <3> HIDE DEF o
    <3>2. o.retired \in BOOLEAN
      BY <3>1 DEF Runtime
    <3>3. (o.retired \/ trap) \in BOOLEAN
      BY <3>2
    <3>4. [o EXCEPT !.retired = o.retired \/ trap] \in Runtime
      BY <3>1, <3>3 DEF Runtime
    <3>5. rt = [o EXCEPT !.retired = o.retired \/ trap]
      BY <3>1 DEF Runtime, o
    <3>6. QED
      BY <3>4, <3>5
  <2> HIDE DEF rt
  <2>8. /\ x \in Adapter
        /\ x.closed = p.closed /\ x.current = p.current /\ x.shown = p.shown
        /\ x.initializing = p.initializing /\ x.issued = p.issued
    BY <2>2, <2>7 DEF Adapter
  <2>9. /\ y \in Attempt
        /\ y.stage = "init" /\ y.preview = v /\ y.live = loads[a].live /\ y.request = r
    <3>1. loads[a].preview = v
      BY DEF v
    <3>2. QED
      BY <1>2, <2>4, <3>1 DEF Attempt
  <2> HIDE DEF x, y
  <2>10. v = loads[a].preview /\ v \in Preview
    BY <1>2 DEF v
  <2>11. /\ loads' \in [Load -> Attempt] /\ loads'[a] = y
         /\ \A b \in Load : b # a => loads'[b] = loads[b]
    BY <2>6, <2>9 DEF TypeOK
  <2>12. /\ previews' \in [Preview -> Adapter] /\ previews'[v] = x
         /\ \A w \in Preview : w # v => previews'[w] = previews[w]
    BY <2>5, <2>8, <2>10 DEF TypeOK
  <2>13. TypeOK'
    BY <1>1, <2>11, <2>12 DEF TypeOK
  <2>14. Continued(a)
    BY <1>1, <2>2, <2>8, <2>9, <2>10, <2>11, <2>12 DEF Continued, Busy
  <2>15. NumberedInv'
    BY <2>14, NumberedKept
  <2>16. CaptureInv' /\ CancelsOwn'
    BY <1>1, <2>14, CaptureKept
  <2>17. \A b \in Load : InInit(b) => loads[b].preview # v
    <3> SUFFICES ASSUME NEW b \in Load, InInit(b), loads[b].preview = v
                 PROVE  FALSE
      OBVIOUS
    <3>1. On(a).initializing = None
      BY <1>1, <1>4 DEF InitInv
    <3>2. On(b).initializing = b
      BY DEF InitInv
    <3>3. QED
      BY <3>1, <3>2, <2>10, <1>p DEF On, Parts
  <2>18. \A b \in Load : b # a /\ Busy(b)' =>
           Busy(b) /\ loads'[b] = loads[b] /\ loads[b].preview \in Preview
    BY <2>11 DEF NumberedInv, Busy
  <2>19. InitInv'
    <3>1. On(a)'.initializing = a
      BY <2>2, <2>8, <2>9, <2>10, <2>11, <2>12 DEF On
    <3>2. \A b \in Load : b # a /\ InInit(b)' =>
            On(b)'.initializing = b
      BY <2>12, <2>17, <2>18 DEF InitInv, InInit, Busy, On
    <3>3. \A b \in Load : b # a /\ Busy(b)' /\ Owns(b)' => Owns(b) /\ loads[b].preview # v
      <4> SUFFICES ASSUME NEW b \in Load, b # a, Busy(b)', Owns(b)'
                   PROVE  Owns(b) /\ loads[b].preview # v
        OBVIOUS
      <4>1. Owns(b)
        BY <2>14, <2>18, OwnsKept
      <4>2. previews[v].current = a
        BY <1>4, <2>10 DEF Owns
      <4>3. QED
        BY <4>1, <4>2 DEF Owns
    <3>4. \A b \in Load : b # a /\ loads'[b].stage = "barrier" /\ Owns(b)' =>
            On(b)'.initializing \in {loads'[b].behind, None}
      BY <2>12, <2>18, <3>3 DEF InitInv, Busy, On
    <3>5. \A b \in Load : b # a /\ loads'[b].stage \in {"create", "recover"} /\ Owns(b)' =>
            On(b)'.initializing = None
      BY <2>12, <2>18, <3>3 DEF InitInv, Busy, On
    <3>6. loads'[a].stage = "init"
      BY <2>9, <2>11
    <3>7. QED
      BY <3>1, <3>2, <3>4, <3>5, <3>6 DEF InitInv
  <2>20. ShownInv'
    <3>1. \A w \in Preview : previews'[w].shown <= previews'[w].issued
      <4>1. previews'[v].issued \in Nat /\ previews'[v].shown \in Nat
        BY <2>10, <2>12 DEF Adapter
      <4>2. previews'[v].shown <= previews'[v].issued
        BY <4>1, <2>2, <2>8, <2>10, <2>12, <1>p DEF ShownInv, Parts
      <4>3. QED
        BY <4>2, <2>12 DEF ShownInv
    <3>2. \A b \in Load : b # a /\ InInit(b)' /\ loads'[b].request # 0 =>
            On(b)'.shown < loads'[b].request
      BY <2>12, <2>17, <2>18 DEF ShownInv, InInit, Busy, On
    <3>3. loads'[a].request # 0 => On(a)'.shown < loads'[a].request
      <4>1. loads'[a].request # 0 => loads'[a].request = previews[v].issued + 1
        BY <2>2, <2>9, <2>11 DEF r
      <4>2. On(a)'.shown = previews[v].shown
        BY <2>2, <2>8, <2>9, <2>10, <2>11, <2>12 DEF On
      <4>3. previews[v].shown <= previews[v].issued /\ previews[v].issued \in Nat /\ previews[v].shown \in Nat
        BY <2>10, <1>p DEF ShownInv, Parts
      <4>4. QED
        BY <4>1, <4>2, <4>3
    <3>4. QED
      BY <3>1, <3>2, <3>3 DEF ShownInv
  <2>21. QED
    BY <2>13, <2>15, <2>16, <2>19, <2>20
<1>5. QED
  BY <1>3, <1>4 DEF RecoverResumes

\* What the end of an init does to its adapter: the barrier falls, and what is
\* shown stays or becomes the request of this load, the newest one there is.
LEMMA InitEnds ==
  ASSUME PreviewInv, NEW a \in Load, InitResumes(a)
  PROVE  LET v == loads[a].preview IN
         /\ v \in Preview /\ InInit(a)
         /\ previews' \in [Preview -> Adapter]
         /\ \A w \in Preview : w # v => previews'[w] = previews[w]
         /\ previews'[v].closed = previews[v].closed
         /\ previews'[v].current = previews[v].current
         /\ previews'[v].issued = previews[v].issued
         /\ previews'[v].initializing = None
         /\ \/ previews'[v].shown = previews[v].shown
            \/ /\ Owns(a) /\ loads[a].request # 0
               /\ previews'[v].shown = loads[a].request
               /\ loads[a].request = previews[v].issued
<1> USE DEF PreviewInv
<1>p. Parts
  BY TypeParts
<1>1. loads[a].stage = "inited"
  BY DEF InitResumes, At
<1>2. loads[a].preview \in Preview /\ InInit(a)
  BY <1>1 DEF NumberedInv, Busy, InInit
<1> DEFINE v == loads[a].preview
           p == [previews[v] EXCEPT !.initializing = Released(a)]
           rt == Observed(p)
           shows == Owns(a) /\ CanObserve(p) /\ Fresh(rt, loads[a].request)
<1>3. Released(a) = None
  BY <1>2 DEF InitInv, Released, On
<1>4. /\ p \in Adapter /\ p.initializing = None
      /\ p.closed = previews[v].closed /\ p.current = previews[v].current
      /\ p.issued = previews[v].issued /\ p.shown = previews[v].shown
      /\ p.runtime \in Runtime
  <2>1. previews[v] \in Adapter
    BY <1>2, <1>p DEF Parts
  <2>2. p = [previews[v] EXCEPT !.initializing = None]
    BY <1>3
  <2> HIDE DEF p, v
  <2>3. QED
    BY <2>1, <2>2 DEF Adapter
<1>5. rt \in Runtime
  BY <1>4, ObservedType
<1>6. shows => loads[a].request = p.issued /\ loads[a].request # 0
  <2>1. SUFFICES ASSUME shows PROVE loads[a].request = p.issued /\ loads[a].request # 0
    OBVIOUS
  <2>2. rt.observed = p.issued
    <3>1. CanObserve(p)
      BY <2>1
    <3> HIDE DEF p
    <3>2. QED
      BY <3>1, <1>4 DEF Observed, Runtime
  <2>3. rt.observed # 0 /\ loads[a].request = rt.observed
    BY <2>1 DEF Fresh
  <2>4. QED
    BY <2>2, <2>3
<1> DEFINE Ended(x) ==
      /\ x \in Adapter
      /\ x.closed = previews[v].closed /\ x.current = previews[v].current
      /\ x.issued = previews[v].issued /\ x.initializing = None
      /\ x.shown = previews[v].shown \/ (shows /\ x.shown = loads[a].request)
<1>7. PICK x : previews' = [previews EXCEPT ![v] = x] /\ Ended(x)
  <2> DEFINE q == [p.runtime EXCEPT !.retired = TRUE]
             t == [rt EXCEPT !.active = loads[a].request]
  <2>1. q \in Runtime
    <3> HIDE DEF p
    <3>1. QED
      BY <1>4 DEF Runtime
  <2>2. t \in Runtime
    <3>1. loads[a].request \in 0..LastRequest
      BY DEF TypeOK, Attempt
    <3> HIDE DEF rt
    <3>2. QED
      BY <1>5, <3>1 DEF Runtime
  <2>3. /\ Ended(p)
        /\ Ended([p EXCEPT !.runtime = q])
        /\ Ended([p EXCEPT !.runtime = rt])
        /\ shows => Ended([p EXCEPT !.runtime = t, !.shown = loads[a].request])
    <3>1. loads[a].request \in 0..LastRequest
      BY DEF TypeOK, Attempt
    <3> HIDE DEF p, q, t, rt, shows, v
    <3>2. QED
      BY <1>4, <1>5, <2>1, <2>2, <3>1 DEF Adapter
  <2>4. \/ previews' = [previews EXCEPT ![v] = p]
        \/ previews' = [previews EXCEPT ![v] = [p EXCEPT !.runtime = q]]
        \/ shows /\ previews' = [previews EXCEPT ![v] =
                      [p EXCEPT !.runtime = t, !.shown = loads[a].request]]
        \/ previews' = [previews EXCEPT ![v] = [p EXCEPT !.runtime = rt]]
    BY DEF InitResumes
  <2> HIDE DEF Ended, p, q, t, rt, shows, v
  <2>5. QED
    BY <2>3, <2>4
<1> HIDE DEF p, rt
<1>8. QED
  BY <1>2, <1>4, <1>6, <1>7 DEF TypeOK

LEMMA InitResumesKeeps ==
  ASSUME PreviewInv, NEW a \in Load, InitResumes(a)
  PROVE  PreviewInv'
<1> USE DEF PreviewInv
<1>p. Parts
  BY TypeParts
<1> DEFINE v == loads[a].preview
<1>1. /\ v \in Preview /\ InInit(a)
      /\ previews' \in [Preview -> Adapter]
      /\ \A w \in Preview : w # v => previews'[w] = previews[w]
      /\ previews'[v].closed = previews[v].closed
      /\ previews'[v].current = previews[v].current
      /\ previews'[v].issued = previews[v].issued
      /\ previews'[v].initializing = None
      /\ \/ previews'[v].shown = previews[v].shown
         \/ previews'[v].shown = previews[v].issued
  BY InitEnds
<1>2. /\ loads' = Settled(a) /\ sessions' = sessions \ {a}
      /\ UNCHANGED <<pending, wire, slot, called>>
  BY DEF InitResumes
<1>3. Moved(a) /\ loads'[a].stage = "done" /\ ~loads'[a].live
  BY <1>2, SettledLoad DEF Moved
<1>4. TypeOK'
  BY <1>1, <1>2, <1>3 DEF TypeOK, Moved
<1>5. Continued(a)
  BY <1>1, <1>2, <1>3 DEF Continued, Busy, InInit, Moved
<1>6. NumberedInv'
  BY <1>5, NumberedKept
<1>7. CaptureInv' /\ CancelsOwn'
  BY <1>1, <1>2, <1>5, CaptureKept DEF InInit
<1>8. \A b \in Load : InInit(b) /\ b # a => loads[b].preview # v
  BY <1>1 DEF InitInv, On
<1>9. \A b \in Load : Busy(b)' =>
        Busy(b) /\ b # a /\ loads'[b] = loads[b] /\ loads[b].preview \in Preview
  BY <1>3 DEF NumberedInv, Busy, Moved
<1>10. InitInv'
  <2>1. \A b \in Load : InInit(b)' => On(b)'.initializing = b
    BY <1>1, <1>8, <1>9 DEF InitInv, InInit, Busy, On
  <2>2. \A b \in Load : Busy(b)' /\ Owns(b)' => Owns(b)
    BY <1>5, <1>9, OwnsKept
  <2>3. \A b \in Load : loads'[b].stage = "barrier" /\ Owns(b)' =>
          On(b)'.initializing \in {loads'[b].behind, None}
    BY <1>1, <1>9, <2>2 DEF InitInv, Busy, On
  <2>4. \A b \in Load : loads'[b].stage \in {"create", "recover"} /\ Owns(b)' =>
          On(b)'.initializing = None
    BY <1>1, <1>9, <2>2 DEF InitInv, Busy, On
  <2>5. QED
    BY <2>1, <2>3, <2>4 DEF InitInv
<1>11. ShownInv'
  <2>1. \A w \in Preview : previews'[w].shown <= previews'[w].issued
    <3>1. previews[v].shown <= previews[v].issued /\ previews[v].issued \in Nat
      BY <1>1, <1>p DEF ShownInv, Parts
    <3>2. QED
      BY <1>1, <3>1 DEF ShownInv
  <2>2. \A b \in Load : InInit(b)' /\ loads'[b].request # 0 => On(b)'.shown < loads'[b].request
    BY <1>1, <1>8, <1>9 DEF ShownInv, InInit, Busy, On
  <2>3. QED
    BY <2>1, <2>2 DEF ShownInv
<1>12. QED
  BY <1>4, <1>6, <1>7, <1>10, <1>11

-----------------------------------------------------------------------------
(* The other operations.                                                     *)

LEMMA MutateTrapsKeeps ==
  ASSUME PreviewInv, NEW v \in Preview, MutateTraps(v)
  PROVE  PreviewInv'
<1> USE DEF PreviewInv
<1>p. Parts
  BY TypeParts
<1>1. UNCHANGED <<loads, pending, wire, slot, sessions, called>>
  BY DEF MutateTraps
<1> DEFINE rt == [previews[v].runtime EXCEPT !.retired = TRUE]
<1>2. rt \in Runtime
  <2>1. previews[v].runtime \in Runtime
    BY DEF TypeOK, Adapter
  <2>2. QED
    BY <2>1 DEF Runtime
<1>3. previews' = [previews EXCEPT ![v] = [previews[v] EXCEPT !.runtime = rt]]
  BY DEF MutateTraps, TypeOK
<1> HIDE DEF rt
<1>4. SameBut
  BY <1>2, <1>3, RuntimeChanges
<1>5. TypeOK'
  BY <1>1, <1>4 DEF TypeOK, SameBut
<1>6. \A b \in Load : Busy(b) =>
        /\ loads[b].preview \in Preview
        /\ On(b)'.closed = On(b).closed /\ On(b)'.current = On(b).current
        /\ On(b)'.initializing = On(b).initializing /\ On(b)'.shown = On(b).shown
  BY <1>1, <1>4 DEF NumberedInv, On, SameBut
<1>7. \A b \in Load : Busy(b) /\ Owns(b)' => Owns(b)
  BY <1>1, <1>4, <1>6 DEF Owns, SameBut
<1>8. pending # None => pending \in Load /\ Busy(pending)
  BY <1>p DEF CaptureInv, Busy, Parts
<1>9. NumberedInv'
  BY <1>1, <1>4, <1>6 DEF NumberedInv, SameBut, Busy
<1>10. CaptureInv' /\ CancelsOwn'
  <2>1. \A b \in Load : b = pending => On(b)'.closed = On(b).closed
    BY <1>6, <1>8, <1>p DEF Parts
  <2>2. CaptureInv'
    BY <1>1, <2>1 DEF CaptureInv
  <2>3. CancelsOwn'
    BY <1>1, <2>1, <1>p DEF CancelsOwn, CaptureInv, On, Parts
  <2>4. QED
    BY <2>2, <2>3
<1>11. InitInv'
  BY <1>1, <1>6, <1>7 DEF InitInv, InInit, Busy
<1>12. ShownInv'
  BY <1>1, <1>4, <1>6 DEF ShownInv, InInit, Busy, SameBut
<1>13. QED
  BY <1>5, <1>9, <1>10, <1>11, <1>12

LEMMA CloseKeeps ==
  ASSUME PreviewInv, NEW v \in Preview, Close(v)
  PROVE  PreviewInv'
<1> USE DEF PreviewInv
<1>p. Parts
  BY TypeParts
<1>1. /\ wire' = wire \cup ({"cancelPreview"} \X Capturing(v))
      /\ UNCHANGED <<pending, slot, sessions, called>>
  BY DEF Close
<1> DEFINE c == previews[v].current
           x == [previews[v] EXCEPT !.closed = TRUE, !.current = None, !.runtime = Disposed]
<1>2. /\ x \in Adapter /\ x.closed /\ x.current = None
      /\ x.initializing = previews[v].initializing
      /\ x.issued = previews[v].issued /\ x.shown = previews[v].shown
  <2>1. previews[v] \in Adapter
    BY <1>p DEF Parts
  <2>2. Disposed \in Runtime
    <3>1. NewRuntime \in Runtime
      BY DEF NewRuntime, Runtime
    <3>2. QED
      BY <3>1 DEF Disposed, Runtime
  <2>3. QED
    BY <2>1, <2>2 DEF Adapter
<1>3. previews' = [previews EXCEPT ![v] = x]
  BY DEF Close, TypeOK
<1> HIDE DEF x
<1>4. /\ previews' \in [Preview -> Adapter] /\ previews'[v] = x
      /\ \A w \in Preview : w # v => previews'[w] = previews[w]
  BY <1>2, <1>3 DEF TypeOK
<1>5. c \in Load \cup {None}
  BY <1>p DEF Parts
<1>6. \A b \in Load :
        /\ Discarded(c)[b] \in Attempt
        /\ Discarded(c)[b].stage = loads[b].stage /\ Discarded(c)[b].preview = loads[b].preview
        /\ Discarded(c)[b].capture = loads[b].capture /\ Discarded(c)[b].cancel = loads[b].cancel
        /\ Discarded(c)[b].behind = loads[b].behind /\ Discarded(c)[b].request = loads[b].request
        /\ Discarded(c)[b].live => loads[b].live
        /\ b # c => Discarded(c)[b] = loads[b]
  <2>1. Discarded(c) \in [Load -> Attempt]
    BY <1>5, DiscardedType DEF TypeOK
  <2> HIDE DEF c
  <2>2. QED
    BY <2>1 DEF Discarded, TypeOK, Attempt
<1>7. \A b \in Load : loads'[b] =
        IF b \in Capturing(v) THEN [Discarded(c)[b] EXCEPT !.cancel = "sent"] ELSE Discarded(c)[b]
  BY DEF Close
<1>8. \A b \in Load :
        /\ loads'[b] \in Attempt
        /\ loads'[b].stage = loads[b].stage /\ loads'[b].preview = loads[b].preview
        /\ loads'[b].capture = loads[b].capture
        /\ loads'[b].behind = loads[b].behind /\ loads'[b].request = loads[b].request
        /\ loads'[b].live => loads[b].live
        /\ loads'[b].cancel = IF b \in Capturing(v) THEN "sent" ELSE loads[b].cancel
        /\ b # c /\ b \notin Capturing(v) => loads'[b] = loads[b]
  <2> SUFFICES ASSUME NEW b \in Load
      PROVE
        /\ loads'[b] \in Attempt
        /\ loads'[b].stage = loads[b].stage /\ loads'[b].preview = loads[b].preview
        /\ loads'[b].capture = loads[b].capture
        /\ loads'[b].behind = loads[b].behind /\ loads'[b].request = loads[b].request
        /\ loads'[b].live => loads[b].live
        /\ loads'[b].cancel = IF b \in Capturing(v) THEN "sent" ELSE loads[b].cancel
        /\ b # c /\ b \notin Capturing(v) => loads'[b] = loads[b]
    OBVIOUS
  <2> DEFINE k == Discarded(c)[b]
  <2>1. /\ k \in Attempt
        /\ k.stage = loads[b].stage /\ k.preview = loads[b].preview
        /\ k.capture = loads[b].capture /\ k.cancel = loads[b].cancel
        /\ k.behind = loads[b].behind /\ k.request = loads[b].request
        /\ k.live => loads[b].live
        /\ b # c => k = loads[b]
    BY <1>6
  <2>2. loads'[b] = IF b \in Capturing(v) THEN [k EXCEPT !.cancel = "sent"] ELSE k
    BY <1>7
  <2> HIDE DEF k, c
  <2>3. QED
    BY <2>1, <2>2 DEF Attempt
<1> HIDE DEF c
<1>9. Capturing(v) \subseteq Load /\ \A b \in Capturing(v) : b = pending /\ loads[b].preview = v
  BY DEF Capturing
<1>10. TypeOK'
  <2>1. loads' \in [Load -> Attempt]
    BY <1>8 DEF Close
  <2>2. wire' \subseteq {"preview", "cancelPreview"} \X Load
    BY <1>1, <1>9 DEF TypeOK
  <2>3. QED
    BY <1>1, <1>4, <2>1, <2>2 DEF TypeOK
<1>11. \A b \in Load : Busy(b)' <=> Busy(b)
  BY <1>8 DEF Busy
<1>12. \A b \in Load : Busy(b) =>
         /\ loads[b].preview \in Preview
         /\ On(b)'.initializing = On(b).initializing /\ On(b)'.shown = On(b).shown
         /\ On(b).closed => On(b)'.closed
         /\ ~On(b)'.closed => On(b)' = On(b) /\ loads[b].preview # v
  BY <1>2, <1>4, <1>8 DEF NumberedInv, On
<1>13. \A b \in Load : Busy(b) /\ Owns(b)' => Owns(b)
  BY <1>8, <1>12 DEF Owns, On
<1>14. pending # None => pending \in Load /\ loads[pending].stage = "capture"
  BY <1>p DEF CaptureInv, Parts
<1>15. NumberedInv'
  <2>1. \A b \in Load : b > called => loads[b].stage = "new" /\ loads[b] = NoAttempt
    <3>1. NoAttempt.stage = "new"
      BY DEF NoAttempt
    <3>2. QED
      BY <3>1 DEF NumberedInv
  <2>2. \A b \in Load : b > called => b # c
    BY <1>5, <1>p DEF NumberedInv, Parts, c
  <2>3. \A b \in Load : b > called' => loads'[b] = NoAttempt
    BY <1>1, <1>8, <1>9, <1>14, <1>p, <2>1, <2>2 DEF Parts
  <2>4. \A w \in Preview : previews'[w].current # None => previews'[w].current <= called'
    BY <1>1, <1>2, <1>4 DEF NumberedInv
  <2>5. \A b \in Load : Busy(b)' => loads'[b].preview \in Preview
    BY <1>8, <1>11 DEF NumberedInv
  <2>6. \A b \in Load : Busy(b)' /\ ~On(b)'.closed => On(b)'.current # None /\ b <= On(b)'.current
    BY <1>11, <1>12 DEF NumberedInv
  <2>7. QED
    BY <2>3, <2>4, <2>5, <2>6 DEF NumberedInv
<1>16. CaptureInv'
  <2>1. pending' # None => loads'[pending'].stage = "capture"
    BY <1>1, <1>8, <1>14
  <2>2. slot' # None => pending' = slot'.load /\ loads'[slot'.load].capture = "waiting"
    BY <1>1, <1>8, <1>p DEF CaptureInv, Parts
  <2>3. \A b \in Load : <<"preview", b>> \in wire' =>
          pending' = b /\ loads'[b].capture = "waiting" /\ slot' = None
    <3>1. \A b \in Load : <<"preview", b>> \in wire' => <<"preview", b>> \in wire
      BY <1>1
    <3>2. QED
      BY <1>1, <1>8, <3>1 DEF CaptureInv
  <2>4. \A b \in Load : <<"cancelPreview", b>> \in wire' =>
          pending' = b /\ loads'[b].cancel = "sent" /\ On(b)'.closed
    <3> SUFFICES ASSUME NEW b \in Load, <<"cancelPreview", b>> \in wire'
                 PROVE  pending' = b /\ loads'[b].cancel = "sent" /\ On(b)'.closed
      OBVIOUS
    <3>1. CASE b \in Capturing(v)
      <4>1. b = pending /\ loads[b].preview = v
        BY <3>1, <1>9
      <4>2. On(b)'.closed
        BY <4>1, <1>2, <1>4, <1>8 DEF On
      <4>3. QED
        BY <3>1, <4>1, <4>2, <1>1, <1>8
    <3>2. CASE b \notin Capturing(v)
      <4>1. <<"cancelPreview", b>> \in wire
        BY <3>2, <1>1
      <4>2. pending = b /\ loads[b].cancel = "sent" /\ On(b).closed
        BY <4>1 DEF CaptureInv
      <4>3. Busy(b)
        BY <4>2, <1>14, <1>p DEF Busy, Parts
      <4>4. QED
        BY <3>2, <4>2, <4>3, <1>1, <1>8, <1>12
    <3>3. QED
      BY <3>1, <3>2
  <2>5. QED
    BY <2>1, <2>2, <2>3, <2>4 DEF CaptureInv
<1>17. CancelsOwn'
  <2> SUFFICES ASSUME slot # None, slot.cancelled, NEW b \in Load, b = slot.load
               PROVE  On(b)'.closed
    BY <1>1, <1>p DEF CancelsOwn, On, Parts
  <2>1. b = pending /\ On(b).closed
    BY DEF CancelsOwn, CaptureInv, On
  <2>2. Busy(b)
    BY <2>1, <1>14, <1>p DEF Busy, Parts
  <2>3. QED
    BY <2>1, <2>2, <1>12
<1>18. InitInv'
  BY <1>8, <1>11, <1>12, <1>13 DEF InitInv, InInit, Busy
<1>19. ShownInv'
  <2>1. \A w \in Preview : previews'[w].shown = previews[w].shown /\ previews'[w].issued = previews[w].issued
    BY <1>2, <1>4
  <2>2. QED
    BY <1>8, <1>12, <2>1 DEF ShownInv, InInit, Busy
<1>20. QED
  BY <1>10, <1>15, <1>16, <1>17, <1>18, <1>19

-----------------------------------------------------------------------------
(* The theorems.                                                             *)

LEMMA StepKeeps == PreviewInv /\ [Next]_vars => PreviewInv'
<1> SUFFICES ASSUME PreviewInv, [Next]_vars PROVE PreviewInv'
  OBVIOUS
<1>1. CASE UNCHANGED vars
  BY <1>1 DEF vars, PreviewInv, TypeOK, NumberedInv, CaptureInv, InitInv, ShownInv,
              CancelsOwn, Busy, InInit, On, Owns
<1>2. ASSUME NEW a \in Load, NEW v \in Preview, LoadRefused(a, v) PROVE PreviewInv'
  BY <1>2, LoadRefusedKeeps
<1>3. ASSUME NEW a \in Load, NEW v \in Preview, LoadBegins(a, v) PROVE PreviewInv'
  BY <1>3, LoadBeginsKeeps
<1>4. ASSUME NEW a \in Load, Continues(a) PROVE PreviewInv'
  BY <1>4, HostCapturesKeeps, HostAnswersKeeps, HostCancelsKeeps, CaptureResumesKeeps,
     BarrierResumesKeeps, CreateResumesKeeps, RecoverResumesKeeps, HostInitsKeeps,
     InitResumesKeeps DEF Continues
<1>5. ASSUME NEW v \in Preview, MutateTraps(v) PROVE PreviewInv'
  BY <1>5, MutateTrapsKeeps
<1>6. ASSUME NEW v \in Preview, Close(v) PROVE PreviewInv'
  BY <1>6, CloseKeeps
<1>7. QED
  BY <1>1, <1>2, <1>3, <1>4, <1>5, <1>6 DEF Next

\* Whatever happens, PreviewInv holds.
THEOREM PreviewInvariant == Spec => []PreviewInv
BY InitHolds, StepKeeps, PTL DEF Spec

\* The attempts, adapters and main's slot stay of their types.
THEOREM TypeCorrect == Spec => []TypeOK
<1>1. PreviewInv => TypeOK
  BY DEF PreviewInv
<1>2. QED
  BY <1>1, PreviewInvariant, PTL

\* The initializing barrier of load() keeps the inits of an adapter apart,
\* however many loads replace each other while one is in progress.
THEOREM InitsNeverOverlap == Spec => []InitsAlone
<1>1. PreviewInv => InitsAlone
  BY DEF PreviewInv, InitsAlone, InitInv, InInit, On
<1>2. QED
  BY <1>1, PreviewInvariant, PTL

\* The capture pending in the renderer and the slot in main go together, so that
\* a late cancelPreview never cancels the capture of an open adapter.
THEOREM CancelsMeetTheirOwn == Spec => []CancelsOwn
<1>1. PreviewInv => CancelsOwn
  BY DEF PreviewInv
<1>2. QED
  BY <1>1, PreviewInvariant, PTL

\* Only the end of an init changes what is shown.
LEMMA ShownStays ==
  ASSUME PreviewInv, [Next]_vars, \A a \in Load : ~InitResumes(a), NEW v \in Preview
  PROVE  previews'[v].shown = previews[v].shown
<1> USE DEF PreviewInv
<1>p. Parts
  BY TypeParts
<1>1. CASE UNCHANGED previews
  BY <1>1
<1>2. ASSUME NEW a \in Load, NEW w \in Preview, LoadBegins(a, w)
      PROVE  previews'[v].shown = previews[v].shown
  BY <1>2, <1>p DEF LoadBegins, TypeOK, Adapter, Parts
<1>3. ASSUME NEW a \in Load, CreateResumes(a)
      PROVE  previews'[v].shown = previews[v].shown
  BY <1>3, <1>p DEF CreateResumes, TypeOK, Adapter, Parts
<1>4. ASSUME NEW a \in Load, RecoverResumes(a)
      PROVE  previews'[v].shown = previews[v].shown
  <2>1. loads[a].preview \in Preview
    BY <1>4 DEF RecoverResumes, At, NumberedInv, Busy
  <2> DEFINE w == loads[a].preview
             q == Issued(w)
             p == [q EXCEPT !.initializing = a]
  <2>2. q \in Adapter /\ q.shown = previews[w].shown
    BY <2>1, IssuedNext
  <2>3. \/ UNCHANGED previews
        \/ \E trap \in BOOLEAN : previews' = [previews EXCEPT ![w] =
             [p EXCEPT !.runtime = [Observed(p) EXCEPT !.retired = @ \/ trap]]]
    BY <1>4 DEF RecoverResumes
  <2>4. CASE UNCHANGED previews
    BY <2>4
  <2>5. ASSUME NEW rt, previews' = [previews EXCEPT ![w] = [p EXCEPT !.runtime = rt]]
        PROVE  previews'[v].shown = previews[v].shown
    <3>1. previews'[v] = IF v = w THEN [p EXCEPT !.runtime = rt] ELSE previews[v]
      BY <2>1, <2>5 DEF TypeOK
    <3> HIDE DEF w, q
    <3>2. QED
      BY <2>2, <3>1 DEF Adapter
  <2> HIDE DEF p, q, w
  <2>6. QED
    BY <2>3, <2>4, <2>5
<1>5. ASSUME NEW w \in Preview, MutateTraps(w)
      PROVE  previews'[v].shown = previews[v].shown
  BY <1>5, <1>p DEF MutateTraps, TypeOK, Adapter, Parts
<1>6. ASSUME NEW w \in Preview, Close(w)
      PROVE  previews'[v].shown = previews[v].shown
  BY <1>6, <1>p DEF Close, TypeOK, Adapter, Parts
<1>7. QED
  BY <1>1, <1>2, <1>3, <1>4, <1>5, <1>6
     DEF Next, Continues, LoadRefused, HostCaptures, HostAnswers, HostCancels,
         CaptureResumes, BarrierResumes, HostInits, vars

\* Of all the loads an adapter has accepted, and of all the requests it has
\* issued, the display only ever moves on to the newest, while it is open.
THEOREM NewestIsShown == Spec => NewestShown
<1>1. PreviewInv /\ [Next]_vars =>
        [\A v \in Preview : previews'[v].shown # previews[v].shown =>
           /\ ~previews[v].closed
           /\ previews'[v].shown > previews[v].shown
           /\ previews'[v].shown = previews[v].issued
           /\ \E a \in Load :
                /\ loads[a].request = previews'[v].shown /\ loads[a].preview = v
                /\ \A b \in Load : loads[b].preview = v /\ loads[b].stage \notin {"new", "done"} =>
                     b <= a]_vars
  <2> SUFFICES ASSUME PreviewInv, [Next]_vars, NEW v \in Preview,
                      previews'[v].shown # previews[v].shown
      PROVE  /\ ~previews[v].closed
             /\ previews'[v].shown > previews[v].shown
             /\ previews'[v].shown = previews[v].issued
             /\ \E a \in Load :
                  /\ loads[a].request = previews'[v].shown /\ loads[a].preview = v
                  /\ \A b \in Load : loads[b].preview = v /\ loads[b].stage \notin {"new", "done"} =>
                       b <= a
    OBVIOUS
  <2>1. PICK a \in Load : InitResumes(a)
    BY ShownStays
  <2>2. /\ InInit(a) /\ loads[a].preview = v
        /\ Owns(a) /\ loads[a].request # 0
        /\ previews'[v].shown = loads[a].request
        /\ loads[a].request = previews[v].issued
    BY <2>1, InitEnds
  <2>3. ~previews[v].closed /\ previews[v].current = a
    BY <2>2 DEF Owns
  <2>4. previews[v].shown < loads[a].request
    BY <2>2 DEF PreviewInv, ShownInv, On
  <2>5. \A b \in Load : loads[b].preview = v /\ loads[b].stage \notin {"new", "done"} => b <= a
    BY <2>3 DEF PreviewInv, NumberedInv, Busy, On
  <2>6. previews'[v].shown > previews[v].shown
    <3>1. loads[a].request \in Nat /\ previews[v].shown \in Nat
      BY TypeParts DEF PreviewInv, Parts
    <3>2. QED
      BY <2>2, <2>4, <3>1
  <2>7. QED
    BY <2>2, <2>3, <2>5, <2>6
<1>2. QED
  BY <1>1, PreviewInvariant, PTL DEF Spec, NewestShown
=============================================================================
