# Verification of vivi2d

vivi2d is an editor, a viewer and a set of runtimes for 2D models. Most of it
is numerical or graphical; what a specification can say something about is the
part that keeps state across processes, files, callbacks and time. This project
models that part in TLA+, checks it with TLC and proves what it can with TLAPS.
Five such parts are modelled:

- **Local Exchange**, the subsystem of the Electron editor that runs jobs on a local provider and
  exchanges document revisions between workspaces: it persists, awaits, times out, survives reloads and restarts;
- the **Viewer API** server: pairing, grants, requests in flight, one-time asset handles, event queues;
- the viewer's **action runner**: queue policies, cooldowns and pulses over the microtask queue;
- the **evaluation preview**: request generations, activation and capture, across overlapping loads;
- the **editor project**: history, sessions, and what opens and saves them across awaits.

Contents: [inventory](#inventory) · [modules](#modules-and-the-code-they-model) ·
[runs](#what-the-runs-show) · [bounds](#bounds) · [fairness](#fairness) ·
[proofs](#what-is-proved) · [not modelled](#what-is-not-modelled) · [plan](#plan)

## Inventory

The modelled parts come first. `PROJECT.json` has the same list with its sources,
and under "hazards" the lines at which each part can go wrong.

### Local Exchange transitions (`packages/model/src/internal/local-exchange-state.ts`)

Pure functions from a state and a command to a new state, a replay, or a refusal.

- *Job*: phase, state version, attempt number, the active worker with its renewal
  counter, result, failure, decision. Commands: submit, claim, heartbeat, expire, fail,
  complete, accept, reject, retry, cancel. `jobState` refuses a stored state whose
  fields contradict each other.
- *Document*: a head (revision and version) and receipts by mutation id. Command:
  `publishLocalRevision`, a compare-and-swap that answers a known mutation with its
  first receipt and records conflicts as receipts of their own.
- *Hard*: commands that are late, duplicated or meant for another attempt; counters and
  limits at their last value; a sequence of legal commands that ends in a state its own
  reader rejects.
- *Correct when*: stored states stay readable, attempts are fenced, one outcome and one
  decision per job, one linear chain of revisions, receipts that stay true.

### Local Exchange host (`electron/local-exchange-host.ts`, `electron/ipc/local-exchange.cjs`)

A class of the main process. State: the cell files (one per job or document), the same
cells in memory, the set of frozen cells, one lease of the one physical provider slot,
the deadline timer, commands in progress; in the IPC layer, the renderer and its session.

- Commands of a page: submit, start, cancel, progress, complete, fail, settled, approve,
  reject; createWorkspace, createReplica, publish, queuePublication, deliver.
- Events: deadline timer, renderer loss (crash, destruction, start of a navigation),
  close and restart.
- *Hard*: `complete`, `approve` and `deliver` await something between reading a cell and
  committing to it; a file replacement may fail before or after it took effect; the slot
  has to outlive a cancelled attempt but not its page; the process may stop anywhere.
- *Correct when*: no stale result is adopted, no decision is replaced, the slot covers the
  provider call and is freed in the end, memory agrees with disk wherever it is used,
  every file left behind can be read back, a queued publication is decided exactly once.

### Local Exchange page driver (`src/lib/local-exchange-provider.ts`, `packages/provider-sdk/src/invocation.ts`)

`runLocalJob`: listens for aborts, asks for progress, calls the provider, completes or
fails, settles. It talks to the host by IPC calls and abort messages. *Hard*: an abort
sent before the listener is there; a page that navigates away in the middle.

### Viewer API server (`packages/viewer/electron/viewer-api-*.cjs`)

State in the viewer's main process: grants and the file they are saved in (none where the system cannot encrypt: then an
unpackaged build keeps grants in memory, a packaged one gives none), a timer of a delayed save, the pairing
window, pending challenges, sockets with their session, requests in flight with their abort controllers, handles of
picked files, and for each client a bounded event queue with counts of what was dropped.

- Operations: connect, authenticate, pairing.challenge, approve, revoke, any request and its dispatch,
  `viewer.prop.load` of a handle, subscribe, publish, flush, disconnect; window and challenge expire; the user
  issues and withdraws handles.
- *Hard*: revocation while a request is dispatched or a socket closes; saves that fail; approval of a challenge that
  expired or lost its client; a load that is accepted, times out or is aborted while its handle is
  reserved; a full queue with notices pending.
- *Correct when*: memory and file agree, nothing revoked works again, each challenge is answered once, a
  one-time handle is spent once, and a client can account for every event it was not sent.

### Viewer action runner (`packages/viewer/src/actions/action-runner.ts`)

State: the running execution, the tail of the queue, the replacement ticket and the cooldown of each action.
Operations: `runAction` under one of three policies, and the promises it leaves behind.
*Hard*: several callers wait for one promise and resume in the order of the microtask queue, after others have
changed the maps they looked at. *Correct when*: executions of one action never overlap, keep their order, and
each call is answered.

### Evaluation preview (`src/lib/runtime-evaluation-preview.ts`, `packages/editor-host`, `packages/runtime-wasm`, `electron/local-asset-copy.ts`)

State: the current attempt and the init in progress of each adapter, request generations of its authoring host, observed and
active request of its native runtime, and the capture slot that all adapters share with the main process.
Operations: `load`, `close`, `setParameter`, `applyPreset`. *Hard*: a newer load or a close at each of seven awaits; a runtime
that traps and is replaced; a generation counter at its end. *Correct when*: inits do not overlap, a cancel meets its
own capture, and what is shown never goes back.

### Editor project (`src/stores/historyStore.ts`, `projectMutator.ts`, `project-v11-transaction.ts`, `projectIO/`)

State: project, session and version, path, undo and redo stacks with the merge timer, the save slot. Operations: edits, undo,
redo, transactions, open, import, close, save, save as, copy to v11, fork. *Hard*: entries that are merged, evicted and
replayed; dialogs and writes that end after the project has been changed, closed or replaced.
*Correct when*: every entry connects to the project it is applied to, and nothing late touches another session.

### The parts not modelled

| Part | State and operations | What is hard |
| --- | --- | --- |
| Local asset copy (prepare, commit) | one candidate, one native slot, a file dialog | cancellation or renderer loss at every await |
| Viewer API start and stop | one promise chain, sockets | a listen that fails half way |
| Asset store | content-addressed files, staging | publication and recovery |
| Model evaluation core | deformers, physics, IK, parsing | floating-point data: outside TLC's reach |
| Shells, loaders, renderers, web glue | windows, GPU objects, DOM | I/O around the parts above |

### How they interact

    page (runLocalJob) --commands--> ipc/local-exchange.cjs --> LocalExchangeHost
          ^                              session, lost()          |   writer queue
          +------- abort messages -------------------------------+   |
                                                                     v
                             JobTransitions / SyncTransitions --> cell files, objects
    LocalExchangeHost.deliver --> receiver LocalExchangeHost.publish --> receipt

    client --socket--> ViewerApiServer --IPC--> viewer renderer --> ViviActionRunner
      ^                  | grants, handles          (load, action)
      +-- EventQueue ----+ <-- published events

    runtime preview adapter --preview, cancelPreview--> LocalAssetCopyCoordinator (one slot)
          |--> authoring host (request generations) --> native runtime (observe, activate)

    menus, panels --> projectMutator, projectIO --> editorStore + historyStore <--> files

The host serialises its synchronous sections in one writer queue, so that a section is
one step; every await is a place where other steps come between. The other parts run on one event loop
each: a handler up to its next await is one step.

## Modules and the code they model

| Module | Models | Composed of |
| --- | --- | --- |
| `JobTransitions` | job commands as a guard `CanX` and a result, `jobState` as `Restorable` | |
| `JobContract` | abstract: what a job promises its submitter | |
| `LocalJob` | one job under any commands | `JobTransitions`, refines `JobContract` |
| `SyncTransitions` | publication, `syncState` as `ReadableSync` | |
| `RevisionLog` | abstract: an append-only linear log | |
| `LocalSync` | one document cell under any requests | `SyncTransitions`, refines `RevisionLog` |
| `JobHost` | host, IPC session, page driver | `JobTransitions`, refines `JobContract` for each job |
| `DeliveryContract` | abstract: one queued publication | |
| `ExchangeOutbox` | document cells of several hosts, approved jobs, delivery | `SyncTransitions`, refines `DeliveryContract` for each mutation |
| `EventQueue` | the bounded event queue of one client, as operators | |
| `ViewerApi` | the Viewer API server and its clients | `EventQueue` for each socket |
| `ActionRunner` | `ViviActionRunner` and the microtask queue | |
| `EvaluationPreview` | preview adapters, authoring hosts, native runtimes, capture slot | |
| `EditorProject` | editor project, history, sessions, saves | |
| `MC...` | instances for TLC | |
| `..._proofs` | theorems | |

**JobTransitions.** Fields are those of the code except submission metadata, of which only
`maxAttempts` matters. `Claimed`, `Expired` and so on are the object literals the code
returns, `Bump` is `increment`. A refusal and a replay both leave the state alone, so they
need no definition.

**SyncTransitions.** A revision digest is computed from its parent, so `Parent` is a
constant function and `BINDING` a comparison with it; in the instances a revision *is* the
sequence of documents of its chain. Receipts form a set, because the code only searches
them by mutation id and counts them.

**JobHost.** State and code:

| Variable | Code |
| --- | --- |
| `disk`, `memory`, `frozen` | cell files, `cells`, the cells `current()` refuses |
| `lease` | `this.lease`: job, attempt, session, its deadline (`late`), its timer |
| `completing`, `approving` | calls that await `prepareCompletion` or the candidate, with what they read before |
| `session`, `leaving` | `renderer` of the IPC layer; a navigation that has started and not yet committed |
| `run`, `aborts` | the stage of `runLocalJob`; abort messages under way |

A command that reaches its synchronous section without an await is one action; `complete` and
`approve` are two, Begin and End. `Commit` is the atomic replacement of a cell file with
its three outcomes: done; failed; failed *after* the rename took effect. The last two freeze
the cell, and everything but `disk` is lost in `Restart`, which does what `restore` does,
its writes included. An answer to the page is part of the step that gives it.
The candidate and the objects of an approval or completion are data: their failures are the
refusing branch of `EndApprove` and `EndComplete`.

**ExchangeOutbox.** The same treatment of documents. `Store` writes the objects, then the
cell, and either may fail. A delivery is `BeginDelivery` (the intent is read), `Receive` (the
receiver decides or replays), `Record` (the source stores the receipt); each may be preceded by
other deliveries of the same intent, by a failure, or by a restart of either host. A cell in `Jobs` is that of a
succeeded job: `Approve` decides its one candidate for a document of the same host, and `deliverApproved` is the same three
steps, with the observed revision kept in a field of its own instead of a bounded list (so no `HasRoom`). How the
job came by its result is `JobHost`'s business; an approval that is not meant for a document leaves nothing to deliver.

**EventQueue and ViewerApi.** Every handler of the server is synchronous up to its `await`, so a request is `Begin` (checks,
abort controller, reservation of a handle) and `Finish` (the checks after the dispatch, the answer), and what comes between is
any other action. A grant is named by the challenge it came from.

| Variable | Code |
| --- | --- |
| `grants`, `saved`, `saveDue` | `server.grants`, the grant store's file, `grantSaveTimer` |
| `store` | `grantStore`: `createViewerApiGrantStore` returns one only if `safeStorage` can encrypt |
| `window`, `pairs` | `pairingWindowUntil`, `pendingChallenges` and the fate of past ones |
| `socks` | the connection's own `grant`, `ws.__viewerGrantId`, subscriptions, a `grant_revoked` being written |
| `reqs`, `assets` | `activeGrantRequests`, `ViewerApiAssetBroker.assets` |
| `queues` | `clientState.eventQueue`, its bytes, pending drops and flush timer |
| `revoked`, `leaks`, `missed`, `tally` | history only: what was confirmed, answered, not found by a start, and offered |

A challenge or grant that fails to be saved is taken back in the same step (`GrantUnsaved`; a failed revocation
changes nothing at all, so it is a stutter). `Flush` sends the notices, then the longest prefix that fits.

Grants are lost in two ways that the code accepts, and `Restart` takes both. `load()` (`main.cjs:63-70`) answers an empty list
for a file that it cannot read, decrypt or parse: the server runs without grants, while the file keeps them until the next approval
overwrites them. And without a store (`main.cjs:60`) nothing is written, so that what an unpackaged build approved
(`AllowSessionGrants`) ends with the process, while a file of earlier starts stays as it is and is read again once there is a store.
`missed` collects what was in force and was not found by the start; a grant leaves it when a later start finds it after all.

**ActionRunner.** `micro` is the microtask queue itself: a settled execution queues `resolve` (wakes who waits for the running
promise) and `finish` (the `finally` of `performAction`), a replacing run `end`, a queued run `adopt` (one promise adopts another)
and `tail`. Calls come from tasks, so either when the queue is empty or from the task that has not ended (`draining`).
Actions end at once or are pulses with a timer. Each action has a parameter of its own: two actions that pulse the same
parameter can overlap, and nothing in the code promises otherwise.

**EvaluationPreview.** A load is a record with a stage for each of its awaits; `previews[v]` is an adapter with its host's
issuer and its native runtime. `wire` holds the IPC calls main has not handled; it is a set, so that calls may be handled out of order,
which is more than Electron does: no property depends on the order. Main's `LOCAL_ASSET_BUSY` branch is in `HostCaptures` for
the sake of the code and is never taken, because the adapters share `pending`.

**EditorProject.** A project is a number that names its content, and `Garbage` what a patch makes of a project it was not made
on. A save or a load remembers of the editor exactly what its last step compares with (`BeforeSave`, `BeforeOpen`), so that
states do not differ by what nobody reads. Undo, redo and transactions are synchronous; their rollback is taken to restore everything.
A content is the project up to which layer groups are expanded: in a legacy session `toggleExpanded` (`editorStore.ts:118-121`)
changes the project without a history entry, and an entry undone later may fold a group again. In the model that is `ToggleExpanded`, which
changes nothing but that a copy being written is no longer one of this project; a v11 session records the toggle like any edit.
`WithSnapshot` has the branch of `pushState` in which an edit goes on under its merge key and the last entry, whatever its kind,
stands for its snapshot; only `replaceProject` takes such a key, and no caller passes one. The model lets it, with keys (`SnapshotKey`) that no patch is
recorded under. That assumption matters: under a key of both kinds, a replacement soon after a patch would leave that patch on top
although it does not lead to the project that is there, and TLC finds `HistoryConnects` violated as soon as the assumption is dropped.

Definitions named as mutants stand before the definition they are a mutation of; no specification
uses them. They are plausible mistakes and document that each property notices one.

## What the runs show

| Run | Question | Properties |
| --- | --- | --- |
| `LocalJob` | can any order of commands, stale ones included, break a job? | `TypeOK`, `StateStaysReadable`, `QueuedIsClaimable`, `HonoursContract` |
| `LocalSync` | is the history of a document linear whatever writers claim to know? | `TypeOK`, `LinearHistory`, `ConflictsAreReal`, `KeepsLog` |
| `JobHostSlot` | does the slot always cover the provider call, and can a job run without a holder? | `CacheCoherent`, `RunningIsLeased`, `SlotCoversInvocation` |
| `JobHostAttempts` | can a stale completion, approval or abort win over several attempts? | `TypeOK`, `CellsRestorable`, `AbortNotLost`, `AdoptionIsFenced`, `DecisionStands`, `HonoursContract` |
| `JobHostLiveness` | does every running job end, and the slot come free? | `RunningEnds`, `SlotFreed` |
| `JobHostNavigation` | and if a page acts between the start of a navigation and its commit? | `SlotFreed`, violated |
| `ExchangeOutbox` | is a queued publication, or an approved candidate, decided once and acknowledged with that decision? | `TypeOK`, `CellsRestorable`, `RevisionsAccounted`, `ReceiptsAgree`, `MovesLikeSync`, `DeliversOnce` |
| `ViewerApi` | do grants, challenges, handles and event counts survive any order of pairing, revocation, failed saves and restarts, with a store or without one, and is a grant lost only to a start that misses it? | `GrantsDurable`, `HandleSpentOnce`, `DropsAccounted`, `NothingStranded`, `ChallengeAnsweredOnce`, `RevocationIsFinal` |
| `ActionRunner` | can runs of one action overlap, overtake or get lost between microtasks? | `PulsesRestore`, `OrderKept`, `Answered` |
| `EvaluationPreview` | can an older load win over a newer one, or a cancel over a stranger? | `InitsAlone`, `CancelsOwn`, `NewestShown`, `LoadsAnswered` |
| `EditorProject` | does every history entry connect, and does a late end keep out of other v11 sessions? | `HistoryConnects`, `LateEndsKeepV11` |
| `EditorLateSave` | does a late save keep out of *every* other session? | `LateSaveKeepsOthers`, violated |

**`JobHostNavigation`, violated.** The IPC layer notices the loss of a renderer by navigation at
`did-start-navigation` only (`electron/ipc/local-exchange.cjs:27-29`). The old document runs on until
the navigation commits. A `start` it sends in between opens a new session and takes the slot; when
the new document replaces it nothing reports a loss again. The deadline ends the job, but the
slot is freed only by `settled` or by a loss, so it stays taken, which
`docs/developer/architecture/multiplatform-contract-status.md:238-239` says it does not: "its slot is
retained until actual settlement or renderer loss". `NavigationWindow = FALSE` is the same model with
a page that is silent in that interval, and there the slot is always freed.

**`EditorLateSave`, violated.** A legacy save compares `projectVersion` when its write has ended
(`src/stores/projectIO/viviFile.ts:193`). `closeProject` sets that counter back to 0, so a version can come
again: a project is imported (version 1), a save of it begins, the project is closed (version 0), another one is
imported (version 1 again), and the save ends: the new project takes the path of the old one's file, and its next
plain save overwrites that file. `docs/developer/api/spec/project-format-v11.draft.md:560-561` says of a save whose session was
closed that "its old completion cannot update the new session". Sessions of v11 compare their carrier and are safe (`LateEndsKeepV11`).
The same counter guards a legacy open; an import (`loadPsd`) compares nothing at all and replaces whatever was
opened meanwhile.

`ViewerApi` checks for deadlock: a client can always connect or leave. The other runs set `CHECK_DEADLOCK FALSE`, because
the system may really stop: a job is decided, a document is full, a page or an adapter closed, all calls are answered, or a
bound on edits and sessions is reached.

## Bounds

- `LocalJob`: 3 attempts, 2 providers, digests and artifacts, counters up to 10. Three attempts have
  a first, a middle and a last; a job counts past 10 only by renewals, so both the
  commands' own limit and the full counter are reached.
- `LocalSync`: 4 mutations against 3 receipts, so that the limit is met with a mutation to spare;
  chains of two documents over two contents, so that two writers can agree, differ, and build on a
  head that lost; versions up to 2, the last of which cannot be counted past.
- `JobHost`: two jobs with one attempt (`Slot`), or one job with two attempts, two results and two
  choices (`Attempts`). Competition for the slot needs two jobs, succession two attempts. Three
  session ids: one held by a call of the old page, one by the lease, one fresh. `MaxPending` 2 or 3 is
  met by overlapping calls of one page and of its successor. `CounterMax` 10 is far enough for the
  attempts of a job, as 2^53 - 1 is for the eight that the code allows; it is never the reason why
  something stops. Jobs and sessions are symmetric in the runs without liveness.
- `ExchangeOutbox`: two hosts with one cell each, one of them edited by others too, 2 mutations and two
  documents in chains of 2. `OutboxLimit` 1 and `ReceiptLimit` 2 are reached; `RevisionLimit` 4 =
  `ReceiptLimit` + 2 * `OutboxLimit` is the least that the assumption allows (the code has 256 against
  64 + 2 * 64, with room to spare). Deliveries are a set: two calls for the same intent in the same state are one
  element, and differ as soon as one has its receipt.

- `ExchangeOutbox`, `MaxCells` 2: the receiver and either the other host's document or a job beside the receiver. So both kinds of sender
  meet every failure and restart, but never at the same time; the receiver's other writer is its editor. No cell of the run comes near
  `RevisionLimit`: that `RevisionsAccounted` keeps every cell below it is what the theorem shows.
- `ViewerApi`: one socket id, used again after each close, so that a connection meets the sessions, challenges and requests
  its predecessor left; two challenges against `MaxPending` 1 and `MaxGrants` 1, two wrong codes; two requests that
  compete for one handle. Only the first grant may see the event, so that a session rebound to the other must lose it. An event has 1 to 3
  units: 3 is more than `PayloadBytes` 2, two of 2 units overflow `QueueBytes` 3 and fill `FlushBytes` 2 at once, so that a
  flush leaves something behind. `MaxUnsent` 2 lets two oversized events add up in one notice; an eviction by count and two overflow notices
  in a row need more and are left to the theorem. `AllowSessionGrants` is true, and each start has a store or has none; the other
  value only refuses what the first one grants, and the theorems hold for both.
- `ActionRunner`: four calls over one action of each policy: a running one, two that wait and one more that arrives at any microtask; two actions
  cool down. Replacement needs three calls (the running, the superseded, the newest), `enqueue` a fourth that finds a tail.
- `EvaluationPreview`: two adapters and three loads, so that one adapter has two overlapping loads while the other holds the slot; the
  third request of an adapter (`LastRequest` 2) meets the exhausted counter.
- `EditorProject`: one merge key of patches and one of replacements; `MaxHistory` 2 and `MaxAtlas` 1 against three edits, so that both
  kinds of eviction happen, with an undo after them, and a key goes on, is interrupted by the other, or runs out; three
  sessions and two opens, so that a load or save can end two adoptions later. The files are symmetric. `EditorLateSave` needs one edit at most.

The theorems below hold for every value of these constants that satisfies the assumptions named there.

## Fairness

Only properties of liveness use fairness, and only steps of the program are fair.

`JobHost!Fairness` asks that five things go on: time passes, the armed timer fires, a page with a run
takes its next step, a provider call ends, a prepared completion is committed or refused. The first two
and the last are the event loop and Node's timers. A page runs its own promises on. A provider call
ends because the ComfyUI client gives it up after 120 s. There is no fairness for users,
messages, restarts, renderer loss, or the success of a write: `RunningEnds` therefore says that a job
stops running *or its cell is frozen*. A page that is suspended for ever is not
covered: it would keep the slot, as the documentation quoted above intends.

`ActionRunner!Fairness`: microtasks run, which the language guarantees, and the timer of a pulse fires. Cooldowns and callers are not fair:
`Answered` holds although nobody calls again.

`EvaluationPreview!Fairness`: each load goes on as long as it can, that is, main handles what it is sent and the promises it waits for
(file dialog, capture, creation of a runtime, init) settle, well or not. A dialog that is left open for ever is the user's choice and is not covered:
it keeps the slot, and later loads are refused, not lost.

## What is proved

| Module | Theorems |
| --- | --- |
| `LocalJob_proofs` | `TypeOK`, `StateStaysReadable`, `QueuedIsClaimable`; `LocalJob` implements `JobContract` |
| `LocalSync_proofs` | `TypeOK`, `LinearHistory`, `ConflictsAreReal`; `LocalSync` implements `RevisionLog` |
| `JobHost_proofs` | `TypeOK`, `CellsRestorable`, `CacheCoherent`, `RunningIsLeased`, `SlotCoversInvocation`, `AbortNotLost`, `AdoptionIsFenced`, `DecisionStands`; the disk implements `JobContract` for every job (`HonoursContract`) |
| `EvaluationPreview_proofs` | `TypeOK`, `InitsAlone`, `CancelsOwn`, `NewestShown` |
| `ExchangeOutbox_proofs` | `TypeOK`, `CellsRestorable`, `RevisionsAccounted`, `ReceiptsAgree`, `MovesLikeSync`; every mutation's delivery implements `DeliveryContract` (`DeliversOnce`) |
| `ViewerApi_proofs` | `TypeOK`, `GrantsDurable`, `HandleSpentOnce`, `DropsAccounted`, `NothingStranded`, `ChallengeAnsweredOnce`, `RevocationIsFinal` |
| `EditorProject_proofs` | `TypeOK`, `HistoryConnects`, `LateEndsKeepV11` |
| `ActionRunner_proofs` | `TypeOK`, `PulsesRestore`, `OrderKept` |

*Jobs.* `Restorable` is inductive together with the types, so the invariant is nothing but
what the reader demands; the refinement maps phase, attempt, result and decision to the contract's
four variables. That every command maps a sound job (typed and `Restorable`) to a sound job is stated
for the one job of `LocalJob`, and again in `JobHost_proofs` for the jobs a host keeps (`Sound`).

*Documents.* `TypeOK`, `LinearHistory` and `ConflictsAreReal` are inductive only together: that a new receipt
extends the chain needs one receipt for each earlier version, and that a conflict names a real head
needs that the head is one of the receipts (`HeadIsAccounted`). The refinement maps the head to the tip of the log and
the heads of the published receipts to its entries.

*The host.* `HostInv` has six parts. `HostCells`: every cell on disk and in memory is good (sound state,
`checkCell` satisfied, counted) and both agree outside `frozen`. `Approvals`: an approval never knows a
newer version than the cell has, and on the same version the cell still has the result. `Shapes` and
`CommandsBounded`: types and the bound on commands. `RunningIsLeased` and `SlotCoversInvocation` are
inductive with these. The argument goes over two summaries of a step, each shown once per
action: `CellsMove` (at most one usable cell is committed, it was undecided, its version grew by one, and if it
came to run or to succeed, how) and `PageMoves` (what happens to run, slot and session together).
`Restart` is treated apart. The action properties follow from `CellsMove`. So does the refinement: `CellFollows`
in `CellsMove` says what became of the job (begun, given back, finished, decided, or none of these), and these are
the actions of `JobContract`.

`AbortNotLost` needs one thing more, `CallsInv`: calls of `complete` that are on their way, and the run, are of attempts
their cell knows, and a run that has not asked to complete yet has no call of its own attempt. Otherwise a completion
could end the attempt under a provider call without an abort.

The delicate part is that an expiry could be *refused* because a counter is full, which would
leave a job running in a slot that is given away. `Counted` bounds a job's state version by three counts per
attempt, and a cell's version by its job's; with `CounterMax >= 3 * MaxAttempts` (24 against 2^53 - 1)
an expiry is never refused. This is the named assumption `HostAssumption`; without it `RunningIsLeased`
is false.

*The preview.* `PreviewInv` adds four parts to `TypeOK` and `CancelsOwn`. `NumberedInv`: an open adapter's current load is the
newest of its loads that are not over. `CaptureInv`: a call on its way to main and the slot in main belong to the one
load that is `pendingCapture`, and a cancel is on its way only for a closed adapter; that is why a late cancel finds its own capture
or none. `InitInv`: an init in progress is its adapter's `initializing`, and the owner, once past the barrier, finds
it free. `ShownInv`: the request of an init in progress is greater than what is shown. They are proved together:
the last needs that no two inits overlap, which needs the barrier, whose owner is the newest load. Most
steps continue one load, and `Continued` with its lemmas says once what these leave alone.

*The outbox.* `OutboxInv` adds four parts to `TypeOK`: every cell on disk is good (readable, its revisions counted), memory
and disk agree outside `frozen`, an acknowledged intent has the receipt its receiver still holds, and so has a delivery
that comes back to a cell that still has its intent. The count is what makes recording total: a revision list is never longer than
receipts and intents account for, hence within `RevisionLimit` (`AccountedFits`), so a source is always able to record what its receiver has
decided. Every step does one of four things to at most one cell: that is shown once per action, and `MovesLikeSync` and the
refinement follow from it, the latter for all mutations of all cells at once.

*The viewer.* `ViewerInv` has four parts that each own some of the variables, so that a step of one is a
stutter of the others. `GrantsInv`: whatever is in memory, in the file or revoked was granted by a challenge of its name, so that a new
grant is in none of them; a save is due only where there is a store; and `GrantsDurable`, whose three parts need each other: a start
may take the file for the truth because nothing revoked is in it, and nothing revoked is in it because without a store nothing
in memory is. With it an answered challenge stays answered. `SocksInv` and `LoadsInv`: there is at most one request for each asset handle, it is
unspent while the request lasts, and requests and sockets that are gone leave nothing waiting. `QueuesInv`:
what a client has been told it lost is what its queue has dropped. The sums over queues are recursive functions of the
length; what a step adds or takes is shown by the least length at which it would fail
(`NatLessThanWellFounded`), as the library's induction rule takes an operator that no prover here can instantiate.

*The editor.* `Connects` says of both stacks that, nearest entry last, each patch leads to where the next one begins. It is a
property of how far an entry is from the end, so dropping from the front keeps it (`SuffixConnects`) and so does taking the last
entry or adding one (`FrontConnects`, `AppendConnects`). `BoundedLeft` shows that the eviction of `boundedV11History`
leaves a suffix of each stack, whatever the budget is; it is a recursive function, unfolded by the least number at which it would fail.
`HistoryConnects` alone is not inductive: a copy becomes the project with the content it was begun with, which must be one
(`CopyCurrent`), and an edit that goes on under a key of `replaceProject` takes the last entry for its own, which must be a snapshot
(`TopSnapshot`): whatever else is pushed, undone or adopted in between gives another key or none. `CopyCurrent` also says that a copy that may still become the project has its content, and with
`CarriersOpen` (v11 is a property of an open session) `LateEndsKeepV11` follows from the steps.

*The action runner.* `RunnerInv` holds for any actions, any policy and cooldown of each, and any number of calls. It adds four
parts to `TypeOK`. `StepsInv`: the stage of a run and the jobs that name it agree, the run in `running` is the only one of its action
that started and is not over, a pulse found the parameter at its base, and the jobs are queued in an order in which
they may be (`MayPrecede`): an execution is handed on before it is finished, and finished before a run of its action is released.
`WaitersInv`: who waits for an open execution still waits when it is handed on, in the order of the tickets. `TicketsInv`: a waiting run that holds a ticket
is on its way, and the one with the newest ticket is the last of its action to wait, so that its end may forget
the counter. `LineInv`: queued runs form one line in the order of the calls, each released by the end of the one before it, and the tail is
forgotten only when nobody is left. `PulsesRestore` needs nothing but `OneExecution`; but that a released run finds no execution in its
way is the order of the microtasks, and that order holds because tickets and line release one run at a time.
So none of the four parts is inductive without the others. `OrderKept` follows step by step: a run that may perform finds no started and
no earlier waiting run of its action (`MayPerform`), and one that is given up finds a cooldown, its policy, or a newer ticket
(`OldTicketsReplaced`). TLC checked `RunnerInv` on the instance of the run before it was proved.
The proofs speak of runs only through a small vocabulary (`Waiting`, `Open`, `OnItsWay`, `Ahead`, ...) and through what a step leaves alone
(`Stays`, `Comes`, `Keeps`); records and sequences are unfolded in a few lemmas.

*Assumptions.* `MaxAttempts` is positive, counters are bounded by a natural number, `MaxPending` is a natural
number, `None` is none of the records. For documents: a revision has one parent, limits are natural numbers.
For the outbox: at least one intent fits in it. For the viewer: both notices and one event fit in one flush (`EventQueueAssumption`; in
the code 16 KiB an event, 64 KiB a flush), and by `ViewerApiAssumption` every limit is positive, every pairing has a scope and `None` is no name.
For the preview: the bounds are natural numbers, there is at least one request generation, and `None` is neither a load nor an adapter.
For the editor: both bounds of the history are positive, no key is both one of patches and one of `replaceProject` (no caller
passes the latter any), and `None` is no number, file, key or save.
For the action runner: each action has one of the three policies, and `None` is no call.
Each is a named `ASSUME` of the module that declares the constants, and TLC evaluates all of them.

*Only model-checked*: the liveness properties `RunningEnds`, `SlotFreed`, `Answered` and `LoadsAnswered`, as fairness and ENABLED are out of the
prover's reach.

## What is not modelled

- Bytes: canonical JSON, hashing, PNG and document validation. A digest stands for its content, a damaged
  object or file is not produced. Cells frozen by damage behave like cells frozen by a failed write.
- The number of objects and of their bytes; directory scans; file locks.
- Several windows: the IPC layer knows one renderer at a time, and so does the model.
- Viewer API: start and stop of the server, origins, rate and write budgets, the minimal interval of a filter (they only refuse a
  message), expiry and size limits of the asset broker beyond a withdrawal at any time.
- Evaluation preview: what is computed and drawn; a reload of the renderer during a capture (`rendererLost` cancels it as
  `cancelPreview` does, but the adapters are gone with the page); the other operations of the asset coordinator.
- Editor: which layer groups are expanded; the steps inside a rollback (textures, stores, a subscriber that throws), `duplicateOriginalProjectV11` and the vivid export, which
  write a file and change no state, bytes of the files.
- Most of the repository by lines is not state at all: generated WASM images and validators, numeric evaluation with its checkers,
  rendering and UI. What is mapped is therefore a small share of all lines, and nearly all of the code that keeps state across awaits,
  processes and files, apart from the parts of the table above.
- The components of the table above, for the reasons given in `PROJECT.json`.

## Plan

Done, in this order: job and document transitions with their contracts and proofs, the job host with the page
driver, the host's proofs, the document outbox, the Viewer API with its event queue, the action runner, the evaluation
preview, the editor project, the outbox of approved jobs, the proofs of the preview, of the outbox and of the Viewer API, what was
left of the host (`AbortNotLost`, `HonoursContract`), the editor's history and late ends, and the proofs of the action runner.

1. The other operations of the asset coordinator (`prepare`, `commit`, `cancel`, `rendererLost`, authoring ports): a file is written only if
   its candidate is current and every atlas has arrived, and the native slot is never found busy inside a copy.
2. Start and stop of the Viewer API server, once it is settled what a failed `listen` leaves behind.
