# A TLA+ model of nneditor

nneditor opens neural-network artifacts (ONNX and other formats), shows their graph and
tensors, edits both through a revision chain that survives crashes, groups operators into
blocks, runs traces that capture activations, and exports edited models. Its user interface
is one event loop; opening, statistics, traces and exports run on worker threads and in
worker processes; several stores keep files beside the artifact. The modules here model
those parts: the ones where an order of steps, a failure between two of them, a stale value,
or two readings of the same data decide whether the program is right. Paths in this
document are relative to `src/src/nneditor/`.

## Contents

1. Inventory of the system
2. Modules and their correspondence to the code
3. Runs, bounds, and what they show
4. Fairness
5. Proofs
6. What the code does that its documents do not say
7. What is not modelled or proved

## 1. Inventory

| Part | State it keeps | Operations | What is hard |
|---|---|---|---|
| Revision chain (`editing/revisions.py`) | revisions, cursor | apply, undo, redo, read, pinned read, restore | ids and parent links over redo tails; restore must accept whatever was saved |
| Editing controller and sidecar (`application/editing.py`, `edits_store.py`) | chain, one lock, one JSON file per artifact | open/recover, prepare, commit, undo, redo, discard, save, quarantine | crash or failure between memory and disk, stale transactions, two sessions on one file |
| Graph editing and export (`editing/commands.py`, `validation.py`, `transformations/`, `adapters/onnx/`) | the document, the list of commands, the source proto | open, validate, apply, revert, replay from the sidecar, write to the proto | four readings of one command (apply, inverse, codec, exporter) must agree |
| Artifact formats (`adapters/`, `ir/`) | none | detect, open, locate ranges, synthesize a graph, write weights | each reader decides for itself what to believe of a file |
| Jobs (`application/jobs.py`) | job list, pool, per-job state, payload, event, token | submit, cancel, run, prune, release, close | worker, waiter and closing thread interleave; everyone who waits must be woken |
| Opening (`application/session.py`, `persistence.py`, `ui/app.py`) | registered sessions, open jobs, uploads, recent files, overlay | open in a job, present, replace, close, record, save | a job registers a session while the service closes; two opens at once |
| Session statistics (`application/session.py`, `statistics_store.py`) | cache by revision, dictionary by content, file | load, begin pass, read chunk, publish, save | the chain moves while chunks are read; sessions replace one file, which a load may not have read |
| Export and trace of a revision (`adapters/onnx/exporter.py`, `ui/app.py`) | save dialog, export job, saved revision, trace job | edit handlers, submit, read tensors, publish, finish | state checked before an await; a live reader under a running job |
| Publication (`exporter.py`, `_publish`) | destination directory | check, replace one by one, roll back | a reader or crash between two renames; other exports and programs; a rollback that fails |
| Tensor store and cache (`storage/store.py`, `cache.py`) | descriptors, a lock per file, two caches | read, group read, typed read, verified open, close | threads race for a file; close() under readers; the path changes |
| Hierarchy and detectors (`application/hierarchy.py`, `analysis/`) | corrections shared by sessions, sidecar, derived forests | propose, merge, split, rename, lock, reject, reset, modes, save, reload | a failure after part of a change; two sessions share corrections; a sidecar that cannot be read |
| Navigation and slices (`application/slices.py`, `analysis/lod.py`, `ui/app.py`) | level, root, history, cache of slices, warming job | zoom, drill, back, switch graph, search and jump | a picture of groups that a correction or edit has removed |
| Trace runner and workers (`tracing/runner.py`, `trace_worker.py`, `llm_*`, `plugin_*`) | a subprocess, a staging and a scratch directory | stage, start, poll, cancel, time out, collect, commit | time-out against a late answer; sizes that were declared wrong |
| Activation store (`tracing/store.py`) | a directory per trace, an account of bytes, slices in memory | commit (merge or replace), evict, read, load | two renames, captures before manifest, failures and crashes between |
| Panels (`ui/trace_panel.py`, `activation_inspector.py`, `watch_panel.py`) | pending trace, job, comparison, loading markers, pinned values | prepare, approve, run, cancel, compare, narrow, pin, land answers | answers land on threads of their own after the session has changed |
| Everything else | none that changes over time | rendering, layout, tokenisation, numerical tracers | pure or numerical |

How they interact. The shell's handlers (event loop) call a `ModelSession`, which owns an
`EditingController`, a `HierarchyController`, statistics caches and a `TensorStore`, and
submits jobs to the service's `JobManager`. A job captures what it needs of the session (a
revision, a list of commands, a reader) and runs while the session goes on changing. Exports
and traces both run `export_revision`; traces run in a process of their own and commit to the
`ActivationStore`, which the panels read. Corrections of a hierarchy are shared by all
sessions of an artifact; slices by all sessions of the service.

The properties that make each part correct are listed with the runs in section 3, and the
hazards that they answer, line by line, in `PROJECT.json`.

## 2. Modules

| Module | Models | State | Actions |
|---|---|---|---|
| `RevisionChain` | `revisions.py` as pure operators on `[revs, cursor]` | none | `Extend`, `StepBack`, `StepForward`, `ReadAt`, `Restorable`, ... |
| `EditingController` (extends `RevisionChain`) | controller and sidecar store | `status`, `chain`, `pending` per session; `sidecar`, `corrupt` | `Open*` (each outcome of the load), `Prepare`, `Commit`, `ReplaceBytes`, `Undo`, `Redo`, `DiscardAll`, `BeginWrite`, `ReplaceFile`, `SaveFails`, `Close`, `Crash`, `Damage` |
| `DurableHistory` | what the editing layer promises: past, future, durable copy | abstract | `Do`, `Undo`, `Redo`, `Save`, ... |
| `EditingRefinement` (extends `EditingController`) | one session implements `DurableHistory`; what its run needs | `INSTANCE ... WITH` | |
| `EditCommands`, `OnnxImport`, `EditValidation`, `GraphExport` (each extends the one before) | the IR graph and its commands; the ONNX reader, its checks and refusals; the handlers that validate a request; the exporter's replay on the proto | none | operators, one per handler or apply function |
| `GraphEditing` (extends `GraphExport`) | a session on one ONNX file | the file, base and current document, commands | `Open`, `CommitEdit`, `CommitTransformation`, `UndoEdit` |
| `ArtifactKinds`, `WeightFormats`, `StageGraphs`, `GraphFormats` | detection and offers; safetensors, GGUF, checkpoints, snapshots; graphs synthesized for families of models; pt2, DLC, StableHLO, Core ML | none | operators, one per reader |
| `ArtifactSession` (extends `GraphEditing`, `GraphFormats`) | a session on a file of any format | adds the weights, replaced payloads | adds opening any artifact, replacing a payload, writing weights only (`ArtifactSpec`) |
| `JobManager` | `jobs.py`; the thread pool is external | per job: state, place, payload, done, token; the closing thread | each step of submit, `_run`, `_transition`, `cancel_all`, `close` |
| `ModelOpening` | `ApplicationService`, recent files, the shell's handlers of opening and closing | jobs, sessions, registry, recent files, waiters, shell, event loop | `Worker`, `Waiter`, `Uploading`, `CloseModel`, `Closing`, `Handler` |
| `SessionStatistics` (extends `RevisionChain`) | passes and caches of one session; the sidecar under all sessions of the artifact | chain, passes, caches, file | user moves, `Load`, `BeginPass`, `ReadChunk`, `PublishEdited`, `PublishBase`, `PublishElsewhere`, `Reopen` |
| `RevisionExport` (extends `RevisionChain`) | the shell's handlers, any number of exports, a trace | chain, button lock, exports, saved revision | handlers, dialog, the two jobs step by step |
| `ExportPublish` (`PublishSpec`) | `_publish`, by several exports to one destination | directory, step and counters per export | `CheckTargets`, `ReplaceNext`, `ReplaceRaises`, `RemoveNext`, `RemoveRaises`, `GiveUp`, `Succeed`, `Crash`, `Intrude`, `Empty` |
| `BudgetedCache` | `cache.py` as pure operators on `[entries, current]` | none | `Touch`, `Put` |
| `TensorStore` (extends `BudgetedCache`) | `store.py` | files on disk, descriptors, locks, threads, two caches | each critical section of `read`, `_read_coalesced`, `_read_typed`, `_reader`, `close` |
| `Detectors` | `analysis/detectors.py`: scopes, regions by dominators, motifs, repeats | none | operators |
| `HierarchyController` (extends `Detectors`) | arbitration of proposals, corrections, sidecar, several sessions | `overrides`, `file`, `view` and `window` per session, `saver` | `Group`, `Split`, `Merge`, `Rename`, `Lock`, `Reject`, `Reset`, `CycleMode`, `TakeStore`, `ReplaceFile`, `SaveFails`, `EditGraph`, `Restart` |
| `SceneSlices`, `ShellNavigation` (extend it in turn) | what is drawn, the slice cache; the window's level, root, history, search and jumps | `slices`, the window, the warming job | handlers of navigation, warming (`NavSpec` composes all) |
| `TraceWorker` | the process that computes and stores values | source, phase, records, pool | `WorkerSteps` |
| `TraceRunner` (extends `TraceWorker`) | the parent: staging, polling, limits, response, commit; approval of tracers | runner, worker, staging, response, frozen tracer | `RunnerSteps`, `LoadTracer`, `Cancel`, `EditTracer`, `WorkerDies` |
| `ActivationStore` (extends `BudgetedCache` for its sums) | `tracing/store.py` | directories, results, account, slices, the operation under way | `BeginCommit`, `SetAside`, `PutInPlace`, `Account`, eviction in two steps, `Read`, `LookAt`, `Crash`, `Load` |
| `CaptureScope` | which values a trace captures: counted by the panel, derived by the runner | none | operators |
| `TracePanel`, `ActivationPanels` (extends it) | the trace panel; inspector, overlay, strip of pinned values | session, job, active trace, jobs, markers, pins | `User`, `Jobs`, `Threads` |

Four runs use a component's module as it is (`JobManager`, `ModelOpening`, `RevisionExport`,
`ExportPublish`), one the module of the refinement (`EditingRefinement`); the modules named `MC...` give the
others the graphs, files, machines and requests TLC enumerates. `RevisionChainTheorems` and
the modules named `...Proofs` hold the proofs. `PROJECT.json` maps the definitions to their lines of
the source; a helper whose lines belong to a definition that uses it has no entry of its own. An operator whose comment begins with "A mutant" or "Mutant" is a plausible bug
that the named property detects when it takes the place of the definition that follows it;
it is not part of the model.

Conventions:

* A step is what the code does between two points where another thread, a failure or a
  crash can be seen. What runs under one lock without a failure point is one step.
* Tensor bytes are one abstract payload. A revision id, in the code a hash of the parent
  id and the manifest, is the sequence of batches since the base: what the hash chain
  commits to if it does not collide. Ids and names of a graph are tuples of what they are
  made from.
* Variables marked "history" in their comment are read by properties only.
* A constant called `Days` is a script of what the user may do in one behaviour, so that
  TLC explores long sequences of a few operations rather than short ones of all.

`EditingController`. The controller's lock is held from the first check to the end of the
save, so an operation is "the chain changes", "the partial file is written" and
"os.replace", with failure and crash between them. All failures that leave the same state
are one fault; `FaultKinds` names them: a failed save, a failed unlink, a damaged file, a
file of another base, a failed quarantine, a transient read error. A sidecar keeps its chain
when it is damaged, in a form that the load rejects.

`GraphEditing`. A command is read four times by the code: `apply` in the document, its
inverse for undo, its codec for the sidecar, and the exporter's own replay on the source
proto, by names where the IR uses ids. The module keeps the commands and states, in every
state, what each of the other readings would give. `ArtifactSession` does the same for
what a reader located, what it serves, and what the writer makes of it.

`JobManager`. The done event is set outside the job's lock, so `Transition` and `SetDone`
are two steps. The pool takes jobs in order of submission. `close` is modelled with its
snapshot, cancellation, drain, sweep and join, for both values of `wait`.

`ModelOpening` uses of the job manager only what `JobManager` shows: who is woken finds
an end and a result, and `close()` returns when no job runs.

`TensorStore`. A slice stands for one range, or for a whole typed tensor. Its bytes are
abstracted to one bit: was any byte read from contents other than those the document was
opened with. `SwapFile` renames another file over the path; `OverwriteFile` writes in
place, which no check of the store can see after the first read, so `ServedAsVerified`
leaves such files out.

`HierarchyController`. A correction is one critical section; the save that follows it is not,
and takes a lock of its own. A forest is derived from the proposals of the detectors and the
corrections whenever either changes; which proposal wins is arbitrated by priority, size and
name as in `analysis/hierarchy.py`. A restart goes on with the sidecar or, when the load returns
nothing, with no corrections at all. What a correction says is the set of facts it adds to the
corrections and takes from them; `change` holds them until the save and `reported` afterwards,
so that `ReportedOnDisk` compares contents and not counters.

`SessionStatistics`. The passes of one session are modelled step by step; other sessions of the
artifact, in this process or another, load the file, save a result of their own and end. A load
returns any part of what the file holds. `missed` (history) is what a session does not know of
the file: entries its load did not return, or that another session has saved since.

`RevisionExport`. Each export has a save dialog of its own, opened under the guard that looks for
a running export, and answered when that may no longer hold. `unguarded` (history) marks an
export under which a hex page was applied or another export was submitted.

`ExportPublish`. Any replacement and any removal of a rollback may raise, other programs create
files at any moment, and the user clears the directory when no export is at work. An export
whose rollback raised is `"stuck"`. `raced` (history) holds the exports that were between check
and end at the same time.

`TraceRunner`. A machine is a record of what goes wrong on it: a missing runtime, an
operator it refuses, memory that runs out, a session that breaks. The worker's steps follow
its two phases and its batches; it may die or hang at each. Reports and captures lie in one
directory, so a killed worker's files are there when the parent decides.

`ActivationStore`. Operations hold one lock and do not interleave; what matters is where
they may stop. A record is its stored length and, as history, the run and runtime it is
of. `astray` (history) names traces left behind by a step that failed or by a crash in the
two windows that section 6 describes.

## 3. Runs

All bounds are constants of the modules; every one is named in the `CONSTANTS` comment. A
property of a run is a conjunction of named parts where several statements are about the
same thing; the parts are listed.

### `editing_session` (`EditingRefinement`)

One session, two tensors, two payloads, chains of two revisions, batches of one command, two
faults of any of the six kinds.

* `ChainsSound` = `TypeOK`, `ChainsLinked`, `IdDeterminesContents`, `HistoryReplays` (a chain
  that was accepted is one that `restore` accepts), `BaseCheckSuffices` (the base-revision
  check of `commit` implies that all expected bytes are there).
* `AckedOnDisk`: an acknowledged history is on disk.
* `OnlySkippedReplaced`: a save replaces only what its session knows, unless the file was
  skipped at the start.
* `ImplementsHistory`: all of it implements a linear undo history with a durable copy.

Two sessions over one sidecar are not run: what is true of them (`IdDeterminesContents`
across sessions and files, links, types) is proved for any number of sessions (section 5).

### `graph_commands` (`MCArtifacts`)

Two ONNX files edited by up to three commands of every kind, with undo; families of small
ONNX files that differ in one or two things a file may do; small artifacts of every other
format with ranges that touch, overlap, leave the file or have another length than the shape;
up to two replaced payloads.

* `OrderIsTopological`, `ReopensAsTheDocument`, `ReloadReplays`: the stored order, the
  exporter's replay and the sidecar's codec agree with the document.
* `ExportsHonest` = `ExportFailsForKnownReasons`, `LosslessIsTheSource`.
* `RangesSound` = `ServedAsDeclared`, `PayloadsApart`.
* `FilesOpen` = `WellFormedOpens`, `OpensAsWritten`, `FunctionsAsWritten`.
* `WeightsReopen`, `StagesInOrder`: the weights-only writer is the inverse of the readers;
  a synthesized graph reads only what an earlier stage made.

### `hierarchy_corrections` (`MCHierarchy`)

Two sessions, up to two corrections, saves that fail, restarts with and without the sidecar; a window that drills, zooms,
searches and jumps over a cache of one slice; all acyclic graphs of four operators and five
larger models.

* `CorrectionsKept` = `HierarchyTypeOK`, `UserWins`, `ReportedOnDisk`: everything a correction
  reported as saved has said is in the file, until a save that follows a start without the file
  replaces it; of what was reported before, only what that save keeps is claimed.
* `LockedKept`: only a reset or a restart takes apart a group that every session sees locked.
* `PictureSound` = `DrawnOnce`, `ServedIsFresh`, `PictureIsCurrent`, `JumpFinds`.
* `BlocksAreReal` = `DominatorsExact`, `RegionsClosed`, `RepeatsAlike` of what is proposed when
  a model is opened.

### `opening_service` (`ModelOpening`)

Two opens of two models, in a browser or not, two dialogs at once, a list of two recent
files; cancellation at every stage, failures, a closed page, a closing service.

* `SessionsAccounted` = `TypeOK`, `NothingLeaks`, `DownIsDown`.
* `OpensSound` = `LastRecordedFirst`, `OpenedWhole`.
* `OverlayClears` (liveness): the overlay of the shell goes away.

### `trace_runner` (`MCTrace`)

Requests of two and three values over two nodes, of every size, declared or not, in whole or
as previews; five machines; a ceiling of three; a tracer of two files with one edit; deaths and
hangs at any moment.

* `RunsLeaveWholeTraces` = `NothingLeftBehind`, `CommittedIsWhole`.
* `CeilingsKept` = `PoolKept`, `OneBatchLive`, `BytesNotWasted`.
* `RunAsReported` = `AcceleratorHonest`, `TracerIsApproved`.
* `RunnerEnds` (liveness): every call ends, whatever the worker does.

### `panels_shell` (`MCPanels`)

One artifact opened twice, or two artifacts, with two or three values, one of them a stored
weight among the outputs; one watch job at a time; six scripts of what the user may do.

* `RequestsSound` = `OneApproved`, `AskedIsTaken`; `MarkersSound` = `MarkersTracked`,
  `WatchWithinCap`.
* `PanelsAnswer` = `PanelSettles`, `PinsAnswered` (liveness).

### `jobs_manager` (`JobManager`)

Two jobs on two workers, no retention, two closes, both `wait` modes.

* `JobsSound` = `TypeOK`, `DoneHasAnswer`, `LiveTracked`, `CancelledNeverStarts`, `CloseSettles`;
  `TerminalIsFinal` (an action property).
* `EveryJobEnds` (liveness): every submitted job wakes its waiters.

### `statistics_session` (`MCStatistics`)

Two passes of two reads over two tensors, a cache of one, chains of one revision; commits, undo,
redo, discard, failed saves, unreadable files, restarts. In one half of the behaviours the session
is alone, in the other a second one of the artifact stands beside it and nothing is discarded
(`Days`; with both at once the run takes more than five minutes). 1.9 million states, the two
passes being interchangeable.

* `StatisticsSound` = `TypeOK`, `OnlyReturnsTear` (only a revision that left and came back can
  tear a cached result), `SharedStatisticsPure`.
* `ReportedStatisticsKept`: what was reported as computed leaves the file only by the save of a
  session that missed it.

### `export_shell` (`RevisionExport`)

An embedded and an external tensor, chains of two, two exports, one trace, hex pages (2.3
million states, the two exports being interchangeable).

* `ExportSound` = `TypeOK`, `GuardedExportsWhole`, `SavedIsExported`: both are claimed of every
  export under which no hex page was applied and no other export submitted; with two exports
  that says what the disabled buttons do achieve when dialogs overtake each other.
* `TraceIsKeyedRevision`.

### `publish_directory` (`ExportPublish`)

Two payloads, model and report; three exports to one destination, at a time or one after
another; any replacement and any removal may fail; other programs write to the directory; the
processes may die anywhere (3.9 million states).

* `PublicationSound` = `PublishTypeOK`, `ModelComplete` (also after a crash, except while the model
  is taken back because the report could not be placed), `FailureLeavesNothing` (unless an unlink
  raised).
* `ReportMeansComplete`: a report's files stay together through later exports, failures and
  programs that write there.

Both leave exports out that crossed another one (`raced`), which the check does not prevent.

### `store_reads` (`MCStore`)

Two threads, one file, slices a1 and b1 (b1 in two chunks), d1 typed and larger than its
budget, the group {a1, b1}; each cache holds one of them; the file may be swapped or
overwritten; one close.

* `ReadsSound` = `TypeOK` (with: accounts equal contents), `OneDescriptor` (never closed under
  a reader), `ClosedHoldsNothing`, `ServedAsVerified`, `TypedParsedOnce`.
* `CloseEnds` (liveness): `close` and every read end.

### `activations_store` (`MCActivations`)

Two traces, two values, two runtimes, lengths 0 and 1, three runs, one failure, crashes
anywhere, a budget of 1 or 2 that a restart may change.

* `RecordsHonest` = `TypeOK`, `ReadsCurrent`, `OneRuntime`, `HonestManifests`; `BytesCharged`;
  `CommittedStays`.

### Why these bounds are enough to be interesting

Two revisions give an undone tail that a commit replaces, and a chain that leaves a revision
and returns to it. Two payloads give two contents of a tensor at one cursor position. Two
faults allow a failure of the recovery from a failure (a quarantine that fails, then a save).
Three commands are an insertion, a reconnection to it and the removal of what it replaced. Two
jobs on two workers give a queued and a running job under `close`, and `Retention = 0` prunes at
each submission. With one cache entry every insertion evicts. Two opens and two dialogs are
one open beside another. A ceiling of three with values of zero to three and more units
gives values that fit, fit if taken first, and never fit. Three runs of the store are capture,
narrowed rerun and another runtime, or two traces and a rerun of the one that was evicted. A
shorter capture is a dropped one, so lengths 0 and 1 do. Three exports are one that left its files
and two that cross over them; two payloads are one that is there and one that is not.

Deadlock is not checked where the system really may stop: a closed manager, a published
or abandoned export, a closed tensor store, an ended trace, panels and sessions whose user has
used the bound of commands, an activation store that has used its bound of runs.
`editing_session` (tensors), `statistics_session` (passes), `export_shell` (exports) and
`activations_store` (values, runtimes) use symmetry over interchangeable constants; no liveness is
checked there but a refinement without fairness.

## 4. Fairness

* `JobManager`: weak fairness of each worker's next step on its job, and of the closing
  thread. Pool threads and the thread in `close` are operating-system threads that never
  wait for each other in a cycle. Nothing is assumed of the caller (it need not submit,
  cancel or close), and work ends because the model's `FinishWork` is a worker's step:
  a job whose work never returns is outside the claim.
* `TensorStore`: weak fairness of "some thread that can go on goes on", and no more.
  Locks are not assumed to be fair. Since a read has finitely many steps and requests
  stop when the store is closing, that is enough for `CloseEnds`.
* `ModelOpening`: weak fairness of each worker, waiter and upload, of the service's close and
  of the handler that closes a model: all are threads that run on. The user need not do
  anything.
* `TraceRunner`: weak fairness of the polling job thread, whose wall clock advances. The worker
  process has none: it may hang, and is killed at its limit.
* `ActivationPanels`: weak fairness of "some job ends" and of "some thread lands its answer". Jobs
  are finite or killed at their limit; what the user asks is bounded, so none is
  overtaken for ever.
* No other module has a liveness property, and none states fairness.

## 5. Proofs

TLAPS proves the following for every value of the constants that the named
assumptions allow; the proofs use no fairness. `PROJECT.json` lists the theorems, with the
property of a run that each one states.

`RevisionChainTheorems` is the library: what the operators on chains return and
preserve. `Sound(c)` says that revisions, cursor, links and ids of `c` are well-formed; it
is kept by `Extend`, `StepBack` and `StepForward`; a sound chain's current revision id
determines its applied revisions, and so all contents.

`EditingProofs` (for any sessions, tensors, payloads, bounds, faults). The invariants
the run checks are not inductive: a chain may be replaced by the one in the file, so the
files must be sound as well, and a transaction prepared long ago must be related to every
chain that could come back to its base. The inductive invariant is
`TypeOK /\ AllSound /\ PendingExact /\ AckedKept`: all chains in memory and in files are
sound; a pending transaction's `before` payloads are those its base revision id stands for;
what was acknowledged is in one of the two files. From it follow `TypeCorrect`, `ChainsStayLinked`,
`IdsDetermineContents`, `BaseCheckIsEnough` and `AcknowledgedStaysOnDisk`. `HistoriesReplay` and
`ChainsAreSound` assume `MaxBatch = 1`, which is what the application's handlers build and what
section 6 shows to be needed. `OwnHistoryReplaced` assumes that at most one session exists and
uses an invariant of its own about `basis`.

`EditingIsAHistory` is the refinement: under the mapping of `EditingRefinement`, every step is
a step of `DurableHistory` or a stutter. Its hypotheses are `OneSession` (the mapping is of the
one session; a second one replaces the file under it, section 6) and `MaxBatch = 1`. Its
invariant adds to the one above that every chain replays, that the basis of the session is
what the file holds, and that a file is damaged only by a fault.

`ApplicationProofs`, first part (`JobManager`, any number of jobs, workers, closes). The invariant adds to the
checked properties what each place of a closure says about queue, state, payload and
event (`QueueExact` and its companions), and what the closing thread has already done at
each of its steps. From it: type correctness, `AnswersAreReady`, `LiveJobsTracked`,
`CancelledJobsNeverStart`, `ClosingSettles`, their conjunction `JobsAreSound`, and the action
property `TerminalStatesAreFinal`.

`ApplicationProofs`, second part (`HierarchyController` and `ShellNavigation`, for any sessions,
artifacts, detectors, modes, names and bounds). `CorrectionsKept` speaks of a forest that a greedy
choice has made, so the argument begins with the choice itself: the candidates in order of rank
(`RanksOrdered`, `WorstExists`), the recursive function over finite sets that goes through them
(`GreedyDefined`), and what it chooses (`GreedySound`: members of the pool, nested, and every
candidate it left out crosses one it took before). `PooledApart` and `ReconciledSound` say that merging leaves one proposal for a
set of operations and that arbitration returns only such proposals, `RecomputedSound` that the forest
with the corrections in it is nested, and `UserDecides` that the user's groups come first in the order. The invariant, `HierarchyInv`, has a
part per piece of state: what a session holds are the detections of its own document
(`DocumentsSound`), every forest shown is nested with unique ids (`ForestsSound`), the corrections in
memory, in the file and in the save under way name groups that are well-formed
(`CorrectionsSound`), and a window that waits for its save is not ahead of it (`WindowsSound`,
`CountsSound`, `SaverSound`): without the last three, a report could precede its file. For
`ReportedOnDisk` it adds `ReportsSound`: what was reported, and what each session has changed since,
holds of the corrections in memory and of the snapshot being saved, except that after a start
without the sidecar (`unread`) what was reported before is claimed of the file only; the save then
keeps of it what survives in its snapshot. `RecordedSound` and `ReportsStay` carry it through a
correction and through all other steps. From it:
`CorrectionsAreKept` and the action property `LockedGroupsStay`, whose exceptions are a reset and a
restart. `ShellStep` shows that a handler of
the shell is a step of the corrections, a change of the window to another root, or a stutter, hence
`ShellKeepsCorrections` and `ShellKeepsLocked` of `NavSpec`, which is what the run checks.
`HierarchyAssumption` gives the constants their types; `DetectionsAssumption` says of detectors that
they return finitely many candidates with members, and that ids, which are digests, do not
collide. TLC evaluates both for every artifact of the run.

`ModelOpeningProofs` (any number of opens, models and dialogs). `NothingLeaks` speaks of rest
only, so the invariant follows every session through the threads that hold it: where a job is
tells whether its session exists and is registered (`JobsFollowed`); an open session is shown,
or held by a waiter that will present or close it, or by the handler that closes it
(`SessionsHeld`); what a closing service has collected (`ServiceEmptied`); as long as no open
was started beside another, at most one is under way (`OneAtATime`), and the session a waiter
replaces is the one shown (`Replaced`); and the last model recorded is first in memory, in every
snapshot that will be saved and, when nobody saves, in the file (`RecordedInOrder`, which rests on
lemmas about moving an entry to the front of a bounded list). From it: `SessionsAreAccounted` and
`OpensAreSound`. The case of two opens at once is excluded inside the properties, not by an
assumption: `crossed` is a variable.

`TraceRunnerProofs` (any requests, machines, ceilings, files). The invariant relates the runner's
place to the worker's and to what the staging directory holds (`ControlHeld`), every target to a
phase that is still to come or to a record (`NothingForgotten`), and the device of the source to
the device of the request (`SourceHonest`); with `RequestTyped` and `TracerIsApproved` it is
inductive. From it: `TracesAreWhole` and `ReportsAreTrue`.

`RevisionExportProofs` (any tensors, payloads, histories). Two invariants: a trace has read only
its captured revision; and an export that runs holds the buttons' lock, so no revision is
committed under it (`RunningLocks`, `ChainStays`), has captured the chain's revision
(`ExportCaptured`), and reports the one it was submitted with (`ReportNamesSubmitted`). From the
first: `TracesRunTheirRevision`. From the second: `ExportsAreSound`, for any number of exports: a
second dialog may start a second one whose end unlocks the buttons (section 6), so the invariant
speaks of the exports that are not `unguarded`, of which at most one runs.

The publication of exports (`RevisionExportProofs`, second part; any number of payloads and
exports, with no assumption on what fails). The files of an export are among the targets
`removed+1 .. published` (`OnlyPlaced`), and are all of these as long as it works or has left any
(`Whole`), because whoever works on the directory beside the files of another has crossed it: the
check found every target free (`Alone`). `Walking` relates the two counters to the step; a
rollback begins before the report is placed. From it:
`PublicationTypeCorrect`, `FailuresLeaveNothing`, `ReportsAreComplete`, `ModelsAreComplete` and
`PublicationIsSound`.

The panels (`RevisionExportProofs`, third part; any graphs, forms, scripts of the user, cap). A
trace of the session shown is in one hand: the thread that prepares it until it has shown it, the
panel afterwards, and a second thread for the same session cannot begin while `preparing` is set
(`InOneHand`, `PreparesSound`); this ends when a thread shows its job in another session, which
the history `crossed` records. Every marker has a read that is still to come (`MarkersHeld`). The
strip counts markers, not jobs, so its cap needs the converse: every pending read of statistics of
the session shown has a marker of its own (`OneMarkerEach`), which holds because a read is only
asked for a row that shows no marker; and since counting and adding are two steps of a walk, there
must be one walk at a time (`WalksSound`, until `overlapped`) for `CapKept`.
That the runner takes what was counted is not a matter of steps but of the two walks over the
graph: `CountedIsTaken` proves it for every graph and form. From the invariant, `PanelsInv`:
`RequestsAreSound` and `MarkersAreTracked`. `DaysAssumption` types the scripts of the user;
`PanelsAssumption` says that the cap is a number and that no tab of the overlay asks for a trace
or a comparison.

`StatisticsProofs` (any number of sessions, passes, tensors, payloads and chunks; the assumption
is that there is at least one tensor). A cached entry says nothing inductive of itself, so
the invariant speaks of the passes that will publish one: a pass over edited bytes whose
revision has not come back has, as long as that revision is current, read only what
that revision holds (`PassesFaithful`, which rests on the theorem that a sound chain's
current id tells its contents); a pass over source bytes has read only the source
(`PassesPure`), and so is all that sessions hold and the file keeps (`StoredPure`). What is in
the file is, for every session that has loaded it, in its memory or among what it missed
(`DiskAccounted`): that is why a save of all of memory drops no more than the exception says.
From it: `TypeCorrect`, `OnlyReturnsCanTear`,
`SharedStatisticsStayPure`, `StatisticsAreSound`, and `ReportedStatisticsStay`.

`StoreProofs`, tensor store (any threads, files, slices, requests, costs and budgets). The first half is
about the cache: what `Touch` and `Put` keep of an account that is the sum of its entries, whose
recursive function is reasoned about by the set form of induction (`InductiveSet`). The invariant
of the store says who answers for each descriptor that is open: the store, close(), or the
thread that verifies it (`OpenOwned`), of which at most one at a time, because a lock is held by
whoever works on the file (`LocksHeld`), who opens it only when nobody else has it
(`OpeningAlone`); a thread reads from a descriptor that one of the first two answers for
(`ReadFrom`), so its contents were verified (`ChangedFound`), and so are the bytes it holds, caches
and returns (`BytesTrue`). A typed tensor that was parsed is in the cache, and what the holder of a
lock is about to parse is not (`TypedKept`). From it: `ReadsAreSound`. `StoreAssumption` asks for a
file at least, which every document has.

`StoreProofs`, activation store (any traces, values, runtimes, budgets, faults). The account uses
the same lemmas on sums as the cache. The properties speak of the disk at every moment and of
memory between two operations, so the invariant says what holds in between: what a commit has
staged is whole and of one runtime (`StagedSound`), and so is what it has moved aside, which is the
result still in memory (`AsideSound`); a directory holds no file of another run than its manifest
says, and every file unless its trace is astray (`DirectoriesSound`); memory agrees with the
manifests except for the trace between its renames and its account (`ResultsSound`); a trace being
evicted is out of the account and its captures are gone (`VictimSound`); slices are of the runs
that the results name (`SlicesSound`); and each trace is charged what its result sums up to
(`AccountSound`, `ChargesSound`, `BudgetSound`). That an opened store charges every manifest rests
on `FoundKeeps`, about the recursive function that goes through the directories. From it:
`RecordsStayHonest`, `BytesStayCharged`, `CommittedTracesStay`. `NothingAssumption` says that None
is neither a result nor a directory.

Only model-checked, and why:

* Liveness (`OverlayClears`, `RunnerEnds`, `PanelsAnswer`, `EveryJobEnds`, `CloseEnds`): it needs
  fairness and ENABLED, which the prover does not handle.
* What folds, sums or recursive functions compute for every input: all properties of
  `GraphEditing` and `ArtifactSession`, `BlocksAreReal`, `PictureSound`, `CeilingsKept` (sums over
  records). They are about data of any depth, by induction.

## 6. What the code does that its documents do not say

No run expects a violation: every run's properties hold, and where the code departs from what
it says, the property names the exception, as a history variable or a definition of its own, and
where it says more than that, the property without it is defined beside. The
departures are listed under "findings" in `PROJECT.json`, each with the lines that disagree.
The main ones, with the definition that names the exception, or that shows the departure
when it is added to a configuration of its module (with the constants in brackets):

* A commit undone while a pass reads restores the captured revision id; the comparison at the
  end passes and a torn result is cached (`StatisticsFaithful` of `SessionStatistics`).
* An export reads embedded tensors through the live chain, and hex pages can be applied
  meanwhile; the trace path pins its reader (`ExportIsOneRevision` of `RevisionExport`). Two save
  dialogs opened one after the other start two exports, whose ends unlock the buttons under
  each other (the same property with `HexEdits = FALSE` and two `Exports`).
* When the report cannot be placed, the rollback of a publication removes payloads before the
  model (`Retracting` of `ExportPublish`); an unlink that raises ends the rollback and leaves the
  rest in place (`RemoveRaises`); and targets are checked once but replaced unconditionally, so two
  exports to one destination mix their files and remove each other's (`raced`).
* A statistics file that could not be read counts as empty, and a save replaces it by what its
  session holds: reported statistics are lost, to a bad moment or to another session (`missed` of
  `SessionStatistics`).
* A hierarchy sidecar that could not be read, or has one malformed entry, counts as empty, and the
  next correction replaces it: the corrections of all artifacts are lost (`unread` of
  `HierarchyController`).
* Slices are cached after the file's lock is released, so the thread that waited reads the same
  bytes again (`SliceReadOnce` of `TensorStore`); a closed store may be given a slice.
* Two opens at once leak the session that is shown first (`NothingEverLeaks` of `ModelOpening`).
* A correction may remove the group the window is drilled into (`RootRepaired` of
  `HierarchyController`).
* A save replaces a sidecar that was left in place because it could not be read
  (`NoForeignOverwrite` of `EditingController`; two sessions over one artifact do the same to
  each other), and a second quarantine replaces the first (`QuarantinePreserved`).
* `restore` compares each command of a batch with the state before the batch, `commit` with the
  state inside it: a stacked batch is committed, saved, and quarantined at the next start
  (`HistoryReplays` with `MaxBatch = 2`).
* `close(wait=False)` lets a job store a result that its caller has released
  (`ReleasedStaysReleased` of `JobManager`).
* Eviction of a trace removes captures before it replaces the manifest, and a commit has a
  moment in which its trace has no directory; a restart repairs neither.

Exceptions inside properties, each one a finding or a limit the code states:

* `WellFormed` (what the ONNX properties ask of a file) leaves out sparse tensors, functions with
  bodies, negative dimensions, nesting beyond the limit and two attribute tensors of one name;
  `ExportFailsForKnownReasons` lists the reasons for which a validated edit cannot be exported.
* `ReloadReplays` leaves out attributes that are NaN; `WeightsReopen` names that ids escape;
  `FunctionsAsWritten` operations with several results.
* `~unguarded` (`RevisionExport`), `raced` and `Retracting` (`ExportPublish`), `missed`
  (`SessionStatistics`), `unread` (`HierarchyController`): see above and section 2.
* `~crossed` (`ModelOpening`, `ActivationPanels`): a second dialog was answered beside the first, a
  job was shown in another session than its own. `overlapped`: two walks over the strip.
* `nav.lost` (`PictureIsCurrent`): a jump missed after it had changed the level.
* `RefreshRaises` (`PanelSettles`): the active trace is of another artifact.

## 7. Not modelled, not proved

Not modelled for good: rendering and layout, tokenisation, the numerical tracers, tensor
scripts, unpickling below the scan, quantised block layouts, Orbax, the protobuf wire parser,
diagnostics, desktop integration. They are pure functions, presentation or numbers, and have
no order of steps that could go wrong. Of the user interface: the input workspace, the views of
GGUF files and snapshots, tensor tools and dialogs. Inside the modelled parts: byte offsets
inside a tensor, previews and diffs, which ranges a group read coalesces, texts. A second instance of
the program that writes `hierarchy-view.json` is not modelled (sessions of one instance share the
corrections), nor is the organization mode of a newer build, which degrades to automatic.

Of the properties the runs check, liveness and those about what recursive definitions compute are
left to the model checker (section 5).
