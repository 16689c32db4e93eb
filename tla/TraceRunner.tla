----------------------------- MODULE TraceRunner -----------------------------
(***************************************************************************)
(* The parent of a trace worker: run_onnx_trace (tracing/runner.py) and    *)
(* run_llm_trace (tracing/llm_runner.py), called on a job thread.  It      *)
(* stages the model or the frozen tracer in a scratch directory, spawns    *)
(* the worker of TraceWorker, polls it under the approved limits, parses   *)
(* its response and hands the staging directory to the activation store,   *)
(* or removes it.  The user may cancel, and edit the tracer's folder, at   *)
(* any moment; the worker may die or hang at any moment.                   *)
(***************************************************************************)
EXTENDS TraceWorker, TLC

CONSTANTS Files,      \* the files of a tracer's folder
          MaxEdits    \* bound: edits of the folder

VARIABLES runner,     \* where the job thread is
          cancelled,  \* the job's cancellation token
          staging,    \* the staging directory: what it holds, or "none"
          response,   \* the records the runner parsed
          folder,     \* the tracer's files: the edit each comes from
          approved,   \* the identity the user approved: the files fingerprinted
          frozen,     \* the copy in the scratch directory
          executed    \* the files the worker ran

tracerVars == <<folder, approved, frozen, executed>>
runnerVars == <<runner, cancelled, staging, response>>
vars == <<workerVars, runnerVars, tracerVars>>

Plugin == trace.worker = "tracer"
Empty == [f \in {} |-> 0]

RunnerInit ==
  /\ WorkerInit
  /\ runner = "checking"
  /\ cancelled = FALSE
  /\ staging = "none"
  /\ response = <<>>
  /\ folder = [f \in Files |-> 0]
  /\ approved = folder
  /\ frozen = Empty
  /\ executed = Empty

Goto(step) == runner' = step

------------------------------------------------------------------------------
(* The user. *)

Cancel ==
  /\ ~cancelled
  /\ runner \notin {"done", "failed"}
  /\ cancelled' = TRUE
  /\ UNCHANGED <<workerVars, runner, staging, response, tracerVars>>

EditTracer ==
  /\ Plugin
  /\ runner \notin {"done", "failed"}
  /\ \E f \in Files : folder[f] < MaxEdits /\ folder' = [folder EXCEPT ![f] = @ + 1]
  /\ UNCHANGED <<workerVars, runnerVars, approved, frozen, executed>>

------------------------------------------------------------------------------
(* Before the worker. *)

\* Approval, keys, the size of the inputs and their binding come before there
\* is anything to clean up.
Refuse ==
  /\ runner = "checking"
  /\ Goto("failed")
  /\ UNCHANGED <<workerVars, cancelled, staging, response, tracerVars>>

BeginStaging ==
  /\ runner = "checking"
  /\ ~cancelled
  /\ staging' = "empty"
  /\ Goto("scratch")
  /\ UNCHANGED <<workerVars, cancelled, response, tracerVars>>

MakeScratch ==
  /\ runner = "scratch"
  /\ staging' = "scratch"
  /\ Goto("staging")
  /\ UNCHANGED <<workerVars, cancelled, response, tracerVars>>

\* scratch.mkdir() comes before the try that removes the staging directory.
ScratchFails ==
  /\ runner = "scratch"
  /\ Goto("failed")
  /\ UNCHANGED <<workerVars, cancelled, staging, response, tracerVars>>

Discard == staging' = "none"

\* Anything raised inside the try, by any of its steps.
Raise ==
  /\ Discard
  /\ Goto("failed")

\* snapshot_plugin copies the folder file by file.
CopyFile ==
  /\ Plugin
  /\ runner = "staging"
  /\ \E f \in Files \ DOMAIN frozen : frozen' = (f :> folder[f]) @@ frozen
  /\ UNCHANGED <<workerVars, runnerVars, folder, approved, executed>>

\* The copy must have the approved identity, then the request is written.
FreezeTracer ==
  /\ Plugin
  /\ runner = "staging"
  /\ DOMAIN frozen = Files
  /\ IF frozen = approved THEN Goto("spawning") /\ UNCHANGED staging ELSE Raise
  /\ UNCHANGED <<workerVars, cancelled, response, tracerVars>>

\* build_model exports the working revision, then the memory preflight, the
\* inputs and the targets.
StageModel ==
  /\ ~Plugin
  /\ runner = "staging"
  /\ ~cancelled
  /\ Goto("spawning")
  /\ UNCHANGED <<workerVars, cancelled, staging, response, tracerVars>>

StagingFails ==
  /\ runner \in {"staging", "spawning"}
  /\ Raise
  /\ UNCHANGED <<workerVars, cancelled, response, tracerVars>>

Spawn ==
  /\ runner = "spawning"
  /\ runner' = "polling"
  /\ worker' = "starting"
  /\ UNCHANGED <<trace, machine, source, phases, exact, remaining, records,
                 cancelled, staging, response, tracerVars>>

------------------------------------------------------------------------------
(* While the worker runs. *)

Kill ==
  /\ worker' = IF worker \in Alive THEN "killed" ELSE worker
  /\ UNCHANGED <<trace, machine, source, phases, exact, remaining, records>>

\* One turn of the poll loop that finds the process alive and the token set,
\* the memory ceiling passed or not enforceable, or the wall clock over: each
\* kills the process, waits for it and raises.
PollCancelled ==
  /\ runner = "polling"
  /\ cancelled
  /\ Kill
  /\ Raise
  /\ UNCHANGED <<cancelled, response, tracerVars>>

\* Mutant: the limits are looked at only once the process has ended.
PollOverLimitLate ==
  /\ runner = "polling"
  /\ worker = "exited"
  /\ Raise
  /\ UNCHANGED <<workerVars, cancelled, response, tracerVars>>

PollOverLimit ==
  /\ runner = "polling"
  /\ worker \in Alive
  /\ Kill
  /\ Raise
  /\ UNCHANGED <<cancelled, response, tracerVars>>

\* Mutant: the return code is not looked at.
PollEndedAnyhow ==
  /\ runner = "polling"
  /\ worker \notin Alive
  /\ ~cancelled
  /\ response' = records
  /\ Goto("parsed")
  /\ UNCHANGED <<workerVars, cancelled, staging, tracerVars>>

\* The process ended by itself: only a zero return code has a response.
PollEnded ==
  /\ runner = "polling"
  /\ worker \notin Alive
  /\ ~cancelled
  /\ IF worker = "exited"
     THEN /\ response' = records
          /\ Goto("parsed")
          /\ UNCHANGED staging
     ELSE Raise /\ UNCHANGED response
  /\ UNCHANGED <<workerVars, cancelled, tracerVars>>

\* The response cannot be read or parsed.
ResponseInvalid ==
  /\ runner = "polling"
  /\ worker = "exited"
  /\ Raise
  /\ UNCHANGED <<workerVars, cancelled, response, tracerVars>>

RemoveScratch ==
  /\ runner = "parsed"
  /\ IF cancelled THEN Raise ELSE staging' = "captures" /\ Goto("committing")
  /\ UNCHANGED <<workerVars, cancelled, response, tracerVars>>

\* The store renames the staging directory and records the trace.
CommitTrace ==
  /\ runner = "committing"
  /\ staging' = "committed"
  /\ Goto("done")
  /\ UNCHANGED <<workerVars, cancelled, response, tracerVars>>

\* It raises before the directory is moved, or after: then there is none to discard.
CommitFails ==
  /\ runner = "committing"
  /\ staging' \in {"none", "committed"}
  /\ Goto("failed")
  /\ UNCHANGED <<workerVars, cancelled, response, tracerVars>>

------------------------------------------------------------------------------
(* The worker: the steps of TraceWorker, a death at any point, and for a      *)
(* tracer the check of its identity and the import of its files.              *)

WorkerDies ==
  /\ worker \in Alive
  /\ worker' = "crashed"
  /\ UNCHANGED <<trace, machine, source, phases, exact, remaining, records>>
  /\ UNCHANGED <<runnerVars, tracerVars>>

\* Mutant: the identity is checked in the copy, the files come from the folder.
LoadFolder ==
  /\ worker = "streaming"
  /\ executed = Empty
  /\ IF frozen = approved
     THEN executed' = folder /\ UNCHANGED worker
     ELSE worker' = "crashed" /\ UNCHANGED executed
  /\ UNCHANGED <<trace, machine, source, phases, exact, remaining, records>>
  /\ UNCHANGED <<runnerVars, folder, approved, frozen>>

\* load_manifest fingerprints the frozen copy; the entry point is imported from
\* the same directory.
LoadTracer ==
  /\ worker = "streaming"
  /\ executed = Empty
  /\ IF frozen = approved
     THEN executed' = frozen /\ UNCHANGED worker
     ELSE worker' = "crashed" /\ UNCHANGED executed
  /\ UNCHANGED <<trace, machine, source, phases, exact, remaining, records>>
  /\ UNCHANGED <<runnerVars, folder, approved, frozen>>

WorkerSteps ==
  /\ \/ LimitProcess \/ OpenBackend \/ BeginPhase \/ SkipTarget \/ TakeTarget
     \/ EndPhase \/ Answer
     \/ executed # Empty /\ (StreamValue \/ EndStream)
  /\ UNCHANGED <<runnerVars, tracerVars>>

------------------------------------------------------------------------------
RunnerSteps ==
  \/ Refuse \/ BeginStaging \/ MakeScratch \/ ScratchFails
  \/ CopyFile \/ FreezeTracer \/ StageModel \/ StagingFails \/ Spawn
  \/ PollCancelled \/ PollOverLimit \/ PollEnded \/ ResponseInvalid
  \/ RemoveScratch \/ CommitTrace \/ CommitFails

Next == Cancel \/ EditTracer \/ RunnerSteps \/ WorkerDies \/ LoadTracer \/ WorkerSteps

\* The job thread runs and the wall clock advances; the worker may hang.
Spec == RunnerInit /\ [][Next]_vars /\ WF_vars(RunnerSteps)

------------------------------------------------------------------------------
(* Properties. *)

Ended == runner \in {"done", "failed"}

\* No path through the runner leaves its directory or a running process behind:
\* when the call has ended the staging directory is the committed trace or gone
\* (or still empty, where the scratch directory could not be made).
NothingLeftBehind ==
  Ended => staging \in {"none", "empty", "committed"} /\ worker \notin Alive

\* A trace reaches the store only from a worker that ended by itself with every
\* target accounted for: never a killed or crashed worker's captures, whose files
\* lie in the same directory.
CommittedIsWhole ==
  staging = "committed" => worker = "exited" /\ response = records /\ DOMAIN response = Targets

\* The records spend the pool exactly: whatever sizes the runtime really returns,
\* no byte is stored twice or beyond the approved ceiling.
PoolKept ==
  worker \in {"phase", "taking", "streaming", "answering", "exited"} =>
    /\ remaining >= 0
    /\ remaining = trace.pool - Total(DOMAIN records, LAMBDA i : records[i].stored)

\* Peak memory is one batch: the batches are planned in the order the loop takes
\* the values in, so the arrays of one are gone before the next is fetched.
OneBatchLive == ~source.mixed

\* Where declared sizes are right and every fetch succeeds, a greedy trace drops or cuts a value only when
\* less than one element of some value fits the bytes that are left, although the
\* values the session is asked for are chosen before anything is stored.
BytesNotWasted ==
  LET honest(i) == Target(i).declared \in {Unknown, Target(i).size} /\ ~Target(i).object
      cut(i) == records[i].stored < Target(i).size
      element == Max({Target(i).item : i \in Targets} \cup {0})
  IN  /\ worker \in {"answering", "exited"}
      /\ source.kind = "runtime" /\ trace.policy = "greedy" /\ source.failed = {}
      /\ \A i \in Targets : honest(i)
      /\ \E i \in Targets : cut(i)
      => remaining < element

\* A trace asked of an accelerator never shows values another device computed.
AcceleratorHonest ==
  trace.worker = "onnx" /\ trace.backend \in {"auto", "onnxruntime"}
    /\ trace.device \in {"gpu", "npu"} /\ source.kind # "none"
  => /\ source.device = trace.device
     /\ source.kind = "prefix" => \A i \in DOMAIN records : records[i].stored > 0 => Fed(i)

\* The tracer that runs is the one the user approved, although its folder may be
\* edited while it is copied.
TracerIsApproved == executed # Empty => executed = approved

\* Every call ends, also when the worker hangs.
RunnerEnds == <>Ended

\* A run leaves whole captures or nothing: no worker, directory or approved copy outlives
\* the call, and what is committed was answered by a worker that ended well.
RunsLeaveWholeTraces == NothingLeftBehind /\ CommittedIsWhole

\* The ceilings of a request hold together: the pool of bytes is neither exceeded nor
\* spent on values that are dropped, and one batch of outputs is in memory at a time.
CeilingsKept == PoolKept /\ OneBatchLive /\ BytesNotWasted

\* What is reported to have run is what ran: the device of the answer, and the tracer
\* the user approved.
RunAsReported == AcceleratorHonest /\ TracerIsApproved
==============================================================================
