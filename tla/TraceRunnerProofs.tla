-------------------------- MODULE TraceRunnerProofs --------------------------
(***************************************************************************)
(* What a trace leaves behind and what it reports, for any requests,       *)
(* machines and files of a tracer.                                         *)
(*                                                                         *)
(* That the committed captures are whole is not inductive.  It rests on    *)
(* the two processes agreeing where they are (ControlHeld), on every       *)
(* target being recorded or still to be taken (NothingForgotten), and on   *)
(* no step between the worker's answer and the commit touching what was    *)
(* answered.  That an accelerator is reported truly rests on a source      *)
(* never changing its device and on a failed one producing nothing but     *)
(* the inputs it was fed (SourceHonest).                                   *)
(***************************************************************************)
EXTENDS TraceRunner, SequenceTheorems, WellFoundedInduction, TLAPS

\* A request and a machine of the user's.
RequestTyped == trace \in RequestShape /\ machine \in MachineShape

\* Where the worker can be, and what is staged, for each place of the job thread.
Answered ==
  /\ worker = "exited"
  /\ response = records
  /\ DOMAIN records = Targets

ControlHeld ==
  /\ runner \in {"checking", "scratch", "staging", "spawning", "polling", "parsed",
                 "committing", "done", "failed"}
  /\ runner \in {"checking", "scratch", "staging", "spawning"} => worker = "absent"
  /\ runner = "checking" => staging = "none"
  /\ runner = "scratch" => staging = "empty"
  /\ runner \in {"staging", "spawning", "polling", "parsed"} => staging = "scratch"
  /\ runner = "committing" => staging = "captures"
  /\ runner = "done" => staging = "committed"
  /\ runner = "failed" => staging \in {"none", "empty", "committed"}
  /\ worker \in Alive => runner = "polling"
  /\ runner \in {"parsed", "committing", "done"} \/ staging = "committed" => Answered

\* Every target has its record or waits in a phase, and the phases are what remains.
Waiting(i) == \E k \in 1..Len(phases) : i \in phases[k]

NothingForgotten ==
  /\ worker \in {"absent", "starting", "opening"} => records = <<>>
  /\ worker \in {"phase", "taking"} =>
       /\ phases \in Seq(SUBSET Targets) /\ phases # <<>>
       /\ DOMAIN records \subseteq Targets
       /\ \A i \in Targets : i \in DOMAIN records \/ Waiting(i)
  /\ worker \in {"answering", "exited"} => DOMAIN records = Targets

\* A trace that an accelerator was asked for and nothing else may compute.
Accelerated ==
  /\ trace.worker = "onnx"
  /\ trace.backend \in {"auto", "onnxruntime"}
  /\ trace.device \in {"gpu", "npu"}

\* A source of the wanted device; one that failed gives nothing but fed inputs.
Fielded(s) == {"kind", "device", "frontier"} \subseteq DOMAIN s

Wanted(s) ==
  /\ Fielded(s)
  /\ s.kind \in {"runtime", "whole", "prefix"}
  /\ s.device = trace.device
  /\ s.kind = "prefix" => s.frontier = 0

SourceHonest ==
  /\ worker \in {"absent", "starting", "opening"} => source = NoSource
  /\ Accelerated =>
       /\ worker # "streaming"
       /\ worker \in {"phase", "taking", "answering", "exited"} => Wanted(source)
       /\ source.kind # "none" => Wanted(source)
       /\ source.kind = "prefix" => \A i \in DOMAIN records : records[i].stored > 0 => Fed(i)

Inv == RequestTyped /\ ControlHeld /\ NothingForgotten /\ SourceHonest /\ TracerIsApproved

------------------------------------------------------------------------------
(* Lemmas about the operators. *)

\* A set of numbers that is not empty has its minimum.
LEMMA MinIsMember ==
  ASSUME NEW S \in SUBSET Nat, S # {} PROVE Min(S) \in S
  <1> DEFINE R == OpToRel(<, Nat)
  <1>1. \E m \in S : \A k \in S : ~(<<k, m>> \in R)
    BY NatLessThanWellFounded, WFMin, Zenon
  <1>2. PICK m \in S : \A k \in S : ~(<<k, m>> \in R)
    BY <1>1
  <1>3. \A k \in S : ~(k < m)
    BY <1>2 DEF OpToRel
  <1> HIDE DEF R
  <1>4. \A k \in S : m <= k
    BY <1>3
  <1> QED
    BY <1>4 DEF Min

\* The request's targets are numbers.
LEMMA TargetsAreNumbers == RequestTyped => Targets \subseteq Nat /\ Targets = 1..Len(trace.targets)
  BY DEF RequestTyped, RequestShape, Targets

\* The next target of a phase is one of it.
LEMMA NextIsOfPhase ==
  ASSUME RequestTyped, NEW phase \in SUBSET Targets, phase # {} PROVE NextOf(phase) \in phase
  BY MinIsMember, TargetsAreNumbers DEF NextOf

\* A phase without its first target: the others are as they were.
LEMMA PhasesShrink ==
  ASSUME NEW T, NEW p \in Seq(SUBSET T), p # <<>>, NEW i
  PROVE  /\ [p EXCEPT ![1] = @ \ {i}] \in Seq(SUBSET T)
         /\ [p EXCEPT ![1] = @ \ {i}] # <<>>
         /\ Len([p EXCEPT ![1] = @ \ {i}]) = Len(p)
         /\ \A k \in 1..Len(p) :
              [p EXCEPT ![1] = @ \ {i}][k] = IF k = 1 THEN p[1] \ {i} ELSE p[k]
  <1> DEFINE q == [p EXCEPT ![1] = p[1] \ {i}]
  <1>1. Len(p) \in Nat /\ Len(p) >= 1 /\ DOMAIN p = 1..Len(p) /\ p[1] \ {i} \in SUBSET T
    OBVIOUS
  <1>2. q \in Seq(SUBSET T) /\ Len(q) = Len(p)
    BY <1>1, ExceptSeq
  <1>3. \A k \in 1..Len(p) : q[k] = IF k = 1 THEN p[1] \ {i} ELSE p[k]
    BY <1>1
  <1>4. q # <<>>
    BY <1>1, <1>2
  <1> QED
    BY <1>2, <1>3, <1>4

\* One step in a phase: its target goes from the phases to the records.
LEMMA TargetRecorded ==
  ASSUME RequestTyped, NothingForgotten, worker = "taking", Head(phases) # {},
         NEW record, Record(NextOf(Head(phases)), record), NextTarget(NextOf(Head(phases)))
  PROVE  NothingForgotten'
  <1> DEFINE i == NextOf(Head(phases))
  <1>1. /\ phases \in Seq(SUBSET Targets) /\ phases # <<>>
        /\ DOMAIN records \subseteq Targets
        /\ \A j \in Targets : j \in DOMAIN records \/ Waiting(j)
    BY DEF NothingForgotten
  <1>2. i \in Targets
    BY <1>1, NextIsOfPhase
  <1> HIDE DEF i
  <1>3. worker' = "taking" /\ Targets' = Targets
    BY DEF NextTarget, Targets
  <1>4. DOMAIN records' = DOMAIN records \cup {i}
    BY DEF Record, i
  <1>5. phases' = [phases EXCEPT ![1] = @ \ {i}]
    BY DEF NextTarget, i
  <1>6. /\ phases' \in Seq(SUBSET Targets) /\ phases' # <<>> /\ Len(phases') = Len(phases)
        /\ \A k \in 1..Len(phases) : phases'[k] = IF k = 1 THEN phases[1] \ {i} ELSE phases[k]
    BY <1>1, <1>5, PhasesShrink
  <1>7. \A j \in Targets : j \in DOMAIN records' \/ Waiting(j)'
    <2> SUFFICES ASSUME NEW j \in Targets, j # i, j \notin DOMAIN records PROVE Waiting(j)'
      BY <1>4
    <2>1. PICK k \in 1..Len(phases) : j \in phases[k]
      BY <1>1 DEF Waiting
    <2>2. j \in phases'[k]
      BY <2>1, <1>6
    <2> QED
      BY <2>1, <2>2, <1>6 DEF Waiting
  <1> QED
    BY <1>1, <1>2, <1>3, <1>4, <1>6, <1>7 DEF NothingForgotten

------------------------------------------------------------------------------
(* Sources. *)

\* What taking, skipping and closing do to a source leaves its kind and device alone.
LEMMA SourceChanges ==
  ASSUME NEW s, Wanted(s), NEW i, NEW b
  PROVE  /\ Wanted(Closed(s)) /\ Closed(s).kind = s.kind
         /\ Wanted(CloseIfSpent(s)) /\ CloseIfSpent(s).kind = s.kind
         /\ Wanted(Without(i, s)) /\ Without(i, s).kind = s.kind
         /\ Wanted(RunBatch(b, s)) /\ RunBatch(b, s).kind = s.kind
         /\ \A x : /\ Wanted([s EXCEPT !.left = x]) /\ [s EXCEPT !.left = x].kind = s.kind
                   /\ Wanted([s EXCEPT !.live = x]) /\ [s EXCEPT !.live = x].kind = s.kind
                   /\ Wanted([s EXCEPT !.failed = x]) /\ [s EXCEPT !.failed = x].kind = s.kind
                   /\ Wanted([s EXCEPT !.spent = x]) /\ [s EXCEPT !.spent = x].kind = s.kind
  <1> USE DEF Wanted, Fielded
  <1>1. Wanted(Closed(s)) /\ Closed(s).kind = s.kind
    BY DEF Closed
  <1>2. Wanted(CloseIfSpent(s)) /\ CloseIfSpent(s).kind = s.kind
    BY <1>1 DEF CloseIfSpent
  <1>3. Wanted(Without(i, s)) /\ Without(i, s).kind = s.kind
    BY DEF Without
  <1>4. Wanted(RunBatch(b, s)) /\ RunBatch(b, s).kind = s.kind
    BY DEF RunBatch
  <1>5. \A x : /\ Wanted([s EXCEPT !.left = x]) /\ [s EXCEPT !.left = x].kind = s.kind
               /\ Wanted([s EXCEPT !.live = x]) /\ [s EXCEPT !.live = x].kind = s.kind
    OBVIOUS
  <1>6. \A x : /\ Wanted([s EXCEPT !.failed = x]) /\ [s EXCEPT !.failed = x].kind = s.kind
               /\ Wanted([s EXCEPT !.spent = x]) /\ [s EXCEPT !.spent = x].kind = s.kind
    OBVIOUS
  <1> QED
    BY <1>1, <1>2, <1>3, <1>4, <1>5, <1>6

\* A usable candidate is of the device that was asked for.
LEMMA CandidateIsWanted ==
  ASSUME Accelerated, UsableCandidates # {}
  PROVE  Wanted(FirstUsable) /\ FirstUsable.kind # "prefix"
  <1> DEFINE k == Min(UsableCandidates)
  <1>1. UsableCandidates \in SUBSET Nat
    BY DEF UsableCandidates, ProviderCandidates, ProviderOrder
  <1>2. k \in UsableCandidates
    BY <1>1, MinIsMember
  <1>3. ProviderOrder[k].device = trace.device
    BY <1>2 DEF UsableCandidates, ProviderCandidates, Accelerated
  <1> HIDE DEF k
  <1> DEFINE c == ProviderOrder[k]
  <1>4. c.device = trace.device
    BY <1>3
  <1> HIDE DEF c
  <1>5. /\ Wanted(RuntimeSource(c)) /\ RuntimeSource(c).kind # "prefix"
    BY <1>4 DEF RuntimeSource, Wanted, Fielded, NoSource
  <1> QED
    BY <1>5 DEF FirstUsable, k, c

\* So is every source such a trace can open.
LEMMA OpenedIsWanted ==
  ASSUME Accelerated, NEW s \in OpenedSources PROVE Wanted(s)
  <1>1. CASE UsableCandidates # {}
    BY <1>1, CandidateIsWanted DEF OpenedSources, Accelerated
  <1>2. CASE UsableCandidates = {}
    <2>1. s = FailedSource(trace.device)
      BY <1>2 DEF OpenedSources, Accelerated
    <2> QED
      BY <2>1 DEF FailedSource, Wanted, Fielded, NoSource
  <1> QED
    BY <1>1, <1>2

\* A value that was taken leaves the source wanted, and from a failed source it is one
\* the worker was fed.
LEMMA TakenIsHonest ==
  ASSUME RequestTyped, Wanted(source), NEW i \in Targets, NEW taken \in Takes(i)
  PROVE  /\ Wanted(taken.source) /\ taken.source.kind = source.kind
         /\ source.kind = "prefix" /\ ~Fed(i) => taken.value = FALSE
  <1>1. CASE Fed(i)
    <2>1. taken = Value(source)
      BY <1>1 DEF Takes
    <2> QED
      BY <1>1, <2>1 DEF Value
  <1>2. CASE ~Fed(i) /\ source.kind = "prefix"
    <2>1. Target(i).node >= source.frontier
      <3>1. trace.targets \in Seq(TargetShape)
        BY DEF RequestTyped, RequestShape
      <3>2. Target(i) \in TargetShape
        BY <3>1 DEF Target, Targets
      <3>3. Target(i).node \in 0..Nodes - 1 /\ source.frontier = 0
        BY <1>2, <3>2 DEF TargetShape, Wanted
      <3> QED
        BY <3>3
    <2>2. taken \in TakePrefix(i)
      BY <1>2 DEF Takes
    <2>3. taken = NoValue("memory", source) \/ taken = NoValue("unbuildable", source)
      BY <2>1, <2>2 DEF TakePrefix
    <2> QED
      BY <1>2, <2>3 DEF NoValue
  <1>3. CASE ~Fed(i) /\ source.kind = "whole"
    <2> DEFINE t == [source EXCEPT !.live = @ \ {i}]
    <2>1. taken \in TakeWhole(i)
      BY <1>3 DEF Takes
    <2>2. taken = Value(t) \/ taken = NoValue("no value", source)
      BY <2>1 DEF TakeWhole
    <2>3. Wanted(t) /\ t.kind = source.kind
      BY SourceChanges
    <2> HIDE DEF t
    <2>4. CASE taken = Value(t)
      BY <1>3, <2>3, <2>4 DEF Value
    <2>5. CASE taken = NoValue("no value", source)
      BY <1>3, <2>5 DEF NoValue
    <2> QED
      BY <2>2, <2>4, <2>5
  <1>4. CASE ~Fed(i) /\ source.kind = "runtime"
    <2> DEFINE b == BatchOf(i)
               s == [source EXCEPT !.left = @ \ {i}]
    <2>1. taken \in TakeRuntime(i)
      BY <1>4 DEF Takes
    <2>2. Wanted(s) /\ s.kind = source.kind
      BY SourceChanges
    <2> HIDE DEF s, b
    <2>3. CASE i \notin Asked
      <3>1. taken = NoValue("not asked", source)
        BY <2>1, <2>3 DEF TakeRuntime
      <3> QED
        BY <1>4, <3>1 DEF NoValue
    <2>4. CASE i \in Asked
      <3>1. PICK o \in { NoValue("failed", s), NoValue("released", s), Value(Without(i, s)),
                         Value(Without(i, RunBatch(b, s))),
                         NoValue("failed", [s EXCEPT !.failed = @ \cup {b}]) } :
                   taken = [o EXCEPT !.source = CloseIfSpent(o.source)]
        BY <2>1, <2>4 DEF TakeRuntime, s, b
      <3>2. Wanted(o.source) /\ o.source.kind = s.kind
        <4>1. CASE o = NoValue("failed", s) \/ o = NoValue("released", s)
          BY <4>1, <2>2 DEF NoValue
        <4>2. CASE o = Value(Without(i, s))
          BY <4>2, <2>2, SourceChanges DEF Value
        <4>3. CASE o = Value(Without(i, RunBatch(b, s)))
          <5>1. Wanted(RunBatch(b, s)) /\ RunBatch(b, s).kind = s.kind
            BY <2>2, SourceChanges
          <5>2. /\ Wanted(Without(i, RunBatch(b, s)))
                /\ Without(i, RunBatch(b, s)).kind = s.kind
            BY <5>1, SourceChanges
          <5> QED
            BY <4>3, <5>2 DEF Value
        <4>4. CASE o = NoValue("failed", [s EXCEPT !.failed = @ \cup {b}])
          BY <4>4, <2>2, SourceChanges DEF NoValue
        <4> QED
          BY <3>1, <4>1, <4>2, <4>3, <4>4
      <3>3. taken.source = CloseIfSpent(o.source)
        BY <3>1 DEF Value, NoValue
      <3> QED
        BY <1>4, <2>2, <3>2, <3>3, SourceChanges
    <2> QED
      BY <2>3, <2>4
  <1> QED
    BY <1>1, <1>2, <1>3, <1>4 DEF Wanted

\* Skipping a value does the same.
LEMMA SkippedIsHonest ==
  ASSUME Wanted(source), NEW i
  PROVE  Wanted(Skipped(i)) /\ Skipped(i).kind = source.kind
  <1> DEFINE s == [source EXCEPT !.left = @ \ {i}]
  <1>1. Wanted(s) /\ s.kind = source.kind
    BY SourceChanges
  <1>2. Wanted(Without(i, s)) /\ Without(i, s).kind = s.kind
    BY <1>1, SourceChanges
  <1>3. Wanted(CloseIfSpent(Without(i, s))) /\ CloseIfSpent(Without(i, s)).kind = s.kind
    BY <1>2, SourceChanges
  <1>4. Wanted([source EXCEPT !.live = @ \ {i}]) /\ [source EXCEPT !.live = @ \ {i}].kind = source.kind
    BY SourceChanges
  <1> HIDE DEF s
  <1>5. CASE source.kind = "runtime" /\ i \in Asked
    <2>1. Skipped(i) = CloseIfSpent(Without(i, s))
      BY <1>5 DEF Skipped, s
    <2> QED
      BY <2>1, <1>1, <1>3
  <1>6. CASE source.kind = "whole"
    BY <1>6, <1>4 DEF Skipped
  <1>7. CASE source.kind # "whole" /\ ~(source.kind = "runtime" /\ i \in Asked)
    BY <1>7 DEF Skipped
  <1> QED
    BY <1>5, <1>6, <1>7

------------------------------------------------------------------------------
(* The inductive invariant. *)

\* A worker's step moves nothing of the runner or the tracer.
WorkerMoves ==
  \/ LimitProcess \/ OpenBackend \/ BeginPhase \/ SkipTarget \/ TakeTarget
  \/ EndPhase \/ Answer \/ StreamValue \/ EndStream

\* A step of the job thread that leaves the worker's values alone.
RunnerAlone ==
  \/ Refuse \/ BeginStaging \/ MakeScratch \/ ScratchFails \/ CopyFile \/ FreezeTracer
  \/ StageModel \/ StagingFails \/ PollEnded \/ ResponseInvalid \/ RemoveScratch
  \/ CommitTrace \/ CommitFails

\* Requests, machines and the identity that was approved do not change.
LEMMA RequestKept ==
  ASSUME [Next]_vars
  PROVE  /\ trace' = trace /\ machine' = machine /\ approved' = approved
         /\ Targets' = Targets
         /\ RequestTyped => RequestTyped'
         /\ TracerIsApproved => TracerIsApproved'
  <1>1. trace' = trace /\ machine' = machine /\ approved' = approved
    <2>1. CASE Cancel \/ EditTracer \/ RunnerAlone \/ WorkerDies \/ LoadTracer
      BY <2>1 DEF Cancel, EditTracer, RunnerAlone, WorkerDies, LoadTracer, Refuse, BeginStaging,
                  MakeScratch, ScratchFails, CopyFile, FreezeTracer, StageModel, StagingFails,
                  PollEnded, ResponseInvalid, RemoveScratch, CommitTrace, CommitFails,
                  workerVars, runnerVars, tracerVars
    <2>2. CASE Spawn \/ PollCancelled \/ PollOverLimit
      BY <2>2 DEF Spawn, PollCancelled, PollOverLimit, Kill, tracerVars
    <2>3. CASE WorkerSteps
      BY <2>3 DEF WorkerSteps, LimitProcess, OpenBackend, BeginPhase, SkipTarget, TakeTarget,
                  NextTarget, EndPhase, Answer, StreamValue, EndStream, tracerVars
    <2>4. CASE UNCHANGED vars
      BY <2>4 DEF vars, workerVars, tracerVars
    <2> QED
      BY <2>1, <2>2, <2>3, <2>4 DEF Next, RunnerSteps, RunnerAlone
  <1>2. Targets' = Targets /\ (RequestTyped => RequestTyped')
    BY <1>1 DEF RequestTyped, Targets
  <1>3. executed' = executed \/ executed' = approved
    <2>1. CASE LoadTracer
      BY <2>1 DEF LoadTracer
    <2>2. CASE Cancel \/ EditTracer \/ RunnerAlone \/ WorkerDies
      BY <2>2 DEF Cancel, EditTracer, RunnerAlone, WorkerDies, Refuse, BeginStaging,
                  MakeScratch, ScratchFails, CopyFile, FreezeTracer, StageModel, StagingFails,
                  PollEnded, ResponseInvalid, RemoveScratch, CommitTrace, CommitFails,
                  tracerVars
    <2>3. CASE Spawn \/ PollCancelled \/ PollOverLimit \/ WorkerSteps
      BY <2>3 DEF Spawn, PollCancelled, PollOverLimit, WorkerSteps, tracerVars
    <2>4. CASE UNCHANGED vars
      BY <2>4 DEF vars, tracerVars
    <2> QED
      BY <2>1, <2>2, <2>3, <2>4 DEF Next, RunnerSteps, RunnerAlone
  <1>4. TracerIsApproved => TracerIsApproved'
    BY <1>1, <1>3 DEF TracerIsApproved
  <1> QED
    BY <1>1, <1>2, <1>4

\* The steps that touch none of what the worker has produced.
LEMMA RunnerLeavesWorker ==
  ASSUME Cancel \/ EditTracer \/ RunnerAlone \/ UNCHANGED vars
  PROVE  UNCHANGED workerVars
  BY DEF Cancel, EditTracer, RunnerAlone, Refuse, BeginStaging, MakeScratch, ScratchFails,
         CopyFile, FreezeTracer, StageModel, StagingFails, PollEnded, ResponseInvalid,
         RemoveScratch, CommitTrace, CommitFails, vars

\* Those that change only where the worker is.
LEMMA WorkerMoved ==
  ASSUME Spawn \/ PollCancelled \/ PollOverLimit \/ WorkerDies \/ LoadTracer
  PROVE  /\ UNCHANGED <<trace, machine, source, phases, exact, remaining, records>>
         /\ Spawn => worker' = "starting"
         /\ ~Spawn => worker' \in {worker, "killed", "crashed"}
  BY DEF Spawn, PollCancelled, PollOverLimit, Kill, WorkerDies, LoadTracer

\* Every step keeps the two processes in the places that belong together.
LEMMA ControlKept ==
  ASSUME RequestTyped, ControlHeld, NothingForgotten, [Next]_vars
  PROVE  ControlHeld'
  <1> USE DEF ControlHeld, Answered, Alive, Goto
  <1>0. Targets' = Targets
    BY RequestKept
  <1>1. CASE Cancel \/ EditTracer
    BY <1>0, <1>1 DEF Cancel, EditTracer, workerVars, runnerVars
  <1>2. CASE Refuse \/ BeginStaging \/ MakeScratch \/ ScratchFails
    BY <1>0, <1>2 DEF Refuse, BeginStaging, MakeScratch, ScratchFails, workerVars
  <1>3. CASE CopyFile \/ FreezeTracer \/ StageModel \/ StagingFails
    BY <1>0, <1>3 DEF CopyFile, FreezeTracer, StageModel, StagingFails, Raise, Discard,
                      workerVars, runnerVars
  <1>4. CASE Spawn
    BY <1>0, <1>4 DEF Spawn
  <1>5. CASE PollCancelled \/ PollOverLimit
    BY <1>0, <1>5 DEF PollCancelled, PollOverLimit, Kill, Raise, Discard
  <1>6. CASE PollEnded
    BY <1>0, <1>6 DEF PollEnded, Raise, Discard, workerVars, NothingForgotten
  <1>7. CASE ResponseInvalid \/ RemoveScratch
    BY <1>0, <1>7 DEF ResponseInvalid, RemoveScratch, Raise, Discard, workerVars
  <1>8. CASE CommitTrace \/ CommitFails
    BY <1>0, <1>8 DEF CommitTrace, CommitFails, workerVars
  <1>9. CASE WorkerDies \/ LoadTracer
    BY <1>0, <1>9 DEF WorkerDies, LoadTracer, runnerVars
  <1>10. CASE WorkerSteps
    <2>1. /\ worker \in Alive /\ runner' = runner /\ staging' = staging
          /\ worker' \in Alive \cup {"exited"}
      BY <1>10 DEF WorkerSteps, LimitProcess, OpenBackend, BeginPhase, SkipTarget, TakeTarget,
                   NextTarget, EndPhase, Answer, StreamValue, EndStream, runnerVars
    <2> QED
      BY <2>1
  <1>11. CASE UNCHANGED vars
    BY <1>0, <1>11 DEF vars, workerVars, runnerVars
  <1> QED
    BY <1>1, <1>2, <1>3, <1>4, <1>5, <1>6, <1>7, <1>8, <1>9, <1>10, <1>11
       DEF Next, RunnerSteps

\* Every step leaves each target recorded or to be taken.
LEMMA ForgottenKept ==
  ASSUME RequestTyped, ControlHeld, NothingForgotten, [Next]_vars
  PROVE  NothingForgotten'
  <1>0. Targets' = Targets
    BY RequestKept
  <1>1. CASE Cancel \/ EditTracer \/ RunnerAlone \/ UNCHANGED vars
    <2>1. UNCHANGED <<worker, phases, records>>
      BY <1>1, RunnerLeavesWorker DEF workerVars
    <2> QED
      BY <1>0, <2>1 DEF NothingForgotten, Waiting
  <1>2. CASE Spawn \/ PollCancelled \/ PollOverLimit \/ WorkerDies \/ LoadTracer
    <2>1. UNCHANGED <<phases, records>>
      BY <1>2, WorkerMoved
    <2>2. CASE Spawn
      BY <2>1, <2>2 DEF Spawn, ControlHeld, NothingForgotten
    <2>3. CASE ~Spawn
      <3>1. worker' \in {worker, "killed", "crashed"}
        BY <1>2, <2>3, WorkerMoved
      <3> QED
        BY <1>0, <2>1, <3>1 DEF NothingForgotten, Waiting
    <2> QED
      BY <2>2, <2>3
  <1>3. CASE LimitProcess
    BY <1>0, <1>3 DEF LimitProcess, NothingForgotten
  <1>4. CASE OpenBackend
    <2> DEFINE first == {i \in Targets : Prioritized(i)}
               rest == {i \in Targets : ~Prioritized(i)}
    <2>1. /\ worker' = "phase" /\ phases' = <<first, rest>> /\ records' = <<>>
      BY <1>4 DEF OpenBackend, NothingForgotten
    <2>2. \A i \in Targets : i \in first \/ i \in rest
      OBVIOUS
    <2>3. first \in SUBSET Targets /\ rest \in SUBSET Targets
      OBVIOUS
    <2> HIDE DEF first, rest
    <2>4. phases' \in Seq(SUBSET Targets) /\ phases' # <<>> /\ Len(phases') = 2
            /\ phases'[1] = first /\ phases'[2] = rest
      BY <2>1, <2>3
    <2>5. \A i \in Targets : Waiting(i)'
      BY <2>2, <2>4 DEF Waiting
    <2>6. DOMAIN records' = {}
      BY <2>1
    <2> QED
      BY <1>0, <2>1, <2>4, <2>5, <2>6 DEF NothingForgotten
  <1>5. CASE BeginPhase
    BY <1>0, <1>5 DEF BeginPhase, NothingForgotten, Waiting
  <1>6. CASE SkipTarget
    BY <1>6, TargetRecorded DEF SkipTarget
  <1>7. CASE TakeTarget
    BY <1>7, TargetRecorded DEF TakeTarget
  <1>8. CASE EndPhase
    <2>1. /\ phases \in Seq(SUBSET Targets) /\ phases # <<>> /\ Head(phases) = {}
          /\ DOMAIN records \subseteq Targets /\ records' = records
          /\ \A i \in Targets : i \in DOMAIN records \/ Waiting(i)
          /\ phases' = Tail(phases)
      BY <1>8 DEF EndPhase, NothingForgotten
    <2>0. /\ Len(phases) \in Nat /\ Len(phases) >= 1 /\ Head(phases) = phases[1]
          /\ Tail(phases) \in Seq(SUBSET Targets) /\ Len(Tail(phases)) = Len(phases) - 1
          /\ \A k \in 1..Len(Tail(phases)) : Tail(phases)[k] = phases[k + 1]
      BY <2>1, HeadTailProperties
    <2>2. CASE Len(phases) > 1
      <3>0. /\ phases' \in Seq(SUBSET Targets) /\ Len(phases') = Len(phases) - 1
            /\ \A k \in 1..Len(phases) - 1 : phases'[k] = phases[k + 1]
        BY <2>0, <2>1, Zenon
      <3>1. phases' # <<>>
        BY <2>0, <2>2, <3>0
      <3>2. \A i \in Targets : Waiting(i) => Waiting(i)'
        <4> SUFFICES ASSUME NEW i \in Targets, NEW k \in 1..Len(phases), i \in phases[k]
                     PROVE  Waiting(i)'
          BY DEF Waiting
        <4>1. k # 1
          BY <2>0, <2>1
        <4>2. k - 1 \in 1..Len(phases) - 1 /\ phases'[k - 1] = phases[k]
          BY <2>0, <3>0, <4>1
        <4> QED
          BY <3>0, <4>2 DEF Waiting
      <3>3. worker' = "phase"
        BY <1>8, <2>2 DEF EndPhase
      <3> QED
        BY <1>0, <2>1, <3>0, <3>1, <3>2, <3>3 DEF NothingForgotten
    <2>3. CASE ~(Len(phases) > 1)
      <3>1. Len(phases) = 1 /\ phases[1] = {}
        BY <2>0, <2>1, <2>3
      <3>2. \A i \in Targets : ~Waiting(i)
        BY <3>1 DEF Waiting
      <3>3. worker' = "answering"
        BY <1>8, <2>3 DEF EndPhase
      <3> QED
        BY <1>0, <2>1, <3>2, <3>3 DEF NothingForgotten
    <2> QED
      BY <2>2, <2>3
  <1>9. CASE Answer
    BY <1>0, <1>9 DEF Answer, NothingForgotten
  <1>10. CASE StreamValue
    BY <1>0, <1>10 DEF StreamValue, NothingForgotten
  <1>11. CASE EndStream
    BY <1>0, <1>11 DEF EndStream, NothingForgotten
  <1> QED
    BY <1>1, <1>2, <1>3, <1>4, <1>5, <1>6, <1>7, <1>8, <1>9, <1>10, <1>11
       DEF Next, RunnerSteps, RunnerAlone, WorkerSteps

\* Every step keeps an accelerator's trace to that accelerator.
LEMMA HonestyKept ==
  ASSUME RequestTyped, ControlHeld, NothingForgotten, SourceHonest, [Next]_vars
  PROVE  SourceHonest'
  <1>0. /\ trace' = trace /\ Accelerated' = Accelerated
        /\ \A s : Wanted(s)' = Wanted(s)
        /\ \A i : Fed(i)' = Fed(i)
    <2>1. trace' = trace
      BY RequestKept
    <2> QED
      BY <2>1 DEF Accelerated, Wanted, Fielded, Fed, Target
  <1>1. CASE Cancel \/ EditTracer \/ RunnerAlone \/ UNCHANGED vars
    <2>1. UNCHANGED <<worker, source, records>>
      BY <1>1, RunnerLeavesWorker DEF workerVars
    <2> QED
      BY <1>0, <2>1 DEF SourceHonest
  <1>2. CASE Spawn \/ PollCancelled \/ PollOverLimit \/ WorkerDies \/ LoadTracer
    <2>1. UNCHANGED <<source, records>>
      BY <1>2, WorkerMoved
    <2>2. CASE Spawn
      BY <1>0, <2>1, <2>2 DEF Spawn, ControlHeld, SourceHonest
    <2>3. CASE ~Spawn
      <3>1. worker' \in {worker, "killed", "crashed"}
        BY <1>2, <2>3, WorkerMoved
      <3> QED
        BY <1>0, <2>1, <3>1 DEF SourceHonest
    <2> QED
      BY <2>2, <2>3
  <1>3. CASE LimitProcess
    BY <1>0, <1>3 DEF LimitProcess, SourceHonest, Accelerated
  <1>4. CASE OpenBackend
    <2>1. worker' = "phase" /\ DOMAIN records' = {} /\ source' \in OpenedSources
      BY <1>4 DEF OpenBackend, NothingForgotten
    <2>2. Accelerated => Wanted(source')
      BY <2>1, OpenedIsWanted
    <2> QED
      BY <1>0, <2>1, <2>2 DEF SourceHonest
  <1>5. CASE BeginPhase \/ Answer
    BY <1>0, <1>5 DEF BeginPhase, Answer, SourceHonest
  <1>6. CASE SkipTarget
    <2> DEFINE i == NextOf(Head(phases))
    <2>1. /\ worker = "taking" /\ worker' = "taking" /\ source' = Skipped(i)
          /\ Record(i, Dropped("ceiling", 0))
      BY <1>6 DEF SkipTarget, NextTarget
    <2> HIDE DEF i
    <2>2. \A k \in DOMAIN records' : records'[k].stored > 0 =>
                                       k \in DOMAIN records /\ records[k].stored > 0
      BY <2>1 DEF Record, Dropped
    <2>3. Accelerated => Wanted(source') /\ source'.kind = source.kind
      BY <2>1, SkippedIsHonest DEF SourceHonest
    <2> QED
      BY <1>0, <2>1, <2>2, <2>3 DEF SourceHonest
  <1>7. CASE TakeTarget
    <2> DEFINE i == NextOf(Head(phases))
    <2>1. worker = "taking" /\ worker' = "taking" /\ Head(phases) # {}
      BY <1>7 DEF TakeTarget, NextTarget
    <2>2. i \in Targets
      <3>1. Head(phases) \in SUBSET Targets
        BY <2>1, HeadTailProperties DEF NothingForgotten
      <3> QED
        BY <2>1, <3>1, NextIsOfPhase
    <2>3. PICK taken \in Takes(i) :
            /\ source' = taken.source
            /\ Record(i, WriteCapture(i, taken, Budget(Head(phases))))
      BY <1>7 DEF TakeTarget
    <2> HIDE DEF i
    <2> SUFFICES ASSUME Accelerated PROVE SourceHonest'
      BY <1>0, <2>1 DEF SourceHonest
    <2>4. Wanted(source)
      BY <2>1 DEF SourceHonest
    <2>5. /\ Wanted(taken.source) /\ taken.source.kind = source.kind
          /\ source.kind = "prefix" /\ ~Fed(i) => taken.value = FALSE
      BY <2>2, <2>4, TakenIsHonest
    <2>6. ~taken.value => WriteCapture(i, taken, Budget(Head(phases))).stored = 0
      BY DEF WriteCapture, Dropped
    <2>7. source.kind = "prefix" => \A k \in DOMAIN records' : records'[k].stored > 0 => Fed(k)
      <3> SUFFICES ASSUME source.kind = "prefix", NEW k \in DOMAIN records',
                          records'[k].stored > 0
                   PROVE  Fed(k)
        OBVIOUS
      <3>1. CASE k = i
        <4>1. records'[k] = WriteCapture(i, taken, Budget(Head(phases)))
          BY <2>3, <3>1 DEF Record
        <4> QED
          BY <2>5, <2>6, <3>1, <4>1
      <3>2. CASE k # i
        <4>1. k \in DOMAIN records /\ records'[k] = records[k]
          BY <2>3, <3>2 DEF Record
        <4> QED
          BY <4>1 DEF SourceHonest
      <3> QED
        BY <3>1, <3>2
    <2> QED
      BY <1>0, <2>1, <2>3, <2>5, <2>7 DEF SourceHonest
  <1>8. CASE EndPhase
    <2>1. /\ worker = "taking" /\ worker' \in {"phase", "answering"} /\ records' = records
          /\ source' = source \/ source' = Closed(source)
      BY <1>8 DEF EndPhase
    <2>2. Accelerated => Wanted(source') /\ source'.kind = source.kind
      BY <2>1, SourceChanges DEF SourceHonest
    <2> QED
      BY <1>0, <2>1, <2>2 DEF SourceHonest
  <1>9. CASE StreamValue \/ EndStream
    <2>1. worker = "streaming" /\ worker' \in {"streaming", "answering"}
      BY <1>9 DEF StreamValue, EndStream
    <2> QED
      BY <1>0, <2>1 DEF SourceHonest
  <1> QED
    BY <1>1, <1>2, <1>3, <1>4, <1>5, <1>6, <1>7, <1>8, <1>9
       DEF Next, RunnerSteps, RunnerAlone, WorkerSteps

------------------------------------------------------------------------------
(* Theorems. *)

\* Nothing has been staged, asked or answered at first.
LEMMA InvInit == RunnerInit => Inv
  <1> SUFFICES ASSUME RunnerInit PROVE Inv
    OBVIOUS
  <1>1. RequestTyped
    BY TraceAssumption DEF RunnerInit, WorkerInit, RequestTyped
  <1>2. ControlHeld
    BY DEF RunnerInit, WorkerInit, ControlHeld, Alive
  <1>3. NothingForgotten
    BY DEF RunnerInit, WorkerInit, NothingForgotten
  <1>4. SourceHonest
    BY DEF RunnerInit, WorkerInit, SourceHonest, NoSource
  <1>5. TracerIsApproved
    BY DEF RunnerInit, TracerIsApproved
  <1> QED
    BY <1>1, <1>2, <1>3, <1>4, <1>5 DEF Inv

\* The invariant holds of every run.
LEMMA Invariance == Spec => []Inv
  <1>1. Inv /\ [Next]_vars => Inv'
    BY RequestKept, ControlKept, ForgottenKept, HonestyKept DEF Inv
  <1> QED
    BY InvInit, <1>1, PTL DEF Spec

\* Whatever fails, whenever the user cancels and wherever the worker dies or hangs: when
\* the call of run_onnx_trace has ended no worker runs, its staging directory is the
\* committed trace or gone (or still empty), and only a worker that ended by itself with
\* every target accounted for has its captures committed.
THEOREM TracesAreWhole == Spec => []RunsLeaveWholeTraces
  <1>1. Inv => RunsLeaveWholeTraces
    BY DEF Inv, ControlHeld, Answered, RunsLeaveWholeTraces, NothingLeftBehind,
           CommittedIsWhole, Ended
  <1> QED
    BY Invariance, <1>1, PTL

\* On any machine, a trace asked of an accelerator reports that accelerator and holds no
\* value that another device computed, and the tracer that was executed is the one that
\* was approved, whenever its folder is edited.
THEOREM ReportsAreTrue == Spec => []RunAsReported
  <1>1. ASSUME Inv PROVE AcceleratorHonest
    BY <1>1 DEF Inv, SourceHonest, AcceleratorHonest, Accelerated, Wanted
  <1>2. Inv => RunAsReported
    BY <1>1 DEF Inv, RunAsReported
  <1> QED
    BY Invariance, <1>2, PTL

==============================================================================
