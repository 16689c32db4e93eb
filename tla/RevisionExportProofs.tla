------------------------- MODULE RevisionExportProofs -------------------------
(***************************************************************************)
(* What the shell's jobs do: what an export stages and publishes, what a   *)
(* trace runs on, and what the panels show of it (third part), for any     *)
(* tensors, payloads and histories of edits.                               *)
(*                                                                         *)
(* A job says what it has staged by the revision it captured; this is      *)
(* inductive for the trace, whose reader is pinned.  An export reads the   *)
(* live chain: it stages its revision only because the chain still is at   *)
(* that revision, which the disabled buttons ensure as long as no hex page *)
(* is applied and no second export is submitted under it.                  *)
(***************************************************************************)
EXTENDS RevisionExport, ExportPublish, ActivationPanels, RevisionChainTheorems,
        FiniteSetTheorems

Full(applied) == [revs |-> applied, cursor |-> Len(applied)]

\* What is staged for the tensors a job has done is what its revision holds.
StagedFrom(task) ==
  \A t \in Tensors \ task.left : task.staged[t] = PayloadAt(RevOf(task.applied), t)

\* The trace job has captured one revision: id, commands and staged bytes.
TraceCaptured ==
  trace.at = "reading" =>
    Sound(Full(trace.applied)) /\ RevOf(trace.applied) = trace.rev /\ StagedFrom(trace)

TraceInv == TypeOK /\ Sound(chain) /\ TraceCaptured /\ TraceIsKeyedRevision

\* A running export disables the buttons, and the newest keeps them so, ...
RunningLocks ==
  \A e \in Exports : Running(e) /\ ~export[e].unguarded => locked /\ e \in current

\* ... so that the chain stays at the revision that was current when it was submitted,
ChainStays ==
  \A e \in Exports :
    Running(e) /\ ~export[e].unguarded => CurrentRevisionId(chain) = export[e].rev

\* ... which is the revision it captures and stages, ...
ExportCaptured ==
  \A e \in Exports :
    export[e].at = "reading" =>
      /\ Sound(Full(export[e].applied))
      /\ ~export[e].unguarded => RevOf(export[e].applied) = export[e].rev /\ StagedFrom(export[e])

\* ... and the one that its report ends with.
ReportNamesSubmitted ==
  \A e \in Exports :
    export[e].at = "succeeded" /\ ~file[e].unguarded => file[e].rev = export[e].rev

ExportInv ==
  /\ TypeOK /\ Sound(chain) /\ RunningLocks /\ ChainStays /\ ExportCaptured
  /\ ReportNamesSubmitted /\ GuardedExportsWhole /\ SavedIsExported

-----------------------------------------------------------------------------
(* What a captured list of revisions says. *)

\* The revisions in effect are a chain of their own, at the same id.
LEMMA AppliedIsChain ==
  ASSUME NEW c, Sound(c)
  PROVE  Sound(Full(AppliedRevisions(c))) /\ RevOf(AppliedRevisions(c)) = CurrentRevisionId(c)
  <1> DEFINE a == AppliedRevisions(c)
  <1>1. /\ c.revs \in Seq(Revision) /\ c.cursor \in 0..Len(c.revs) /\ LinksHold(c.revs)
        /\ Spelled(c.revs)
    BY DEF Sound, Chain, WellLinked
  <1>2. a \in Seq(Revision) /\ Len(a) = c.cursor /\ \A i \in 1..c.cursor : a[i] = c.revs[i]
    BY AppliedIsPrefix
  <1> HIDE DEF a
  <1>3. Full(a) \in Chain /\ Full(a).cursor \in 0..Len(Full(a).revs)
    BY <1>2 DEF Full, Chain
  <1>4. DOMAIN a = 1..c.cursor /\ DOMAIN a \subseteq DOMAIN c.revs
    BY <1>1, <1>2
  <1>5. LinksHold(a)
    <2> SUFFICES ASSUME NEW i \in DOMAIN a
                 PROVE  /\ a[i].parent = ParentOf(a, i)
                        /\ a[i].id = RevisionIdFor(a[i].parent, a[i].commands)
      BY DEF LinksHold
    <2>1. ParentOf(a, i) = ParentOf(c.revs, i)
      BY <1>1, <1>2, <1>4 DEF ParentOf
    <2> QED
      BY <1>1, <1>2, <1>4, <2>1 DEF LinksHold
  <1>6. Spelled(a)
    BY <1>1, <1>2, <1>4 DEF Spelled
  <1>7. RevOf(a) = CurrentRevisionId(c)
    BY <1>1, <1>2 DEF RevOf, CurrentRevisionId
  <1> QED
    BY <1>3, <1>5, <1>6, <1>7 DEF Sound, WellLinked, Full, a

\* Its id tells what it holds.
LEMMA RevOfTells ==
  ASSUME NEW applied, Sound(Full(applied)), NEW t
  PROVE  /\ ReadAt(applied, Len(applied), t) = PayloadAt(RevOf(applied), t)
         /\ ReadAt(applied, Len(applied), t) \in Values
         /\ RevOf(applied) \in RevId
  <1>1. applied \in Seq(Revision) /\ Len(applied) \in 0..Len(applied)
    BY DEF Sound, Full, Chain
  <1>2. Read(Full(applied), t) = ReadAt(applied, Len(applied), t)
        /\ CurrentRevisionId(Full(applied)) = RevOf(applied)
    BY DEF Read, Full, RevOf
  <1> QED
    BY <1>1, <1>2, ReadTyped, CurrentIdTellsContents, CurrentIdSpelled

LEMMA RevOfTyped ==
  ASSUME NEW applied \in Seq(Revision)
  PROVE  RevOf(applied) \in RevId
  <1>1. BASE_PARENT \in RevId
    BY DEF BASE_PARENT, RevId
  <1>2. CASE Len(applied) = 0
    BY <1>1, <1>2 DEF RevOf, CurrentRevisionId
  <1>3. CASE Len(applied) # 0
    <2>1. applied[Len(applied)] \in Revision
      BY <1>3
    <2> QED
      BY <1>3, <2>1 DEF RevOf, CurrentRevisionId, Revision
  <1> QED
    BY <1>2, <1>3

\* The base.
LEMMA BaseTells ==
  ASSUME NEW t
  PROVE  PayloadAt(BASE_PARENT, t) = BaseValue
  <1>1. Writes(<<>>, 0, t) = {}
    BY DEF Writes
  <1> QED
    BY EmptySound, CurrentIdTellsContents, <1>1 DEF EmptyChain, Read, ReadAt, CurrentRevisionId

-----------------------------------------------------------------------------
(* Types. *)

LEMMA IdleTyped ==
  /\ IdleJob \in Job /\ BaseFile \in File
  /\ IdleJob.at = "idle" /\ ~BaseFile.unguarded /\ BaseFile.rev = BASE_PARENT
  /\ \A t \in Tensors : BaseFile.holds[t] = PayloadAt(BASE_PARENT, t)
  BY BaseAssumption, BaseTells
     DEF IdleJob, BaseFile, BaseContents, Job, File, Staged, BASE_PARENT, RevId

\* Reading a sound chain.
LEMMA ReadSound ==
  ASSUME NEW c, Sound(c), NEW t
  PROVE  Read(c, t) \in Values /\ Read(c, t) = PayloadAt(CurrentRevisionId(c), t)
  BY ReadTyped, CurrentIdTellsContents DEF Sound, Chain, WellLinked, Read

\* A job that begins captures one revision, and has staged what it does not read.
LEMMA StagingCaptures ==
  ASSUME NEW task \in Job, Sound(chain)
  PROVE  LET began == Staging(task, AppliedRevisions(chain)) IN
         /\ began \in Job
         /\ began.at = "reading" /\ began.rev = task.rev /\ began.unguarded = task.unguarded
         /\ Sound(Full(began.applied))
         /\ RevOf(began.applied) = CurrentRevisionId(chain)
         /\ StagedFrom(began)
  <1> DEFINE a == AppliedRevisions(chain)
             began == Staging(task, a)
  <1>1. a \in Seq(Revision) /\ Sound(Full(a)) /\ RevOf(a) = CurrentRevisionId(chain)
    BY AppliedIsPrefix, AppliedIsChain
  <1>2. \A t : /\ ReadAt(a, Len(a), t) = PayloadAt(RevOf(a), t)
               /\ ReadAt(a, Len(a), t) \in Values
    BY <1>1, RevOfTells
  <1> HIDE DEF a
  <1>3. /\ began.at = "reading" /\ began.applied = a /\ began.rev = task.rev
        /\ began.unguarded = task.unguarded /\ began.left = Rewritten(a) \cap Embedded
        /\ began.staged = [t \in Tensors |-> IF t \in Embedded THEN BaseValue
                                             ELSE ReadAt(a, Len(a), t)]
    BY DEF Staging, Job
  <1>4. began \in Job
    <2> DEFINE holds == [t \in Tensors |-> IF t \in Embedded THEN BaseValue
                                           ELSE ReadAt(a, Len(a), t)]
               open  == Rewritten(a) \cap Embedded
    <2>1. holds \in Staged
      BY <1>2, BaseAssumption DEF Staged
    <2>2. open \in SUBSET Tensors
      BY DEF Rewritten
    <2>3. began = [task EXCEPT !.at = "reading", !.applied = a, !.left = open, !.staged = holds]
      BY DEF Staging
    <2> HIDE DEF holds, open, began
    <2> QED
      BY <1>1, <2>1, <2>2, <2>3 DEF Job
  <1>5. StagedFrom(began)
    <2> SUFFICES ASSUME NEW t \in Tensors \ began.left
                 PROVE  began.staged[t] = PayloadAt(RevOf(a), t)
      BY <1>3 DEF StagedFrom
    <2>1. CASE t \notin Embedded
      BY <1>2, <1>3, <2>1
    <2>2. CASE t \in Embedded
      <3>1. Writes(a, Len(a), t) = {}
        BY <1>3, <2>2 DEF Rewritten
      <3> QED
        BY <1>2, <1>3, <2>2, <3>1 DEF ReadAt
    <2> QED
      BY <2>1, <2>2
  <1> QED
    BY <1>1, <1>3, <1>4, <1>5 DEF a

\* One more tensor is staged.
LEMMA ReadStages ==
  ASSUME NEW task \in Job, NEW t \in task.left, NEW v \in Values,
         NEW next, next = StageOne(task, t, v)
  PROVE  /\ next \in Job
         /\ next.at = task.at /\ next.rev = task.rev /\ next.applied = task.applied
         /\ next.unguarded = task.unguarded
         /\ StagedFrom(task) /\ v = PayloadAt(RevOf(task.applied), t) => StagedFrom(next)
  <1>1. t \in Tensors /\ task.staged \in Staged
    BY DEF Job
  <1>2. /\ next.left = task.left \ {t} /\ next.staged = [task.staged EXCEPT ![t] = v]
        /\ next.at = task.at /\ next.rev = task.rev /\ next.applied = task.applied
        /\ next.unguarded = task.unguarded
    BY DEF Job, StageOne
  <1>3. next \in Job
    BY <1>1 DEF Job, Staged, StageOne
  <1>4. ASSUME StagedFrom(task), v = PayloadAt(RevOf(task.applied), t)
        PROVE  StagedFrom(next)
    BY <1>1, <1>2, <1>4 DEF StagedFrom, Staged
  <1> QED
    BY <1>2, <1>3, <1>4

\* Every edit leaves a sound chain.
LEMMA EditsSound ==
  ASSUME Sound(chain)
  PROVE  /\ \A c \in SomeEdit(chain) : Sound(c)
         /\ CanUndo(chain) => Sound(StepBack(chain))
         /\ CanRedo(chain) => Sound(StepForward(chain))
  <1>1. ASSUME NEW t \in Tensors, NEW v \in Values
        PROVE  Sound(Extend(chain, <<[tensor |-> t, before |-> Read(chain, t), after |-> v]>>))
    <2>1. <<[tensor |-> t, before |-> Read(chain, t), after |-> v]>> \in Batch
      BY ReadSound DEF Batch, Command
    <2> QED
      BY <2>1, ExtendSound
  <1>2. ASSUME NEW c \in SomeEdit(chain) PROVE Sound(c)
    <2>1. PICK t \in Tensors, v \in Values :
            c = Extend(chain, <<[tensor |-> t, before |-> Read(chain, t), after |-> v]>>)
      BY DEF SomeEdit
    <2> QED
      BY <1>1, <2>1
  <1> QED
    BY <1>2, StepsSound

-----------------------------------------------------------------------------
(* The trace.  No step of an export or of the user touches its job.          *)

\* What is noted of a job that loses its guard changes nothing else of it.
LEMMA UnguardedTyped ==
  ASSUME TypeOK, NEW e \in Exports
  PROVE  /\ Unguarded(e) \in Job
         /\ Unguarded(e).at = export[e].at /\ Unguarded(e).rev = export[e].rev
         /\ Unguarded(e).applied = export[e].applied /\ Unguarded(e).left = export[e].left
         /\ Unguarded(e).staged = export[e].staged
         /\ Unguarded(e).unguarded = (export[e].unguarded \/ Running(e))
  BY DEF TypeOK, Job, Running, Unguarded

\* Types, for the steps of both.
LEMMA EditsTyped ==
  ASSUME TypeOK, Sound(chain), CommitEdit \/ HexApply \/ UndoEdit \/ RedoEdit
  PROVE  TypeOK' /\ Sound(chain') /\ UNCHANGED <<trace, models, file, saved, savedAs, current>>
  <1>1. Exporting \in BOOLEAN
    BY DEF Exporting
  <1>2. Sound(chain')
    BY EditsSound DEF CommitEdit, HexApply, UndoEdit, RedoEdit, Edited
  <1>3. UNCHANGED <<trace, models, file, saved, savedAs, current>>
    BY DEF CommitEdit, HexApply, UndoEdit, RedoEdit, Edited
  <1>4. locked' \in BOOLEAN
    BY <1>1 DEF CommitEdit, HexApply, UndoEdit, RedoEdit, Edited, TypeOK
  <1>5. export' \in [Exports -> Job]
    <2>1. CASE HexApply
      BY <2>1, UnguardedTyped DEF HexApply
    <2>2. CASE ~HexApply
      BY <2>2 DEF CommitEdit, UndoEdit, RedoEdit, Edited, TypeOK
    <2> QED
      BY <2>1, <2>2
  <1>6. chain' \in Chain
    BY <1>2 DEF Sound
  <1> QED
    BY <1>2, <1>3, <1>4, <1>5, <1>6 DEF TypeOK

\* A submitted export, and what it makes of the others.
SubmittedJob(e) == [export[e] EXCEPT !.at = "submitted", !.rev = CurrentRevisionId(chain)]

LEMMA SubmitTyped ==
  ASSUME TypeOK, Sound(chain), NEW e \in Exports, SubmitExport(e)
  PROVE  /\ export' \in [Exports -> Job]
         /\ export'[e].at = "submitted" /\ export'[e].rev = CurrentRevisionId(chain)
         /\ \A d \in Exports \ {e} : export'[d] = Unguarded(d)
  <1>1. export' = [d \in Exports |-> IF d = e THEN SubmittedJob(e) ELSE Unguarded(d)]
    BY DEF SubmitExport, SubmittedJob
  <1>2. /\ SubmittedJob(e) \in Job /\ SubmittedJob(e).at = "submitted"
        /\ SubmittedJob(e).rev = CurrentRevisionId(chain)
    BY CurrentIdSpelled DEF TypeOK, Job, SubmittedJob
  <1> QED
    BY <1>1, <1>2, UnguardedTyped

LEMMA ExportTyped ==
  ASSUME TypeOK, Sound(chain), NEW e \in Exports, Export(e)
  PROVE  TypeOK' /\ UNCHANGED <<chain, trace, models>>
  <1>1. CurrentRevisionId(chain) \in RevId
    BY CurrentIdSpelled
  <1>2. UNCHANGED <<chain, trace, models>>
    BY DEF Export, OpenDialog, SubmitExport, DismissDialog, StartExport, ReadForExport,
           PublishExport, AbandonExport, FinishExport, Finishing, exportOnly
  <1>3. CASE SubmitExport(e)
    <2>1. export' \in [Exports -> Job]
      BY <1>3, SubmitTyped
    <2> QED
      BY <1>2, <1>3, <2>1 DEF SubmitExport, exportOnly, TypeOK
  <1>8. CASE OpenDialog(e) \/ DismissDialog(e) \/ AbandonExport(e)
    <2>1. PICK j \in Job : export' = [export EXCEPT ![e] = j]
      <3>1. CASE OpenDialog(e)
        BY <3>1, IdleTyped DEF OpenDialog, Job
      <3>2. CASE DismissDialog(e)
        BY <3>2, IdleTyped DEF DismissDialog
      <3>3. CASE AbandonExport(e)
        BY <3>3, IdleTyped DEF AbandonExport, Job
      <3> QED
        BY <1>8, <3>1, <3>2, <3>3
    <2>2. export' \in [Exports -> Job]
      BY <2>1 DEF TypeOK
    <2> QED
      BY <1>8, <2>2 DEF OpenDialog, DismissDialog, AbandonExport, exportOnly, TypeOK
  <1>4. CASE StartExport(e)
    <2>1. export[e] \in Job
      BY DEF TypeOK
    <2>2. Staging(export[e], AppliedRevisions(chain)) \in Job
      BY <2>1, StagingCaptures
    <2>3. export' = [export EXCEPT ![e] = Staging(export[e], AppliedRevisions(chain))]
      BY <1>4 DEF StartExport
    <2>4. export' \in [Exports -> Job]
      BY <2>2, <2>3 DEF TypeOK
    <2> QED
      BY <1>4, <2>4 DEF StartExport, exportOnly, TypeOK
  <1>5. CASE \E t \in Tensors : ReadForExport(e, t)
    <2>1. PICK t \in Tensors : ReadForExport(e, t)
      BY <1>5
    <2>2. export[e] \in Job /\ t \in export[e].left /\ Read(chain, t) \in Values
      BY <2>1, ReadSound DEF ReadForExport, TypeOK
    <2> DEFINE next == StageOne(export[e], t, Read(chain, t))
    <2>3. export' = [export EXCEPT ![e] = next]
      BY <2>1 DEF ReadForExport
    <2>4. next \in Job
      BY <2>2, ReadStages
    <2> HIDE DEF next
    <2>6. export' \in [Exports -> Job]
      BY <2>3, <2>4 DEF TypeOK
    <2> QED
      BY <2>1, <2>6 DEF ReadForExport, exportOnly, TypeOK
  <1>6. CASE PublishExport(e)
    <2>1. export[e] \in Job
      BY DEF TypeOK
    <2>2. export' \in [Exports -> Job]
      <3>1. [IdleJob EXCEPT !.at = "succeeded", !.rev = export[e].rev] \in Job
        BY <2>1, IdleTyped DEF Job
      <3> QED
        BY <1>6, <3>1 DEF PublishExport, TypeOK
    <2>3. RevOf(export[e].applied) \in RevId
      BY <2>1, RevOfTyped DEF Job
    <2>4. [rev |-> RevOf(export[e].applied), holds |-> export[e].staged,
           unguarded |-> export[e].unguarded] \in File
      BY <2>1, <2>3 DEF Job, File
    <2> QED
      BY <1>6, <2>2, <2>4 DEF PublishExport, TypeOK
  <1>7. CASE FinishExport(e)
    <2>1. export' = [export EXCEPT ![e] = IdleJob] /\ current' = current \ {e}
          /\ locked' \in BOOLEAN /\ file' = [file EXCEPT ![e] = BaseFile]
      BY <1>7 DEF FinishExport, Finishing
    <2>2. saved' \in RevId /\ savedAs' \in File
      BY <1>7 DEF FinishExport, TypeOK, Job
    <2> QED
      BY <1>2, <2>1, <2>2, IdleTyped DEF TypeOK
  <1> QED
    BY <1>2, <1>3, <1>4, <1>5, <1>6, <1>7, <1>8 DEF Export

\* A step of the trace.
TraceStep == StartTrace \/ RunTrace \/ AbandonTrace \/ \E t \in Tensors : ReadForTrace(t)

LEMMA TraceKeeps ==
  ASSUME TraceInv, TraceStep
  PROVE  TraceInv' /\ UNCHANGED traceOnly
  <1>1. UNCHANGED traceOnly
    BY DEF TraceStep, StartTrace, RunTrace, AbandonTrace, ReadForTrace
  <1>2. trace \in Job
    BY DEF TraceInv, TypeOK
  <1>3. CASE StartTrace
    <2> DEFINE task == [IdleJob EXCEPT !.rev = CurrentRevisionId(chain)]
               began == Staging(task, AppliedRevisions(chain))
    <2>1. task \in Job /\ task.rev = CurrentRevisionId(chain)
      BY IdleTyped, CurrentIdSpelled DEF TraceInv, Job
    <2>2. trace' = began /\ models' = {}
      BY <1>3 DEF StartTrace
    <2> HIDE DEF task
    <2>3. /\ began \in Job /\ began.rev = CurrentRevisionId(chain)
          /\ Sound(Full(began.applied)) /\ RevOf(began.applied) = CurrentRevisionId(chain)
          /\ StagedFrom(began)
      BY <2>1, StagingCaptures DEF TraceInv
    <2> HIDE DEF began
    <2>4. TraceCaptured'
      BY <1>1, <2>2, <2>3 DEF TraceCaptured, StagedFrom
    <2> QED
      BY <1>1, <2>2, <2>3, <2>4 DEF TraceInv, TypeOK, TraceIsKeyedRevision, traceOnly
  <1>4. CASE \E t \in Tensors : ReadForTrace(t)
    <2>1. PICK t \in Tensors : ReadForTrace(t)
      BY <1>4
    <2> DEFINE v    == ReadAt(trace.applied, Len(trace.applied), t)
               next == StageOne(trace, t, v)
    <2>2. trace' = next /\ models' = models /\ trace.at = "reading" /\ t \in trace.left
      BY <2>1 DEF ReadForTrace
    <2>3. /\ Sound(Full(trace.applied)) /\ RevOf(trace.applied) = trace.rev
          /\ StagedFrom(trace)
      BY <2>2 DEF TraceInv, TraceCaptured
    <2>4. v \in Values /\ v = PayloadAt(RevOf(trace.applied), t)
      BY <2>3, RevOfTells
    <2> HIDE DEF v
    <2>5. /\ next \in Job /\ next.rev = trace.rev /\ next.applied = trace.applied
          /\ StagedFrom(next)
      BY <1>2, <2>2, <2>3, <2>4, ReadStages
    <2> HIDE DEF next
    <2>6. TraceCaptured'
      BY <2>2, <2>3, <2>5 DEF TraceCaptured, StagedFrom
    <2> QED
      BY <1>1, <2>2, <2>5, <2>6 DEF TraceInv, TypeOK, TraceIsKeyedRevision, traceOnly
  <1>5. CASE RunTrace
    <2> DEFINE m == [rev |-> trace.rev, holds |-> trace.staged]
    <2>1. /\ trace.at = "reading" /\ trace.left = {} /\ trace' = IdleJob
          /\ models' = {m}
      BY <1>5 DEF RunTrace
    <2>2. m \in [rev : RevId, holds : Staged]
      BY <1>2 DEF Job
    <2>3. m.holds = ContentsAt(m.rev)
      <3>1. \A t \in Tensors : trace.staged[t] = PayloadAt(trace.rev, t)
        BY <2>1 DEF TraceInv, TraceCaptured, StagedFrom
      <3> QED
        BY <1>2, <3>1 DEF ContentsAt, Job, Staged
    <2>4. TypeOK' /\ TraceIsKeyedRevision'
      <3> HIDE DEF m
      <3> QED
        BY <1>1, <2>1, <2>2, <2>3, IdleTyped DEF TraceInv, TypeOK, TraceIsKeyedRevision, traceOnly
    <2> QED
      BY <1>1, <2>1, <2>4, IdleTyped DEF TraceInv, TraceCaptured, traceOnly
  <1>6. CASE AbandonTrace
    BY <1>1, <1>6, IdleTyped
       DEF AbandonTrace, TraceInv, TypeOK, TraceCaptured, TraceIsKeyedRevision, traceOnly
  <1> QED
    BY <1>1, <1>3, <1>4, <1>5, <1>6 DEF TraceStep

\* Its types alone, which need less.
LEMMA TraceTyped ==
  ASSUME TypeOK, Sound(chain), TraceStep
  PROVE  trace' \in Job /\ \A m \in models' : m \in [rev : RevId, holds : Staged]
  <1>1. trace \in Job
    BY DEF TypeOK
  <1>2. CASE StartTrace
    <2>1. [IdleJob EXCEPT !.rev = CurrentRevisionId(chain)] \in Job
      BY IdleTyped, CurrentIdSpelled DEF Job
    <2> QED
      BY <1>2, <2>1, StagingCaptures DEF StartTrace, TypeOK
  <1>3. CASE \E t \in Tensors : ReadForTrace(t)
    <2>1. PICK t \in Tensors : ReadForTrace(t)
      BY <1>3
    <2> DEFINE v == ReadAt(trace.applied, Len(trace.applied), t)
    <2>2. trace' = StageOne(trace, t, v) /\ t \in trace.left /\ models' = models
      BY <2>1 DEF ReadForTrace
    <2>3. v \in Values
      <3>1. trace.applied \in Seq(Revision) /\ Len(trace.applied) \in 0..Len(trace.applied)
        BY <1>1 DEF Job
      <3> QED
        BY <3>1, ReadTyped
    <2> HIDE DEF v
    <2> QED
      BY <1>1, <2>2, <2>3, ReadStages DEF TypeOK
  <1>4. CASE RunTrace \/ AbandonTrace
    BY <1>1, <1>4, IdleTyped DEF RunTrace, AbandonTrace, TypeOK, Job
  <1> QED
    BY <1>2, <1>3, <1>4 DEF TraceStep

\* What the runs start with.
LEMMA InitSound ==
  ASSUME Init
  PROVE  TraceInv /\ ExportInv
  <1>1. TypeOK /\ Sound(chain)
    <2>1. Sound(chain) /\ chain \in Chain
      BY EmptySound DEF Init, Sound
    <2>2. BASE_PARENT \in RevId
      BY DEF BASE_PARENT, RevId
    <2> QED
      BY <2>1, <2>2, IdleTyped DEF Init, TypeOK
  <1>2. TraceCaptured /\ TraceIsKeyedRevision
    BY IdleTyped DEF Init, TraceCaptured, TraceIsKeyedRevision
  <1>3. RunningLocks /\ ChainStays /\ ExportCaptured /\ ReportNamesSubmitted
    BY IdleTyped DEF Init, Running, RunningLocks, ChainStays, ExportCaptured, ReportNamesSubmitted
  <1>4. BaseFile.holds = ContentsAt(BASE_PARENT)
    BY IdleTyped DEF BaseFile, BaseContents, ContentsAt
  <1>5. GuardedExportsWhole /\ SavedIsExported
    BY <1>4, IdleTyped DEF Init, GuardedExportsWhole, SavedIsExported
  <1> QED
    BY <1>1, <1>2, <1>3, <1>5 DEF TraceInv, ExportInv

\* The model a trace runs on is the revision the trace is keyed by.  Every variable keeps
\* its type on the way.
THEOREM TracesRunTheirRevision == Spec => [](TypeOK /\ TraceIsKeyedRevision)
  <1>1. Init => TraceInv
    BY InitSound
  <1>2. TraceInv /\ [Next]_vars => TraceInv'
    <2> SUFFICES ASSUME TraceInv, [Next]_vars PROVE TraceInv'
      OBVIOUS
    <2>1. CASE CommitEdit \/ HexApply \/ UndoEdit \/ RedoEdit
      BY <2>1, EditsTyped DEF TraceInv, TraceCaptured, TraceIsKeyedRevision
    <2>2. CASE \E e \in Exports : Export(e)
      BY <2>2, ExportTyped DEF TraceInv, TraceCaptured, TraceIsKeyedRevision
    <2>3. CASE TraceStep
      BY <2>3, TraceKeeps
    <2>4. CASE UNCHANGED vars
      BY <2>4 DEF vars, TraceInv, TypeOK, TraceCaptured, TraceIsKeyedRevision
    <2> QED
      BY <2>1, <2>2, <2>3, <2>4 DEF Next, TraceStep
  <1>3. TraceInv => TypeOK /\ TraceIsKeyedRevision
    BY DEF TraceInv
  <1> QED
    BY <1>1, <1>2, <1>3, PTL DEF Spec

-----------------------------------------------------------------------------
(* The export. *)

\* The user's edits: none but a hex page under an export that is guarded.
LEMMA EditsKeep ==
  ASSUME ExportInv, CommitEdit \/ HexApply \/ UndoEdit \/ RedoEdit
  PROVE  ExportInv'
  <1>1. TypeOK' /\ Sound(chain') /\ UNCHANGED <<file, saved, savedAs, current>>
    BY EditsTyped DEF ExportInv
  <1>2. GuardedExportsWhole' /\ SavedIsExported'
    BY <1>1 DEF ExportInv, GuardedExportsWhole, SavedIsExported
  <1>3. CASE HexApply
    <2>2. ASSUME NEW e \in Exports
          PROVE  /\ export'[e].at = export[e].at /\ export'[e].rev = export[e].rev
                 /\ export'[e].applied = export[e].applied
                 /\ Running(e) => export'[e].unguarded
                 /\ Running(e)' = Running(e)
      <3>1. export'[e] = Unguarded(e)
        BY <1>3 DEF HexApply
      <3> QED
        BY <3>1, UnguardedTyped DEF ExportInv, Running
    <2>3. RunningLocks'
      BY <2>2 DEF RunningLocks
    <2>4. ChainStays'
      BY <2>2 DEF ChainStays
    <2>5. ExportCaptured'
      BY <2>2 DEF ExportInv, ExportCaptured, Running
    <2>6. ReportNamesSubmitted'
      BY <1>1, <2>2 DEF ExportInv, ReportNamesSubmitted
    <2> QED
      BY <1>1, <1>2, <2>3, <2>4, <2>5, <2>6 DEF ExportInv
  <1>4. CASE ~HexApply
    <2>1. ~locked /\ export' = export
      BY <1>4 DEF CommitEdit, UndoEdit, RedoEdit, Edited
    <2>2. \A e \in Exports : Running(e) => export[e].unguarded
      BY <2>1 DEF ExportInv, RunningLocks
    <2>3. RunningLocks' /\ ChainStays'
      BY <2>1, <2>2 DEF RunningLocks, ChainStays, Running
    <2>4. ExportCaptured' /\ ReportNamesSubmitted'
      BY <1>1, <2>1 DEF ExportInv, ExportCaptured, ReportNamesSubmitted, Running
    <2> QED
      BY <1>1, <1>2, <2>3, <2>4 DEF ExportInv
  <1> QED
    BY <1>3, <1>4

\* What is said of each export, and the part of it that its buttons guard.
Guarded(e) ==
  Running(e) /\ ~export[e].unguarded =>
    locked /\ e \in current /\ CurrentRevisionId(chain) = export[e].rev

Captured(e) ==
  export[e].at = "reading" =>
    /\ Sound(Full(export[e].applied))
    /\ ~export[e].unguarded => RevOf(export[e].applied) = export[e].rev /\ StagedFrom(export[e])

Published(e) ==
  /\ export[e].at = "succeeded" /\ ~file[e].unguarded => file[e].rev = export[e].rev
  /\ ~file[e].unguarded => file[e].holds = ContentsAt(file[e].rev)

LEMMA ExportInvTells ==
  ASSUME ExportInv
  PROVE  \A e \in Exports : Guarded(e) /\ Captured(e) /\ Published(e)
  BY DEF ExportInv, RunningLocks, ChainStays, ExportCaptured, ReportNamesSubmitted,
         GuardedExportsWhole, Guarded, Captured, Published

LEMMA ExportInvByExport ==
  ASSUME TypeOK', Sound(chain'), SavedIsExported',
         \A e \in Exports : Guarded(e)' /\ Captured(e)' /\ Published(e)'
  PROVE  ExportInv'
  BY DEF ExportInv, RunningLocks, ChainStays, ExportCaptured, ReportNamesSubmitted,
         GuardedExportsWhole, Guarded, Captured, Published

\* The steps of an export; they leave the others alone, but for the one that takes the
\* place of a running one.
LEMMA ExportKeeps ==
  ASSUME ExportInv, NEW e \in Exports, Export(e)
  PROVE  ExportInv'
  <1>1. TypeOK' /\ UNCHANGED chain /\ Sound(chain')
    BY ExportTyped DEF ExportInv
  <1>2. export[e] \in Job /\ export \in [Exports -> Job] /\ file \in [Exports -> File]
    BY DEF ExportInv, TypeOK
  <1>3. /\ \A d \in Exports : Guarded(d) /\ Captured(d) /\ Published(d)
        /\ Sound(chain) /\ SavedIsExported
    BY ExportInvTells DEF ExportInv
  <1>4. ASSUME NEW d \in Exports, export'[d] = export[d], file'[d] = file[d]
        PROVE  Captured(d)' /\ Published(d)'
    BY <1>3, <1>4 DEF Captured, Published, StagedFrom
  <1>5. ASSUME NEW d \in Exports, export'[d] = export[d], locked' = locked, current' = current
        PROVE  Guarded(d)'
    BY <1>1, <1>3, <1>5 DEF Guarded, Running
  <1>6. CASE OpenDialog(e) \/ DismissDialog(e) \/ AbandonExport(e)
    <2>1. /\ export'[e].at \in {"dialog", "idle", "ended"}
          /\ \A d \in Exports \ {e} : export'[d] = export[d]
          /\ UNCHANGED <<file, saved, savedAs, locked, current>>
      BY <1>2, <1>6, IdleTyped DEF OpenDialog, DismissDialog, AbandonExport, exportOnly, Job
    <2>2. Guarded(e)' /\ Captured(e)' /\ Published(e)'
      BY <1>3, <2>1 DEF Guarded, Captured, Published, Running
    <2>3. SavedIsExported'
      BY <1>3, <2>1 DEF SavedIsExported
    <2> QED
      BY <1>1, <1>4, <1>5, <2>1, <2>2, <2>3, ExportInvByExport
  <1>7. CASE SubmitExport(e)
    <2>1. /\ export'[e].at = "submitted" /\ export'[e].rev = CurrentRevisionId(chain)
          /\ \A d \in Exports \ {e} : export'[d] = Unguarded(d)
          /\ locked' /\ current' = {e} /\ UNCHANGED <<file, saved, savedAs>>
      <3>1. locked' /\ current' = {e} /\ UNCHANGED <<file, saved, savedAs>>
        BY <1>7 DEF SubmitExport, exportOnly
      <3>2. TypeOK /\ Sound(chain)
        BY DEF ExportInv
      <3> QED
        BY <1>7, <3>1, <3>2, SubmitTyped
    <2>2. Guarded(e)' /\ Captured(e)' /\ Published(e)'
      BY <1>1, <1>3, <2>1 DEF Guarded, Captured, Published, Running
    <2>3. ASSUME NEW d \in Exports \ {e} PROVE Guarded(d)' /\ Captured(d)' /\ Published(d)'
      <3>1. /\ export'[d].at = export[d].at /\ export'[d].rev = export[d].rev
            /\ export'[d].applied = export[d].applied /\ export'[d].left = export[d].left
            /\ export'[d].staged = export[d].staged
            /\ export'[d].unguarded = (export[d].unguarded \/ Running(d))
        BY <2>1, UnguardedTyped DEF ExportInv
      <3>2. Guarded(d)' /\ Published(d)'
        BY <1>3, <2>1, <3>1 DEF Guarded, Published, Running
      <3>3. Captured(d)'
        BY <1>3, <3>1 DEF Captured, Running, StagedFrom
      <3> QED
        BY <3>2, <3>3
    <2>4. SavedIsExported'
      BY <1>3, <2>1 DEF SavedIsExported
    <2> QED
      BY <1>1, <2>2, <2>3, <2>4, ExportInvByExport
  <1>8. CASE StartExport(e)
    <2> DEFINE began == Staging(export[e], AppliedRevisions(chain))
    <2>1. /\ export' = [export EXCEPT ![e] = began] /\ export[e].at = "submitted"
          /\ UNCHANGED <<file, saved, savedAs, locked, current>>
      BY <1>8 DEF StartExport, exportOnly
    <2>2. /\ began.at = "reading" /\ began.rev = export[e].rev
          /\ began.unguarded = export[e].unguarded
          /\ Sound(Full(began.applied)) /\ RevOf(began.applied) = CurrentRevisionId(chain)
          /\ StagedFrom(began)
      BY <1>2, StagingCaptures DEF ExportInv
    <2> HIDE DEF began
    <2>3. export'[e] = began /\ \A d \in Exports \ {e} : export'[d] = export[d]
      BY <1>2, <2>1
    <2>4. Guarded(e)' /\ Published(e)'
      BY <1>1, <1>3, <2>1, <2>2, <2>3 DEF Guarded, Published, Running
    <2>5. Captured(e)'
      BY <1>3, <2>1, <2>2, <2>3 DEF Captured, Guarded, Running, StagedFrom
    <2>6. SavedIsExported'
      BY <1>3, <2>1 DEF SavedIsExported
    <2> QED
      BY <1>1, <1>4, <1>5, <2>1, <2>3, <2>4, <2>5, <2>6, ExportInvByExport
  <1>9. CASE \E t \in Tensors : ReadForExport(e, t)
    <2>1. PICK t \in Tensors : ReadForExport(e, t)
      BY <1>9
    <2> DEFINE v    == Read(chain, t)
               next == StageOne(export[e], t, v)
    <2>2. /\ export' = [export EXCEPT ![e] = next] /\ export[e].at = "reading"
          /\ t \in export[e].left /\ UNCHANGED <<file, saved, savedAs, locked, current>>
      BY <2>1 DEF ReadForExport, exportOnly
    <2>3. v \in Values /\ v = PayloadAt(CurrentRevisionId(chain), t)
      BY ReadSound DEF ExportInv
    <2> HIDE DEF v
    <2>4. /\ next.at = "reading" /\ next.rev = export[e].rev
          /\ next.applied = export[e].applied /\ next.unguarded = export[e].unguarded
          /\ StagedFrom(export[e]) /\ v = PayloadAt(RevOf(export[e].applied), t)
               => StagedFrom(next)
      BY <1>2, <2>2, <2>3, ReadStages
    <2> HIDE DEF next
    <2>5. export'[e] = next /\ Running(e) /\ \A d \in Exports \ {e} : export'[d] = export[d]
      BY <1>2, <2>2 DEF Running
    <2>6. Guarded(e)' /\ Published(e)'
      BY <1>1, <1>3, <2>2, <2>4, <2>5 DEF Guarded, Published, Running
    <2>7. /\ Sound(Full(next.applied))
          /\ ~next.unguarded => RevOf(next.applied) = next.rev /\ StagedFrom(next)
      BY <1>3, <2>2, <2>3, <2>4, <2>5 DEF Captured, Guarded
    <2>8. Captured(e)'
      BY <2>5, <2>7 DEF Captured, StagedFrom
    <2>9. SavedIsExported'
      BY <1>3, <2>2 DEF SavedIsExported
    <2> QED
      BY <1>1, <1>4, <1>5, <2>2, <2>5, <2>6, <2>8, <2>9, ExportInvByExport
  <1>10. CASE PublishExport(e)
    <2>1. /\ export[e].at = "reading" /\ export[e].left = {}
          /\ export'[e].at = "succeeded" /\ export'[e].rev = export[e].rev
          /\ file'[e].rev = RevOf(export[e].applied) /\ file'[e].holds = export[e].staged
          /\ file'[e].unguarded = export[e].unguarded
          /\ \A d \in Exports \ {e} : export'[d] = export[d] /\ file'[d] = file[d]
          /\ UNCHANGED <<saved, savedAs, locked, current>>
      BY <1>2, <1>10, IdleTyped DEF PublishExport, Job
    <2>2. ~export[e].unguarded =>
            /\ RevOf(export[e].applied) = export[e].rev
            /\ export[e].staged = ContentsAt(export[e].rev)
      <3> SUFFICES ASSUME ~export[e].unguarded
                   PROVE  /\ RevOf(export[e].applied) = export[e].rev
                          /\ export[e].staged = ContentsAt(export[e].rev)
        OBVIOUS
      <3>1. /\ RevOf(export[e].applied) = export[e].rev
            /\ \A t \in Tensors : export[e].staged[t] = PayloadAt(export[e].rev, t)
        BY <1>3, <2>1 DEF Captured, StagedFrom
      <3> QED
        BY <1>2, <3>1 DEF ContentsAt, Job, Staged
    <2>3. Guarded(e)' /\ Captured(e)' /\ Published(e)'
      BY <2>1, <2>2 DEF Guarded, Captured, Published, Running
    <2>4. SavedIsExported'
      BY <1>3, <2>1 DEF SavedIsExported
    <2> QED
      BY <1>1, <1>4, <1>5, <2>1, <2>3, <2>4, ExportInvByExport
  <1>11. CASE FinishExport(e)
    <2>1. /\ export'[e] = IdleJob /\ file'[e] = BaseFile
          /\ \A d \in Exports \ {e} : export'[d] = export[d] /\ file'[d] = file[d]
          /\ current' = current \ {e} /\ locked' = \E d \in current' : Running(d)
      BY <1>2, <1>11 DEF FinishExport, Finishing
    <2>2. BaseFile.holds = ContentsAt(BaseFile.rev)
      BY IdleTyped DEF BaseFile, BaseContents, ContentsAt
    <2>3. Guarded(e)' /\ Captured(e)' /\ Published(e)'
      BY <2>1, <2>2, IdleTyped DEF Guarded, Captured, Published, Running
    <2>4. ASSUME NEW d \in Exports \ {e} PROVE Guarded(d)'
      BY <1>1, <1>3, <2>1 DEF Guarded, Running
    <2>5. SavedIsExported'
      <3>1. CASE export[e].at = "succeeded" /\ CurrentRevisionId(chain) = export[e].rev
        <4>1. saved' = export[e].rev /\ savedAs' = file[e]
          BY <1>11, <3>1 DEF FinishExport
        <4> QED
          BY <1>3, <3>1, <4>1 DEF Published, SavedIsExported
      <3>2. CASE ~(export[e].at = "succeeded" /\ CurrentRevisionId(chain) = export[e].rev)
        BY <1>3, <1>11, <3>2 DEF FinishExport, SavedIsExported
      <3> QED
        BY <3>1, <3>2
    <2> QED
      BY <1>1, <1>4, <2>1, <2>3, <2>4, <2>5, ExportInvByExport
  <1> QED
    BY <1>6, <1>7, <1>8, <1>9, <1>10, <1>11 DEF Export

\* However many dialogs and exports the user opens: the file is the revision its report
\* ends with and the mark "saved" stands at the revision that file holds, unless a hex page
\* was applied or another export submitted while the export ran.
THEOREM ExportsAreSound == Spec => []ExportSound
  <1>1. Init => ExportInv
    BY InitSound
  <1>2. ExportInv /\ [Next]_vars => ExportInv'
    <2> SUFFICES ASSUME ExportInv, [Next]_vars PROVE ExportInv'
      OBVIOUS
    <2>1. CASE CommitEdit \/ HexApply \/ UndoEdit \/ RedoEdit
      BY <2>1, EditsKeep
    <2>2. CASE \E e \in Exports : Export(e)
      BY <2>2, ExportKeeps
    <2>3. CASE TraceStep
      <3>1. UNCHANGED traceOnly
        BY <2>3 DEF TraceStep, StartTrace, RunTrace, AbandonTrace, ReadForTrace
      <3>2. trace' \in Job /\ \A m \in models' : m \in [rev : RevId, holds : Staged]
        BY <2>3, TraceTyped DEF ExportInv
      <3> QED
        BY <3>1, <3>2
           DEF traceOnly, ExportInv, TypeOK, RunningLocks, ChainStays, ExportCaptured,
               ReportNamesSubmitted, GuardedExportsWhole, SavedIsExported, Running
    <2>4. CASE UNCHANGED vars
      BY <2>4
         DEF vars, ExportInv, TypeOK, RunningLocks, ChainStays, ExportCaptured,
             ReportNamesSubmitted, GuardedExportsWhole, SavedIsExported, Running
    <2> QED
      BY <2>1, <2>2, <2>3, <2>4 DEF Next, TraceStep
  <1>3. ExportInv => ExportSound
    BY DEF ExportInv, ExportSound
  <1> QED
    BY <1>1, <1>2, <1>3, PTL DEF Spec

-----------------------------------------------------------------------------
(* The directory: what _publish guarantees for any number of payload files   *)
(* and of exports to one destination, whichever step fails and whoever else  *)
(* writes there.  The invariant says which targets an export may hold, and   *)
(* that it holds all of them as long as no other export crosses it.          *)

\* The targets published and not yet removed again: publication and rollback both
\* walk them in one order.
Placed(e) == {n \in TargetFiles : removed[e] < n /\ n <= published[e]}

\* How far an export has come in the two walks.
WalkSound(e) ==
  /\ removed[e] <= published[e]
  /\ step[e] = "staged" => published[e] = 0
  /\ step[e] \in {"publishing", "succeeded"} => removed[e] = 0
  /\ step[e] = "succeeded" => published[e] = Report
  /\ step[e] = "failed" => removed[e] = published[e]
  /\ step[e] = "rollback" \/ removed[e] > 0 => published[e] < Report

Walking == \A e \in Attempts : WalkSound(e)

\* An export's files lie at targets it holds, ...
OnlyPlaced == \A e \in Attempts : \A n \in TargetFiles : dest[n] = e => n \in Placed(e)

\* ... at all of them as long as it works or has left any, ...
Whole ==
  \A e \in Attempts \ raced :
    e \in AtWork \/ (\E n \in TargetFiles : dest[n] = e) => \A n \in Placed(e) : dest[n] = e

\* ... since whoever else works here has found the directory empty.
Alone ==
  \A e \in Attempts \ raced : \A d \in AtWork \ {e} :
    e \notin AtWork /\ \A n \in TargetFiles : dest[n] # e

PublishInv == PublishTypeOK /\ Walking /\ OnlyPlaced /\ Whole /\ Alone

\* The targets of the three kinds are numbered in the order of publication.
LEMMA Numbering ==
  /\ PayloadCount \in Nat /\ "absent" \notin Attempts /\ "foreign" \notin Attempts
  /\ Model \in Nat /\ Report \in Nat /\ Report = Model + 1 /\ TargetFiles = 1..Report
  /\ Payloads = 1..PayloadCount /\ Model = PayloadCount + 1
  BY PublishAssumption DEF Model, Report, TargetFiles, Payloads

\* The invariant holds at first.
LEMMA PublishInitially == PublishInit => PublishInv
  BY Numbering
     DEF PublishInit, PublishInv, PublishTypeOK, Walking, WalkSound, OnlyPlaced, Whole, Alone, Placed, AtWork

\* How far an export has come is a pair of numbers.
LEMMA Progress ==
  ASSUME PublishInv, NEW e \in Attempts
  PROVE  published[e] \in 0..Report /\ removed[e] \in 0..Report /\ WalkSound(e)
  BY DEF PublishInv, PublishTypeOK, Walking

\* A step that only tells where one export is: it may leave its work, not enter it.
LEMMA TurnsKeep ==
  ASSUME PublishInv, NEW e \in Attempts, NEW to,
         to \in {"failed", "rollback", "stuck", "succeeded", "crashed"},
         to = "rollback" => e \in AtWork,
         Turns(e, to), UNCHANGED <<dest, published, removed>>, WalkSound(e)'
  PROVE  PublishInv'
  <1>1. PublishTypeOK'
    BY DEF PublishInv, PublishTypeOK, Turns
  <1>2. AtWork' \subseteq AtWork
    BY DEF AtWork, Turns, PublishInv, PublishTypeOK
  <1>3. ASSUME NEW d \in Attempts, d # e PROVE WalkSound(d)'
    BY <1>3 DEF WalkSound, Turns, PublishInv, PublishTypeOK, Walking
  <1>4. Walking' /\ OnlyPlaced'
    BY <1>3 DEF Walking, PublishInv, OnlyPlaced, Placed
  <1>5. Whole' /\ Alone'
    BY <1>2 DEF PublishInv, Whole, Alone, Placed, Turns
  <1> QED
    BY <1>1, <1>4, <1>5 DEF PublishInv

\* A step that moves one export's walk on and writes only the target it has come to.
LEMMA WalksKeep ==
  ASSUME PublishInv, NEW e \in AtWork, NEW m \in TargetFiles,
         PublishTypeOK', UNCHANGED <<step, raced>>,
         \A n \in TargetFiles \ {m} : dest'[n] = dest[n],
         dest'[m] \in {"absent", e},
         \A d \in Attempts \ {e} : published'[d] = published[d] /\ removed'[d] = removed[d],
         WalkSound(e)',
         \A n \in Placed(e)' : n \in Placed(e) \/ n = m,
         \A n \in Placed(e) : n \in Placed(e)' \/ n = m,
         dest'[m] = e <=> m \in Placed(e)'
  PROVE  PublishInv'
  <1> USE Numbering DEF PublishInv
  <1>1. AtWork' = AtWork /\ e \in Attempts
    BY DEF AtWork
  <1>2. ASSUME NEW d \in Attempts \ {e} PROVE WalkSound(d)' /\ Placed(d)' = Placed(d)
    BY DEF WalkSound, Placed, Walking
  <1>3. Walking'
    BY <1>2 DEF Walking
  <1>4. OnlyPlaced'
    <2> SUFFICES ASSUME NEW d \in Attempts, NEW n \in TargetFiles, dest'[n] = d
                 PROVE  n \in Placed(d)'
      BY DEF OnlyPlaced
    <2>1. CASE d = e
      BY <2>1 DEF OnlyPlaced
    <2>2. CASE d # e
      BY <1>2, <2>2 DEF OnlyPlaced
    <2> QED
      BY <2>1, <2>2
  <1>5. \A d \in (Attempts \ raced) \ {e} :
          d \notin AtWork /\ \A n \in TargetFiles : dest[n] # d /\ dest'[n] # d
    BY <1>1 DEF Alone
  <1>6. Whole'
    <2> SUFFICES ASSUME NEW d \in Attempts \ raced,
                        d \in AtWork \/ \E n \in TargetFiles : dest'[n] = d,
                        NEW n \in Placed(d)'
                 PROVE  dest'[n] = d
      BY <1>1 DEF Whole
    <2>1. d = e
      BY <1>5
    <2>2. \A k \in Placed(e) : dest[k] = e
      BY <2>1 DEF Whole
    <2> QED
      BY <2>1, <2>2 DEF Placed
  <1>7. Alone'
    <2> SUFFICES ASSUME NEW d \in Attempts \ raced, NEW b \in AtWork \ {d}
                 PROVE  d \notin AtWork /\ \A n \in TargetFiles : dest'[n] # d
      BY <1>1 DEF Alone
    <2>1. d # e
      BY DEF Alone
    <2> QED
      BY <1>5, <2>1
  <1> QED
    BY <1>3, <1>4, <1>6, <1>7

\* An export that passes its check is alone or raced, and nothing lies there.
LEMMA PassesKeep ==
  ASSUME PublishInv, NEW e \in Attempts, step[e] = "staged", Passes(e),
         \A n \in TargetFiles : dest[n] = "absent",
         UNCHANGED <<dest, published, removed>>
  PROVE  PublishInv'
  <1> USE Numbering DEF PublishInv
  <1>1. PublishTypeOK' /\ AtWork' = AtWork \cup {e}
    BY DEF PublishTypeOK, Passes, AtWork
  <1>2. published[e] = 0 /\ removed[e] = 0
    BY DEF PublishTypeOK, Walking, WalkSound
  <1>3. Walking'
    BY <1>2 DEF Walking, WalkSound, Passes, PublishTypeOK
  <1>4. OnlyPlaced'
    BY DEF OnlyPlaced
  <1>5. Placed(e)' = {} /\ \A d \in Attempts : Placed(d)' = Placed(d)
    BY <1>2 DEF Placed
  <1>6. CASE AtWork = {}
    <2>1. raced' = raced /\ AtWork' = {e}
      BY <1>1, <1>6 DEF Passes
    <2> QED
      BY <1>1, <1>3, <1>4, <1>5, <2>1 DEF Whole, Alone
  <1>7. CASE AtWork # {}
    <2>1. raced' = raced \cup AtWork'
      BY <1>1, <1>7 DEF Passes
    <2> QED
      BY <1>1, <1>3, <1>4, <2>1 DEF Whole, Alone
  <1> QED
    BY <1>6, <1>7

\* Every step of an export preserves the invariant ...
LEMMA AttemptKeeps == ASSUME PublishInv, NEW e \in Attempts, Attempt(e) PROVE PublishInv'
  <1> USE Numbering
  <1>1. CASE CheckTargets(e)
    <2>1. CASE \A n \in TargetFiles : dest[n] = "absent"
      BY <1>1, <2>1, PassesKeep DEF CheckTargets
    <2>2. CASE ~ \A n \in TargetFiles : dest[n] = "absent"
      <3>1. Turns(e, "failed") /\ UNCHANGED <<dest, published, removed>> /\ step[e] = "staged"
        BY <1>1, <2>2 DEF CheckTargets
      <3>2. WalkSound(e)'
        BY <3>1 DEF PublishInv, PublishTypeOK, Walking, WalkSound, Turns
      <3> QED
        BY <3>1, <3>2, TurnsKeep
    <2> QED
      BY <2>1, <2>2
  <1>2. CASE ReplaceNext(e)
    <2> DEFINE m == published[e] + 1
    <2>1. e \in AtWork /\ m \in TargetFiles /\ removed[e] = 0
      BY <1>2 DEF ReplaceNext, AtWork, PublishInv, PublishTypeOK, Walking, WalkSound
    <2>2. PublishTypeOK' /\ published'[e] = m /\ removed'[e] = 0
      BY <1>2, <2>1 DEF ReplaceNext, PublishInv, PublishTypeOK
    <2>3. WalkSound(e)'
      BY <1>2, <2>1, <2>2 DEF ReplaceNext, PublishInv, PublishTypeOK, Walking, WalkSound
    <2>4. dest'[m] = e /\ \A n \in TargetFiles \ {m} : dest'[n] = dest[n]
      BY <1>2, <2>1 DEF ReplaceNext, PublishInv, PublishTypeOK
    <2>5. \A d \in Attempts \ {e} : published'[d] = published[d] /\ removed'[d] = removed[d]
      BY <1>2 DEF ReplaceNext, PublishInv, PublishTypeOK
    <2>6. /\ m \in Placed(e)' /\ \A n \in Placed(e)' : n \in Placed(e) \/ n = m
          /\ \A n \in Placed(e) : n \in Placed(e)'
      BY <2>1, <2>2 DEF Placed, PublishInv, PublishTypeOK
    <2>7. UNCHANGED <<step, raced>>
      BY <1>2 DEF ReplaceNext
    <2> HIDE DEF m
    <2> QED
      BY <2>1, <2>2, <2>3, <2>4, <2>5, <2>6, <2>7, WalksKeep
  <1>3. CASE RemoveNext(e)
    <2> DEFINE m == removed[e] + 1
    <2>1. e \in AtWork /\ m \in TargetFiles /\ published[e] < Report
      BY <1>3 DEF RemoveNext, AtWork, PublishInv, PublishTypeOK, Walking, WalkSound
    <2>2. PublishTypeOK' /\ removed'[e] = m /\ published'[e] = published[e]
      BY <1>3, <2>1 DEF RemoveNext, PublishInv, PublishTypeOK
    <2>3. WalkSound(e)'
      BY <1>3, <2>1, <2>2 DEF RemoveNext, PublishInv, PublishTypeOK, Walking, WalkSound
    <2>4. dest'[m] = "absent" /\ \A n \in TargetFiles \ {m} : dest'[n] = dest[n]
      BY <1>3, <2>1 DEF RemoveNext, PublishInv, PublishTypeOK
    <2>5. \A d \in Attempts \ {e} : published'[d] = published[d] /\ removed'[d] = removed[d]
      BY <1>3 DEF RemoveNext, PublishInv, PublishTypeOK
    <2>6. /\ m \notin Placed(e)' /\ \A n \in Placed(e)' : n \in Placed(e)
          /\ \A n \in Placed(e) : n \in Placed(e)' \/ n = m
      BY <2>1, <2>2 DEF Placed, PublishInv, PublishTypeOK
    <2>7. UNCHANGED <<step, raced>>
      BY <1>3 DEF RemoveNext
    <2> HIDE DEF m
    <2> QED
      BY <2>1, <2>2, <2>3, <2>4, <2>5, <2>6, <2>7, WalksKeep
  <1>4. CASE ReplaceRaises(e) \/ RemoveRaises(e) \/ GiveUp(e) \/ Succeed(e) \/ Crash(e)
    <2> DEFINE to == step'[e]
    <2>1. /\ Turns(e, to) /\ UNCHANGED <<dest, published, removed>> /\ e \in AtWork
          /\ to \in {"failed", "rollback", "stuck", "succeeded", "crashed"}
      BY <1>4 DEF ReplaceRaises, RemoveRaises, GiveUp, Succeed, Crash, Turns, AtWork,
                  PublishInv, PublishTypeOK
    <2>2. WalkSound(e)'
      BY <1>4 DEF ReplaceRaises, RemoveRaises, GiveUp, Succeed, Crash, Turns, AtWork,
                  PublishInv, PublishTypeOK, Walking, WalkSound
    <2> HIDE DEF to
    <2> QED
      BY <2>1, <2>2, TurnsKeep
  <1> QED
    BY <1>1, <1>2, <1>3, <1>4 DEF Attempt

\* ... and so does what happens to the directory besides.
LEMMA OthersKeep == ASSUME PublishInv, Intrude \/ Empty PROVE PublishInv'
  <1> USE Numbering DEF PublishInv
  <1>1. /\ UNCHANGED <<step, published, removed, raced>> /\ PublishTypeOK'
        /\ AtWork' = AtWork /\ Walking' /\ \A e \in Attempts : Placed(e)' = Placed(e)
    BY DEF Intrude, Empty, PublishTypeOK, AtWork, Walking, WalkSound, Placed
  <1>2. CASE Intrude
    <2>1. \A e \in Attempts : \A n \in TargetFiles : dest'[n] = e <=> dest[n] = e
      BY <1>2 DEF Intrude, PublishTypeOK
    <2>2. OnlyPlaced'
      BY <1>1, <2>1 DEF OnlyPlaced
    <2>3. Whole'
      <3> SUFFICES ASSUME NEW e \in Attempts \ raced,
                          e \in AtWork \/ \E n \in TargetFiles : dest'[n] = e,
                          NEW n \in Placed(e)
                   PROVE  dest'[n] = e
        BY <1>1 DEF Whole
      <3>1. dest[n] = e /\ n \in TargetFiles
        BY <2>1 DEF Whole, Placed
      <3> QED
        BY <2>1, <3>1
    <2>4. Alone'
      BY <1>1, <2>1 DEF Alone
    <2> QED
      BY <1>1, <2>2, <2>3, <2>4
  <1>3. CASE Empty
    <2>1. AtWork = {} /\ \A n \in TargetFiles : dest'[n] = "absent"
      BY <1>3 DEF Empty
    <2>2. \A e \in Attempts : \A n \in TargetFiles : dest'[n] # e
      BY <2>1
    <2> QED
      BY <1>1, <2>1, <2>2 DEF OnlyPlaced, Whole, Alone
  <1> QED
    BY <1>2, <1>3

\* The invariant is one.
LEMMA Invariance == PublishSpec => []PublishInv
  <1>1. PublishInv /\ [PublishNext]_publication => PublishInv'
    <2>1. ASSUME PublishInv, UNCHANGED publication PROVE PublishInv'
      BY <2>1
         DEF publication, PublishInv, PublishTypeOK, Walking, WalkSound, OnlyPlaced, Whole, Alone, Placed, AtWork
    <2> QED
      BY <2>1, AttemptKeeps, OthersKeep DEF PublishNext
  <1> QED
    BY PublishInitially, <1>1, PTL DEF PublishSpec

\* Every variable keeps to its type.
THEOREM PublicationTypeCorrect == PublishSpec => []PublishTypeOK
  <1>1. PublishInv => PublishTypeOK
    BY DEF PublishInv
  <1> QED
    BY Invariance, <1>1, PTL

\* A reported failure has left no file of the export behind, whichever replacement failed,
\* whoever else writes to the directory and however exports cross; an unlink that raises
\* in the rollback is the one exception (state "stuck").
THEOREM FailuresLeaveNothing == PublishSpec => []FailureLeavesNothing
  <1>1. PublishInv => FailureLeavesNothing
    BY Numbering
       DEF PublishInv, PublishTypeOK, Walking, WalkSound, OnlyPlaced, Placed, FailureLeavesNothing
  <1> QED
    BY Invariance, <1>1, PTL

\* A report is only ever found beside everything it reports on, whatever later exports
\* to the same destination do; two exports that cross each other are the exception.
THEOREM ReportsAreComplete == PublishSpec => []ReportMeansComplete
  <1>1. ASSUME PublishInv, NEW e \in Attempts \ raced, dest[Report] = e, NEW n \in TargetFiles
        PROVE  dest[n] = e
    <2>1. Report \in Placed(e)
      BY <1>1, Numbering DEF PublishInv, OnlyPlaced
    <2>2. published[e] = Report /\ removed[e] = 0
      BY <1>1, <2>1, Numbering, Progress DEF WalkSound, Placed
    <2> QED
      BY <1>1, <2>2, Numbering DEF PublishInv, Whole, Placed
  <1>2. PublishInv => ReportMeansComplete
    BY <1>1 DEF ReportMeansComplete
  <1> QED
    BY Invariance, <1>2, PTL

\* A model is only ever found beside all of its payloads, whichever step fails or dies,
\* unless the rollback is taking it back because its report could not be published, or
\* another export has crossed it.
THEOREM ModelsAreComplete == PublishSpec => []ModelComplete
  <1>1. ASSUME PublishInv, NEW e \in Attempts \ raced, dest[Model] = e, ~Retracting(e),
               NEW n \in Payloads
        PROVE  dest[n] = e
    <2>1. removed[e] < Model /\ Model <= published[e]
      BY <1>1, Numbering DEF PublishInv, OnlyPlaced, Placed
    <2>2. removed[e] = 0
      BY <1>1, <2>1, Numbering, Progress DEF WalkSound, Retracting
    <2>3. n \in Placed(e)
      BY <1>1, <2>1, <2>2, Numbering, Progress DEF Placed
    <2> QED
      BY <1>1, <2>3, Numbering DEF PublishInv, Whole
  <1>2. PublishInv => ModelComplete
    BY <1>1 DEF ModelComplete
  <1> QED
    BY Invariance, <1>2, PTL

\* Together: what the directory shows and what a failure leaves, for any number of payloads
\* and of exports, without an assumption on what may fail.
THEOREM PublicationIsSound == PublishSpec => []PublicationSound
  <1>1. PublishTypeOK /\ ModelComplete /\ FailureLeavesNothing => PublicationSound
    BY DEF PublicationSound
  <1> QED
    BY <1>1, PublicationTypeCorrect, ModelsAreComplete, FailuresLeaveNothing, PTL

-----------------------------------------------------------------------------
(***************************************************************************)
(* The activation panels, for any graphs, forms, days of a user and cap on *)
(* the watch strip.                                                        *)
(*                                                                         *)
(* That one trace runs at a time is inductive once one says who holds it:  *)
(* the thread that prepares it until it is shown, the panel afterwards.    *)
(* That no row waits for an answer that came is inductive once each        *)
(* pending read of the session shown has a marker of its own: a second     *)
(* read of the same row would take the marker of the first.                *)
(***************************************************************************)

(* What a job, a preparing thread and a walk are. *)

JobShape(r) ==
  r = [kind |-> r.kind, session |-> r.session, ids |-> r.ids, asked |-> r.asked,
       state |-> r.state, cancelled |-> r.cancelled, waiter |-> r.waiter]

\* A form of the artifact of a session asks for these values.
AskedIn(graph, values) == \E form \in Forms : values = CaptureValueIds(graph, form)

JobSound(r, last) ==
  /\ JobShape(r)
  /\ r.kind # "none" => r.session \in 1..last
  /\ r.kind = "trace" => AskedIn(GraphOf[r.ids[1][1]], r.asked.values)
  /\ r.kind = "statistics" /\ r.state = "running" => r.waiter = "waiting"

JobsSound == jobs \in Seq(Range(jobs)) /\ \A j \in DOMAIN jobs : JobSound(jobs[j], opened)

SessionsSound == opened \in Nat /\ session \in 0..opened /\ day \in [
  opens : Seq(DOMAIN GraphOf), variants : SUBSET Variants, runs : Nat, asks : Nat,
  pins : SUBSET UNION {Capturable(GraphOf[a]) : a \in DOMAIN GraphOf}]

PrepareSound(p, last, opens) ==
  /\ p = [session |-> p.session, job |-> p.job, step |-> p.step, variant |-> p.variant,
          asked |-> p.asked, policy |-> p.policy]
  /\ p.session \in 1..last
  /\ AskedIn(GraphOf[opens[p.session]], p.asked)

\* A thread that has submitted its job holds it alone until it is shown.
Submitted(p) == p.step # "specifying"

Untouched(r, s) == r.kind = "trace" /\ r.session = s /\ r.waiter = "none"

PreparesSound ==
  /\ \A p \in prepares : PrepareSound(p, opened, day.opens)
  /\ \A p \in prepares : Submitted(p) => /\ p.job \in DOMAIN jobs
                                         /\ Untouched(jobs[p.job], p.session)
  /\ \A p, q \in prepares : Submitted(p) /\ Submitted(q) /\ p.job = q.job => p = q

\* A walk of a thread is the only one of that thread, which does nothing else meanwhile.
WalksSound ==
  /\ \A w \in walks : /\ w = [who |-> w.who, todo |-> w.todo, at |-> w.at]
                      /\ w.who # 0 => w.who \in DOMAIN jobs /\ jobs[w.who].waiter = "walking"
                      /\ w.at # None => w.at[1] \in 1..opened
  /\ \A w, x \in walks : w.who = x.who /\ w.who # 0 => w = x

\* The trace that was approved is in one hand: the thread that prepares it, or the panel.
Live(r, s) == r.kind = "trace" /\ r.state = "running" /\ r.session = s /\ ~r.cancelled

InOneHand ==
  ~crossed =>
    /\ \A p \in prepares : p.session = session =>
         /\ preparing
         /\ \A q \in prepares : q.session = session => q = p
         /\ \A j \in DOMAIN jobs : Live(jobs[j], session) => Submitted(p) /\ p.job = j
    /\ \A j \in DOMAIN jobs : Live(jobs[j], session) =>
         j = job \/ \E p \in prepares : p.session = session /\ Submitted(p) /\ p.job = j

\* Reads that leave a marker.
Pending(r) ==
  /\ r.kind \in {"statistics", "views"} /\ r.waiter = "waiting"
  /\ r.asked.owner \in {"inspector", "watch"}
Mark(r) == <<r.ids[1], r.asked.value, r.kind>>

MarkersHeld ==
  /\ IsFiniteSet(loading)
  /\ \A m \in loading : \E j \in DOMAIN jobs : Pending(jobs[j]) /\ Mark(jobs[j]) = m

\* The statistics of the session shown that are under way, and those the strip asked for.
Current(js, s) ==
  {j \in DOMAIN js : Pending(js[j]) /\ js[j].kind = "statistics" /\ js[j].session = s}
OfWatch(js, s) ==
  {j \in DOMAIN js : /\ js[j].kind = "statistics" /\ js[j].state = "running"
                     /\ js[j].asked.owner = "watch" /\ js[j].session = s}
StatMarkers == {m \in loading : m[3] = "statistics"}

\* With one walk at a time, a read of the session shown has a marker of its own, and a
\* walk that has looked still finds what it saw.
OneMarkerEach ==
  ~overlapped =>
    /\ \A w, x \in walks : w = x
    /\ \A i \in Current(jobs, session) : Mark(jobs[i]) \in loading
    /\ \A i, j \in Current(jobs, session) : Mark(jobs[i]) = Mark(jobs[j]) => i = j
    /\ \A w \in walks : w.at # None /\ w.at[1] = session =>
         /\ Cardinality(StatMarkers) < MaxWatchJobs
         /\ <<w.at[2], w.at[3], "statistics">> \notin loading

CapKept == ~overlapped => Cardinality(OfWatch(jobs, session)) <= MaxWatchJobs

PanelsInv ==
  /\ SessionsSound
  /\ JobsSound
  /\ PreparesSound
  /\ WalksSound
  /\ InOneHand
  /\ MarkersHeld
  /\ OneMarkerEach
  /\ CapKept

-----------------------------------------------------------------------------
(* Lists of jobs: what the operators on them keep. *)

Same(r, q) ==
  /\ q.kind = r.kind /\ q.session = r.session /\ q.ids = r.ids /\ q.asked = r.asked
  /\ q.state = r.state /\ q.waiter = r.waiter
  /\ r.cancelled => q.cancelled

IsList(js) == js \in Seq(Range(js)) /\ \A j \in DOMAIN js : JobShape(js[j])

\* From old to new, jobs are added and those in S changed.
Moved(old, new, S) ==
  /\ IsList(new)
  /\ DOMAIN old \subseteq DOMAIN new
  /\ \A j \in DOMAIN old : j \notin S => Same(old[j], new[j])

LEMMA ListIs ==
  ASSUME NEW js, NEW n \in Nat, DOMAIN js = 1..n, js = [j \in 1..n |-> js[j]]
  PROVE  js \in Seq(Range(js)) /\ Len(js) = n
  <1>1. \A j \in 1..n : js[j] \in Range(js)
    BY DEF Range
  <1>2. js \in [1..n -> Range(js)]
    BY <1>1
  <1> QED
    BY <1>2

LEMMA ListHas ==
  ASSUME NEW js, IsList(js)
  PROVE  /\ Len(js) \in Nat /\ DOMAIN js = 1..Len(js)
         /\ js = [j \in 1..Len(js) |-> js[j]]
  BY LenProperties DEF IsList

\* What becomes of a job that ends, and of one that somebody waits for.
LEMMA StateSet ==
  ASSUME NEW r, JobShape(r), NEW state
  PROVE  LET q == [r EXCEPT !.state = state] IN
         /\ JobShape(q) /\ q.kind = r.kind /\ q.session = r.session /\ q.ids = r.ids
         /\ q.asked = r.asked /\ q.state = state /\ q.waiter = r.waiter
         /\ q.cancelled = r.cancelled
  BY DEF JobShape

LEMMA WaiterSet ==
  ASSUME NEW r, JobShape(r), NEW waiter
  PROVE  LET q == [r EXCEPT !.waiter = waiter] IN
         /\ JobShape(q) /\ q.kind = r.kind /\ q.session = r.session /\ q.ids = r.ids
         /\ q.asked = r.asked /\ q.state = r.state /\ q.waiter = waiter
         /\ q.cancelled = r.cancelled
  BY DEF JobShape

Redone(r, state, waiter) == [r EXCEPT !.state = state, !.waiter = waiter]

LEMMA BothSet ==
  ASSUME NEW r, JobShape(r), NEW state, NEW waiter
  PROVE  LET q == Redone(r, state, waiter) IN
         /\ JobShape(q) /\ q.kind = r.kind /\ q.session = r.session /\ q.ids = r.ids
         /\ q.asked = r.asked /\ q.state = state /\ q.waiter = waiter
         /\ q.cancelled = r.cancelled
  <1> DEFINE p == [r EXCEPT !.state = state]
             q == [p EXCEPT !.waiter = waiter]
  <1>1. Redone(r, state, waiter) = q
    BY DEF Redone
  <1>2. /\ JobShape(p) /\ p.kind = r.kind /\ p.session = r.session /\ p.ids = r.ids
        /\ p.asked = r.asked /\ p.state = state /\ p.cancelled = r.cancelled
    BY StateSet
  <1> HIDE DEF p
  <1>3. /\ JobShape(q) /\ q.kind = r.kind /\ q.session = r.session /\ q.ids = r.ids
        /\ q.asked = r.asked /\ q.state = state /\ q.waiter = waiter
        /\ q.cancelled = r.cancelled
    BY <1>2, WaiterSet
  <1> HIDE DEF q
  <1> QED
    BY <1>1, <1>3

LEMMA ReleasedIs ==
  /\ JobShape(Released) /\ Released.kind = "none" /\ Released.state = "succeeded"
  /\ Released.waiter = "done"
  <1> DEFINE r == NewJob("none", 0, None, None)
             p == [r EXCEPT !.state = "succeeded"]
  <1>1. JobShape(r) /\ r.kind = "none"
    BY DEF NewJob, JobShape
  <1>2. Released = [p EXCEPT !.waiter = "done"]
    BY DEF Released
  <1> HIDE DEF r
  <1>3. JobShape(p) /\ p.kind = "none" /\ p.state = "succeeded"
    BY <1>1, StateSet
  <1> HIDE DEF p
  <1> QED
    BY <1>2, <1>3, WaiterSet

LEMMA SoundWhatever ==
  ASSUME NEW r, NEW last \in Nat, NEW more \in Nat, last <= more, JobSound(r, last), NEW q, JobShape(q), Same(r, q)
  PROVE  JobSound(q, more)
  BY DEF JobSound, Same

LEMMA StillMoves ==
  ASSUME NEW js, IsList(js)
  PROVE  Moved(js, js, {})
  BY DEF Moved, Same

LEMMA CancelMoves ==
  ASSUME NEW js, IsList(js), NEW held
  PROVE  Moved(js, Cancel(js, held), {}) /\ DOMAIN Cancel(js, held) = DOMAIN js
  <1> DEFINE new == Cancel(js, held)
  <1>1. DOMAIN new = DOMAIN js /\ new = [j \in DOMAIN js |-> new[j]]
    BY DEF Cancel
  <1>2. ASSUME NEW j \in DOMAIN js PROVE JobShape(new[j]) /\ Same(js[j], new[j])
    <2>1. JobShape(js[j])
      BY DEF IsList
    <2>2. CASE j \in held /\ js[j].state = "running"
      <3>1. new[j] = [js[j] EXCEPT !.cancelled = TRUE]
        BY <2>2 DEF Cancel
      <3> QED
        BY <2>1, <3>1 DEF JobShape, Same
    <2>3. CASE ~(j \in held /\ js[j].state = "running")
      <3>1. new[j] = js[j]
        BY <2>3 DEF Cancel
      <3> QED
        BY <2>1, <3>1 DEF Same
    <2> QED
      BY <2>2, <2>3
  <1>3. new \in Seq(Range(new))
    BY <1>1, ListHas, ListIs
  <1> QED
    BY <1>1, <1>2, <1>3 DEF Moved, IsList

LEMMA AppendMoves ==
  ASSUME NEW js, IsList(js), NEW r, JobShape(r)
  PROVE  LET new == Append(js, r) IN
         /\ Moved(js, new, {})
         /\ Len(new) = Len(js) + 1 /\ Len(new) \in DOMAIN new /\ Len(new) \notin DOMAIN js
         /\ new[Len(new)] = r
         /\ \A j \in DOMAIN new : j \in DOMAIN js \/ j = Len(new)
         /\ \A j \in DOMAIN js : new[j] = js[j]
  <1> DEFINE S == Range(js) \union {r}
             new == Append(js, r)
  <1>1. js \in Seq(S)
    <2>1. js \in [1..Len(js) -> S]
      BY ListHas DEF Range
    <2> QED
      BY <2>1, ListHas
  <1>2. /\ new \in Seq(S) /\ Len(new) = Len(js) + 1 /\ \A j \in 1..Len(js) : new[j] = js[j]
        /\ new[Len(js) + 1] = r
    BY <1>1, AppendProperties
  <1>3. DOMAIN new = 1..(Len(js) + 1) /\ new = [j \in 1..(Len(js) + 1) |-> new[j]] /\ Len(js) \in Nat
    BY <1>1, <1>2, LenProperties
  <1>4. new \in Seq(Range(new))
    <2>1. Len(js) + 1 \in Nat
      BY <1>3
    <2> HIDE DEF new
    <2> QED
      BY <1>3, <2>1, ListIs
  <1>5. DOMAIN js = 1..Len(js)
    BY ListHas
  <1> HIDE DEF new, S
  <1>6. ASSUME NEW j \in DOMAIN new PROVE JobShape(new[j])
    <2>1. CASE j \in 1..Len(js)
      BY <2>1, <1>2, <1>5 DEF IsList
    <2>2. CASE j = Len(js) + 1
      BY <2>2, <1>2
    <2> QED
      BY <1>3, <2>1, <2>2
  <1>7. Moved(js, new, {})
    <2>1. IsList(new)
      BY <1>4, <1>6 DEF IsList
    <2>2. DOMAIN js \subseteq DOMAIN new
      BY <1>3, <1>5
    <2>3. \A j \in DOMAIN js : Same(js[j], new[j])
      BY <1>2, <1>5 DEF Same
    <2> QED
      BY <2>1, <2>2, <2>3 DEF Moved
  <1> QED
    BY <1>2, <1>3, <1>5, <1>7 DEF new

LEMMA SetMoves ==
  ASSUME NEW js, IsList(js), NEW j \in DOMAIN js, NEW r, JobShape(r)
  PROVE  LET new == [js EXCEPT ![j] = r] IN
         Moved(js, new, {j}) /\ DOMAIN new = DOMAIN js /\ new[j] = r
  <1> DEFINE new == [js EXCEPT ![j] = r]
  <1>1. DOMAIN new = DOMAIN js /\ new = [k \in DOMAIN js |-> new[k]] /\ new[j] = r
    BY ListHas
  <1>2. \A k \in DOMAIN js : k # j => new[k] = js[k]
    BY ListHas
  <1> HIDE DEF new
  <1>3. new \in Seq(Range(new))
    BY <1>1, ListHas, ListIs
  <1> QED
    BY <1>1, <1>2, <1>3 DEF Moved, IsList, Same, new

LEMMA MovedTwice ==
  ASSUME NEW a, NEW b, NEW c, NEW S, NEW T, Moved(a, b, S), Moved(b, c, T)
  PROVE  Moved(a, c, S \union T)
  BY DEF Moved, Same

\* Whoever else moves, a job that is not among the changed ones keeps all that matters.
LEMMA SoundMoved ==
  ASSUME NEW last \in Nat, NEW more \in Nat, last <= more, NEW old, NEW new, NEW S, Moved(old, new, S),
         \A j \in DOMAIN old : JobSound(old[j], last),
         \A j \in DOMAIN new : j \in S \/ j \notin DOMAIN old => JobSound(new[j], more)
  PROVE  \A j \in DOMAIN new : JobSound(new[j], more)
  <1> TAKE j \in DOMAIN new
  <1>1. CASE j \in S \/ j \notin DOMAIN old
    BY <1>1
  <1>2. CASE j \notin S /\ j \in DOMAIN old
    BY <1>2, SoundWhatever DEF Moved, IsList
  <1> QED
    BY <1>1, <1>2

-----------------------------------------------------------------------------
(* What a step keeps, by what it leaves alone. *)

DayKept == day'.opens = day.opens /\ SessionsSound'

LEMMA Listed == PanelsInv => IsList(jobs) /\ opened \in Nat
  BY DEF PanelsInv, JobsSound, JobSound, IsList, SessionsSound

LEMMA JobsKept ==
  ASSUME PanelsInv, opened' \in Nat, opened <= opened', NEW S, Moved(jobs, jobs', S),
         \A j \in DOMAIN jobs' : j \in S \/ j \notin DOMAIN jobs => JobSound(jobs'[j], opened')
  PROVE  JobsSound'
  <1>1. opened \in Nat /\ \A j \in DOMAIN jobs : JobSound(jobs[j], opened)
    BY DEF PanelsInv, JobsSound, SessionsSound
  <1>2. \A j \in DOMAIN jobs' : JobSound(jobs'[j], opened')
    BY <1>1, SoundMoved
  <1> QED
    BY <1>2 DEF JobsSound, Moved, IsList

\* The panel keeps its job, or drops one that no longer runs.
HandStays == job' = job \/ \A j \in DOMAIN jobs' : j = job => \A s : ~Live(jobs'[j], s)

\* The preparing threads and the hand that holds the trace, when only jobs move.
LEMMA HandKept ==
  ASSUME PanelsInv, UNCHANGED <<session, opened, preparing, prepares, crossed>>, HandStays,
         day'.opens = day.opens, NEW S, Moved(jobs, jobs', S),
         \A j \in S \intersect DOMAIN jobs : \A s :
           /\ Untouched(jobs[j], s) => Untouched(jobs'[j], s)
           /\ Live(jobs'[j], s) => Live(jobs[j], s),
         \A j \in DOMAIN jobs' \ DOMAIN jobs : jobs'[j].kind # "trace"
  PROVE  PreparesSound' /\ InOneHand'
  <1>1. \A j \in DOMAIN jobs : \A s : Untouched(jobs[j], s) => Untouched(jobs'[j], s)
    <2> TAKE j \in DOMAIN jobs
    <2>1. CASE j \in S
      BY <2>1
    <2>2. CASE j \notin S
      BY <2>2 DEF Moved, Same, Untouched
    <2> QED
      BY <2>1, <2>2
  <1>2. \A j \in DOMAIN jobs' : \A s : Live(jobs'[j], s) => j \in DOMAIN jobs /\ Live(jobs[j], s)
    <2> TAKE j \in DOMAIN jobs'
    <2>1. CASE j \in S /\ j \in DOMAIN jobs
      BY <2>1
    <2>2. CASE j \notin S /\ j \in DOMAIN jobs
      BY <2>2 DEF Moved, Same, Live
    <2>3. CASE j \notin DOMAIN jobs
      BY <2>3 DEF Live
    <2> QED
      BY <2>1, <2>2, <2>3
  <1>3. DOMAIN jobs \subseteq DOMAIN jobs'
    BY DEF Moved
  <1>4. \A p \in prepares : PrepareSound(p, opened', day'.opens)
    BY DEF PanelsInv, PreparesSound, PrepareSound, Artifact
  <1>5. \A p \in prepares : Submitted(p) => /\ p.job \in DOMAIN jobs'
                                            /\ Untouched(jobs'[p.job], p.session)
    BY <1>1, <1>3 DEF PanelsInv, PreparesSound
  <1>6. PreparesSound'
    BY <1>4, <1>5 DEF PanelsInv, PreparesSound
  <1>7. InOneHand'
    BY <1>2 DEF PanelsInv, InOneHand, HandStays
  <1> QED
    BY <1>6, <1>7

LEMMA WalksKept ==
  ASSUME PanelsInv, opened' \in Nat, opened <= opened', UNCHANGED walks, NEW S, Moved(jobs, jobs', S),
         \A j \in S \intersect DOMAIN jobs : jobs[j].waiter = "walking" => jobs'[j].waiter = "walking"
  PROVE  WalksSound'
  <1>1. \A j \in DOMAIN jobs : jobs[j].waiter = "walking" => j \in DOMAIN jobs' /\ jobs'[j].waiter = "walking"
    BY DEF Moved, Same
  <1>2. opened \in Nat
    BY DEF PanelsInv, SessionsSound
  <1>3. \A w \in walks' : /\ w = [who |-> w.who, todo |-> w.todo, at |-> w.at]
                          /\ w.who # 0 => w.who \in DOMAIN jobs' /\ jobs'[w.who].waiter = "walking"
                          /\ w.at # None => w.at[1] \in 1..opened'
    BY <1>1, <1>2 DEF PanelsInv, WalksSound
  <1> QED
    BY <1>3 DEF PanelsInv, WalksSound

\* A thread that begins to walk, or the event loop.
LEMMA WalksMore ==
  ASSUME PanelsInv, UNCHANGED opened, NEW S, Moved(jobs, jobs', S),
         \A j \in S \intersect DOMAIN jobs : jobs[j].waiter # "walking",
         NEW who, who # 0 => who \in S \intersect DOMAIN jobs /\ jobs'[who].waiter = "walking",
         NEW rows, walks' = walks \union {[who |-> who, todo |-> rows, at |-> None]}
  PROVE  WalksSound'
  <1>1. \A j \in DOMAIN jobs : jobs[j].waiter = "walking" => j \notin S /\ j \in DOMAIN jobs' /\ jobs'[j].waiter = "walking"
    BY DEF Moved, Same
  <1>2. DOMAIN jobs \subseteq DOMAIN jobs'
    BY DEF Moved
  <1> DEFINE new == [who |-> who, todo |-> rows, at |-> None]
  <1>3. new.who = who /\ new.at = None /\ new = [who |-> new.who, todo |-> new.todo, at |-> new.at]
    OBVIOUS
  <1> HIDE DEF new
  <1>4. ASSUME NEW w \in walks'
        PROVE  /\ w = [who |-> w.who, todo |-> w.todo, at |-> w.at]
               /\ w.who # 0 => w.who \in DOMAIN jobs' /\ jobs'[w.who].waiter = "walking"
               /\ w.at # None => w.at[1] \in 1..opened'
    <2>1. CASE w \in walks
      BY <2>1, <1>1 DEF PanelsInv, WalksSound
    <2>2. CASE w = new
      BY <2>2, <1>2, <1>3
    <2> QED
      BY <2>1, <2>2 DEF new
  <1>5. ASSUME NEW w \in walks', NEW x \in walks', w.who = x.who, w.who # 0 PROVE w = x
    <2>1. \A y \in walks : y.who # 0 => y.who \notin S
      BY <1>1 DEF PanelsInv, WalksSound
    <2>2. CASE w \in walks /\ x \in walks
      BY <2>2, <1>5 DEF PanelsInv, WalksSound
    <2>3. CASE w \notin walks \/ x \notin walks
      BY <2>1, <2>3, <1>3, <1>5 DEF new
    <2> QED
      BY <2>2, <2>3
  <1> QED
    BY <1>4, <1>5 DEF WalksSound

LEMMA WatchIsCurrent ==
  ASSUME NEW js, NEW s, NEW last, \A j \in DOMAIN js : JobSound(js[j], last)
  PROVE  OfWatch(js, s) \subseteq Current(js, s)
  BY DEF OfWatch, Current, Pending, JobSound

LEMMA WatchIsFinite ==
  ASSUME NEW js, IsList(js), NEW s
  PROVE  IsFiniteSet(OfWatch(js, s))
  <1>1. IsFiniteSet(DOMAIN js)
    BY ListHas, FS_Interval
  <1> QED
    BY <1>1, FS_Subset DEF OfWatch

\* The strip's reads do not grow in number.
LEMMA CapStays ==
  ASSUME PanelsInv, overlapped => overlapped', OfWatch(jobs', session') \subseteq OfWatch(jobs, session)
  PROVE  CapKept'
  <1>1. IsFiniteSet(OfWatch(jobs, session))
    BY Listed, WatchIsFinite
  <1>2. /\ Cardinality(OfWatch(jobs', session')) <= Cardinality(OfWatch(jobs, session))
        /\ Cardinality(OfWatch(jobs', session')) \in Nat /\ Cardinality(OfWatch(jobs, session)) \in Nat
    BY <1>1, FS_Subset, FS_CardinalityType
  <1> QED
    BY <1>2, PanelsAssumption DEF PanelsInv, CapKept

\* Steps that neither begin nor land a read of the inspector or the strip.
LEMMA ReadsKept ==
  ASSUME PanelsInv, UNCHANGED <<session, loading>>, overlapped => overlapped',
         JobsSound', NEW S, Moved(jobs, jobs', S),
         \A j \in S \intersect DOMAIN jobs : ~Pending(jobs[j]),
         \A j \in DOMAIN jobs' : j \in S \/ j \notin DOMAIN jobs => ~Pending(jobs'[j]),
         ~overlapped' => \A w, x \in walks' : w = x,
         ~overlapped' => \A w \in walks' : w.at # None /\ w.at[1] = session => w \in walks
  PROVE  MarkersHeld' /\ OneMarkerEach' /\ CapKept'
  <1>1. \A j \in DOMAIN jobs : Pending(jobs[j]) =>
          j \in DOMAIN jobs' /\ Pending(jobs'[j]) /\ Mark(jobs'[j]) = Mark(jobs[j])
    BY DEF Moved, Same, Pending, Mark
  <1>2. \A j \in DOMAIN jobs' : Pending(jobs'[j]) =>
          j \in DOMAIN jobs /\ Pending(jobs[j]) /\ Mark(jobs'[j]) = Mark(jobs[j]) /\ Same(jobs[j], jobs'[j])
    <2> SUFFICES ASSUME NEW j \in DOMAIN jobs', Pending(jobs'[j])
                 PROVE  j \in DOMAIN jobs /\ Pending(jobs[j]) /\ Mark(jobs'[j]) = Mark(jobs[j])
                        /\ Same(jobs[j], jobs'[j])
      OBVIOUS
    <2>1. j \notin S /\ j \in DOMAIN jobs
      OBVIOUS
    <2> QED
      BY <2>1 DEF Moved, Same, Pending, Mark
  <1>3. MarkersHeld'
    BY <1>1 DEF PanelsInv, MarkersHeld
  <1>4. Current(jobs', session') \subseteq Current(jobs, session)
    BY <1>2 DEF Current, Same
  <1>5. StatMarkers' = StatMarkers
    BY DEF StatMarkers
  <1>6. \A j \in Current(jobs', session') : Mark(jobs'[j]) = Mark(jobs[j])
    BY <1>2 DEF Current
  <1>7. OneMarkerEach'
    BY <1>4, <1>5, <1>6 DEF PanelsInv, OneMarkerEach
  <1>8. OfWatch(jobs', session') \subseteq OfWatch(jobs, session)
    <2>1. OfWatch(jobs', session') \subseteq Current(jobs', session')
      BY WatchIsCurrent DEF JobsSound
    <2> QED
      BY <1>2, <2>1 DEF OfWatch, Current, Same
  <1> QED
    BY <1>3, <1>7, <1>8, CapStays

-----------------------------------------------------------------------------
(* Steps that only move jobs, none of them a read with a marker. *)

\* What happens to such a job, and what a new one is.
Aside(r, q) ==
  /\ \A s : (Untouched(r, s) => Untouched(q, s)) /\ (Live(q, s) => Live(r, s))
  /\ ~Pending(r) /\ ~Pending(q)
Other(r) == r.kind # "trace" /\ ~Pending(r)

LEMMA DayMoves ==
  ASSUME PanelsInv, UNCHANGED <<opened, session>>,
         day' = day \/ Asks \/ (day.runs > 0 /\ day' = [day EXCEPT !.runs = @ - 1])
  PROVE  day'.opens = day.opens /\ SessionsSound'
  <1>1. CASE day' = day
    BY <1>1 DEF PanelsInv, SessionsSound
  <1>2. CASE Asks
    BY <1>2 DEF PanelsInv, SessionsSound, Asks
  <1>3. CASE day.runs > 0 /\ day' = [day EXCEPT !.runs = @ - 1]
    BY <1>3 DEF PanelsInv, SessionsSound
  <1> QED
    BY <1>1, <1>2, <1>3

LEMMA OnlyJobsMove ==
  ASSUME PanelsInv,
         UNCHANGED <<session, opened, preparing, prepares, crossed, loading, walks, overlapped>>,
         HandStays,
         day' = day \/ Asks,
         NEW S, Moved(jobs, jobs', S), S \subseteq DOMAIN jobs,
         \A j \in S : /\ JobSound(jobs'[j], opened) /\ Aside(jobs[j], jobs'[j])
                      /\ jobs[j].waiter = "walking" => jobs'[j].waiter = "walking",
         \A j \in DOMAIN jobs' \ DOMAIN jobs : JobSound(jobs'[j], opened) /\ Other(jobs'[j])
  PROVE  PanelsInv'
  <1>1. day'.opens = day.opens /\ SessionsSound' /\ opened \in Nat
    BY DayMoves DEF PanelsInv, SessionsSound
  <1>2. DOMAIN jobs \subseteq DOMAIN jobs'
    BY DEF Moved
  <1>3. JobsSound'
    <2>1. \A j \in DOMAIN jobs' : j \in S \/ j \notin DOMAIN jobs => JobSound(jobs'[j], opened')
      OBVIOUS
    <2> QED
      BY <1>1, <2>1, JobsKept
  <1>4. PreparesSound' /\ InOneHand'
    <2>1. \A j \in S \intersect DOMAIN jobs : \A s :
            /\ Untouched(jobs[j], s) => Untouched(jobs'[j], s)
            /\ Live(jobs'[j], s) => Live(jobs[j], s)
      BY DEF Aside
    <2>2. \A j \in DOMAIN jobs' \ DOMAIN jobs : jobs'[j].kind # "trace"
      BY DEF Other
    <2> QED
      BY <1>1, <2>1, <2>2, HandKept
  <1>5. WalksSound'
    BY <1>1, WalksKept
  <1>6. MarkersHeld' /\ OneMarkerEach' /\ CapKept'
    <2>1. \A j \in S \intersect DOMAIN jobs : ~Pending(jobs[j])
      BY DEF Aside
    <2>2. \A j \in DOMAIN jobs' : j \in S \/ j \notin DOMAIN jobs => ~Pending(jobs'[j])
      BY DEF Aside, Other
    <2>3. ~overlapped' => \A w, x \in walks' : w = x
      BY DEF PanelsInv, OneMarkerEach
    <2> QED
      BY <1>3, <2>1, <2>2, <2>3, ReadsKept
  <1> QED
    BY <1>1, <1>3, <1>4, <1>5, <1>6 DEF PanelsInv

LEMMA CancelKeeps ==
  ASSUME PanelsInv, NEW held, jobs' = Cancel(jobs, held), day' = day \/ Asks,
         UNCHANGED <<session, opened, preparing, job, prepares, crossed, loading, walks, overlapped>>
  PROVE  PanelsInv'
  <1>1. Moved(jobs, jobs', {}) /\ DOMAIN jobs' = DOMAIN jobs
    BY Listed, CancelMoves
  <1> QED
    BY <1>1, OnlyJobsMove DEF HandStays

LEMMA AppendKeeps ==
  ASSUME PanelsInv, NEW r, JobSound(r, opened), Other(r), jobs' = Append(jobs, r), day' = day \/ Asks,
         UNCHANGED <<session, opened, preparing, job, prepares, crossed, loading, walks, overlapped>>
  PROVE  PanelsInv'
  <1>1. /\ Moved(jobs, jobs', {}) /\ jobs'[Len(jobs')] = r
        /\ \A j \in DOMAIN jobs' : j \in DOMAIN jobs \/ j = Len(jobs')
    BY Listed, AppendMoves DEF JobSound
  <1> QED
    BY <1>1, OnlyJobsMove DEF HandStays

LEMMA SetKeeps ==
  ASSUME PanelsInv, NEW j \in DOMAIN jobs, NEW q, JobSound(q, opened), Aside(jobs[j], q),
         jobs[j].waiter = "walking" => q.waiter = "walking",
         jobs' = [jobs EXCEPT ![j] = q], day' = day \/ Asks,
         UNCHANGED <<session, opened, preparing, job, prepares, crossed, loading, walks, overlapped>>
  PROVE  PanelsInv'
  <1>1. Moved(jobs, jobs', {j}) /\ DOMAIN jobs' = DOMAIN jobs /\ jobs'[j] = q
    BY Listed, SetMoves DEF JobSound
  <1> DEFINE S == {j}
  <1>2. Moved(jobs, jobs', S) /\ S \subseteq DOMAIN jobs
    BY <1>1
  <1>3. \A k \in S : /\ JobSound(jobs'[k], opened) /\ Aside(jobs[k], jobs'[k])
                     /\ jobs[k].waiter = "walking" => jobs'[k].waiter = "walking"
    BY <1>1
  <1>4. DOMAIN jobs' \ DOMAIN jobs = {}
    BY <1>1
  <1> HIDE DEF S
  <1> QED
    BY <1>2, <1>3, <1>4, OnlyJobsMove DEF HandStays

\* A job that is over takes part in nothing.
LEMMA ReleasedSound ==
  ASSUME NEW last
  PROVE  /\ JobSound(Released, last) /\ Other(Released) /\ Released.waiter = "done"
         /\ \A s : ~Live(Released, s) /\ ~Untouched(Released, s)
  BY ReleasedIs DEF JobSound, Other, Pending, Live, Untouched

LEMMA WithdrawKeeps == PanelsInv /\ Withdraw => PanelsInv'
  <1> SUFFICES ASSUME PanelsInv, Withdraw PROVE PanelsInv'
    OBVIOUS
  <1>1. jobs' = Cancel(jobs, {job})
    BY DEF Withdraw, CancelTrace
  <1> QED
    BY <1>1, CancelKeeps DEF Withdraw, CancelTrace, unshown, showVars

LEMMA LargeViewKeeps ==
  ASSUME PanelsInv, CloseOverlay \/ \E v : OpenOverlay(v)
  PROVE  PanelsInv'
  <1>1. jobs' = Cancel(jobs, Held)
    BY DEF CloseOverlay, OpenOverlay
  <1> QED
    BY <1>1, CancelKeeps DEF CloseOverlay, OpenOverlay, submitOnly, showVars

\* Jobs that are asked for: of which kind, for whom.
IsAsked(r, owner, kind, key) ==
  /\ JobShape(r) /\ r.kind = kind /\ r.session = session /\ r.ids = <<key[1]>>
  /\ r.asked.owner = owner /\ r.asked.value = key[2]
  /\ r.state = "running" /\ r.cancelled = FALSE /\ r.waiter = "waiting"

LEMMA AskedIs ==
  ASSUME NEW owner, NEW kind, NEW key
  PROVE  IsAsked(Asked(owner, kind, key), owner, kind, key)
  <1> DEFINE asked == [owner |-> owner, value |-> key[2],
                       epoch |-> IF owner = "overlay" THEN overlay.epoch ELSE 0]
             p == NewJob(kind, session, <<key[1]>>, asked)
  <1>1. Asked(owner, kind, key) = [p EXCEPT !.waiter = "waiting"]
    BY DEF Asked
  <1>2. asked.owner = owner /\ asked.value = key[2]
    OBVIOUS
  <1> HIDE DEF asked
  <1>3. /\ JobShape(p) /\ p.kind = kind /\ p.session = session /\ p.ids = <<key[1]>> /\ p.asked = asked
        /\ p.state = "running" /\ p.cancelled = FALSE
    BY DEF NewJob, JobShape
  <1> HIDE DEF p
  <1> QED
    BY <1>1, <1>2, <1>3, WaiterSet DEF IsAsked

LEMMA AskOverlayKeeps ==
  ASSUME PanelsInv, NEW kind \in OverlayKinds, AskOverlay(kind)
  PROVE  PanelsInv'
  <1> DEFINE key == overlay.open
             r == Asked("overlay", kind, key)
  <1> HIDE DEF key
  <1>1. /\ JobShape(r) /\ r.kind = kind /\ r.session = session
        /\ r.asked.owner = "overlay" /\ r.state = "running" /\ r.waiter = "waiting"
    <2>1. IsAsked(r, "overlay", kind, key)
      BY AskedIs
    <2> HIDE DEF r
    <2> QED
      BY <2>1 DEF IsAsked
  <1>2. kind \notin {"trace", "compare", "none"} /\ session \in 1..opened
    BY PanelsAssumption DEF AskOverlay, PanelsInv, SessionsSound
  <1>3. jobs' = Append(jobs, r)
    BY DEF AskOverlay, key
  <1> HIDE DEF r
  <1>4. JobSound(r, opened) /\ Other(r)
    BY <1>1, <1>2 DEF JobSound, Other, Pending
  <1>5. /\ day' = day \/ Asks
        /\ UNCHANGED <<session, opened, preparing, job, prepares, crossed, loading, walks, overlapped>>
    BY DEF AskOverlay, submitOnly, showVars
  <1> QED
    BY <1>3, <1>4, <1>5, AppendKeeps

LEMMA AskCompareKeeps == PanelsInv /\ AskCompare => PanelsInv'
  <1> SUFFICES ASSUME PanelsInv, AskCompare PROVE PanelsInv'
    OBVIOUS
  <1>1. PICK other \in TracesOf(session) \ {active} :
          jobs' = Append(jobs, [NewJob("compare", session, <<other, active>>, None)
                                  EXCEPT !.waiter = "waiting"])
    BY DEF AskCompare, Compare
  <1> DEFINE p == NewJob("compare", session, <<other, active>>, None)
             r == [p EXCEPT !.waiter = "waiting"]
  <1>2. JobShape(p) /\ p.kind = "compare" /\ p.session = session
    BY DEF NewJob, JobShape
  <1>3. jobs' = Append(jobs, r)
    BY <1>1
  <1> HIDE DEF p
  <1>4. JobShape(r) /\ r.kind = "compare" /\ r.session = session
    BY <1>2, WaiterSet
  <1> HIDE DEF r
  <1>5. session \in 1..opened
    BY DEF AskCompare, Compare, PanelsInv, SessionsSound
  <1>6. JobSound(r, opened) /\ Other(r)
    BY <1>4, <1>5 DEF JobSound, Other, Pending
  <1>7. /\ day' = day \/ Asks
        /\ UNCHANGED <<session, opened, preparing, job, prepares, crossed, loading, walks, overlapped>>
    BY DEF AskCompare, Compare, unshown, showVars
  <1> QED
    BY <1>3, <1>6, <1>7, AppendKeeps

-----------------------------------------------------------------------------
(* The jobs of the trace panel and of the large view. *)

LEMMA EndsWithKeeps ==
  ASSUME PanelsInv, NEW j \in DOMAIN jobs, jobs[j].kind \in {"trace", "compare"},
         NEW outcome, outcome # "running", EndsWith(j, outcome), day' = day,
         UNCHANGED <<session, opened, preparing, job, prepares, crossed, loading, walks, overlapped>>
  PROVE  PanelsInv'
  <1>1. JobSound(jobs[j], opened) /\ JobShape(jobs[j])
    BY DEF PanelsInv, JobsSound, JobSound
  <1>2. CASE jobs[j].waiter = "died"
    <2>1. jobs' = [jobs EXCEPT ![j] = Released]
      BY <1>2, Listed, ListHas DEF EndsWith
    <2>2. Aside(jobs[j], Released) /\ JobSound(Released, opened)
      BY <1>2, ReleasedSound DEF Aside, Other, Untouched, Pending
    <2> QED
      BY <1>2, <2>1, <2>2, SetKeeps
  <1>3. CASE jobs[j].waiter # "died"
    <2> DEFINE q == [jobs[j] EXCEPT !.state = outcome]
    <2>1. jobs' = [jobs EXCEPT ![j] = q]
      BY <1>3, Listed, ListHas DEF EndsWith
    <2>2. /\ JobShape(q) /\ q.kind = jobs[j].kind /\ q.session = jobs[j].session /\ q.ids = jobs[j].ids
          /\ q.asked = jobs[j].asked /\ q.state = outcome /\ q.waiter = jobs[j].waiter
      BY <1>1, StateSet
    <2> HIDE DEF q
    <2>3. Aside(jobs[j], q) /\ JobSound(q, opened)
      BY <1>1, <2>2 DEF Aside, Untouched, Live, Pending, JobSound
    <2> QED
      BY <2>1, <2>2, <2>3, SetKeeps
  <1> QED
    BY <1>2, <1>3

LEMMA JobsKeep == PanelsInv /\ Jobs => PanelsInv'
  <1> SUFFICES ASSUME PanelsInv, Jobs PROVE PanelsInv'
    OBVIOUS
  <1>1. PICK j \in DOMAIN jobs : TraceSucceeds(j) \/ CompareSucceeds(j) \/ JobFails(j)
    BY DEF Jobs, TraceJobStep
  <1>2. /\ jobs[j].kind \in {"trace", "compare"}
        /\ UNCHANGED <<day, session, opened, preparing, job, prepares, crossed>>
        /\ EndsWith(j, "succeeded") \/ EndsWith(j, "cancelled") \/ EndsWith(j, "failed")
    BY <1>1 DEF TraceSucceeds, CompareSucceeds, JobFails
  <1>3. UNCHANGED <<loading, walks, overlapped>>
    BY DEF Jobs, unshown, showVars
  <1> QED
    BY <1>2, <1>3, EndsWithKeeps

\* A waiter that gives up, or one of the large view that goes on.
LEMMA LoseCompareKeeps ==
  ASSUME PanelsInv, NEW j \in DOMAIN jobs, LoseCompare(j)
  PROVE  PanelsInv'
  <1>1. /\ jobs' = [jobs EXCEPT ![j] = Released] /\ jobs[j].waiter = "waiting"
        /\ jobs[j].kind = "compare" /\ day' = day
        /\ UNCHANGED <<session, opened, preparing, job, prepares, crossed, loading, walks, overlapped>>
    BY DEF LoseCompare, CompareFails, unshown, showVars
  <1>2. Aside(jobs[j], Released) /\ JobSound(Released, opened)
    BY <1>1, ReleasedSound DEF Aside, Other, Untouched, Pending
  <1> QED
    BY <1>1, <1>2, SetKeeps

LEMMA OverlayChecksKeeps ==
  ASSUME PanelsInv, NEW j \in DOMAIN jobs, OverlayChecks(j)
  PROVE  PanelsInv'
  <1>1. PICK outcome \in Outcomes(j), waiter \in {"checked", "done"} : EndsAs(j, outcome, waiter)
    BY DEF OverlayChecks
  <1>2. /\ jobs[j].waiter = "waiting" /\ jobs[j].asked.owner = "overlay" /\ jobs[j].kind # "trace" /\ day' = day
        /\ UNCHANGED <<session, opened, preparing, job, prepares, crossed, loading, walks, overlapped>>
    BY PanelsAssumption DEF OverlayChecks, Waits, submitOnly, panelOnly
  <1>3. outcome # "running"
    BY DEF Outcomes
  <1>4. JobSound(jobs[j], opened) /\ JobShape(jobs[j])
    BY DEF PanelsInv, JobsSound, JobSound
  <1>5. CASE waiter = "done"
    <2>1. jobs' = [jobs EXCEPT ![j] = Released]
      BY <1>1, <1>5, Listed, ListHas DEF EndsAs
    <2>2. Aside(jobs[j], Released) /\ JobSound(Released, opened)
      BY <1>2, ReleasedSound DEF Aside, Other, Untouched, Pending
    <2> QED
      BY <1>2, <2>1, <2>2, SetKeeps
  <1>6. CASE waiter = "checked"
    <2> DEFINE q == Redone(jobs[j], outcome, waiter)
    <2>1. jobs' = [jobs EXCEPT ![j] = q]
      BY <1>1, <1>6, Listed, ListHas DEF EndsAs, Redone
    <2>2. /\ JobShape(q) /\ q.kind = jobs[j].kind /\ q.session = jobs[j].session /\ q.ids = jobs[j].ids
          /\ q.asked = jobs[j].asked /\ q.state = outcome /\ q.waiter = waiter
      BY <1>4, BothSet
    <2> HIDE DEF q
    <2>3. Aside(jobs[j], q) /\ JobSound(q, opened)
      BY <1>2, <1>3, <1>4, <1>6, <2>2 DEF Aside, Untouched, Live, Pending, JobSound
    <2> QED
      BY <1>2, <2>1, <2>3, SetKeeps
  <1> QED
    BY <1>5, <1>6

\* The trace is over: the panel forgets its job.
LEMMA SettleKeeps ==
  ASSUME PanelsInv, NEW j \in DOMAIN jobs, Settle(j)
  PROVE  PanelsInv'
  <1>1. PICK held : WatchSettles(j, held)
    BY DEF Settle
  <1> DEFINE mid == [jobs EXCEPT ![j] = Released]
  <1>2. /\ jobs' = Cancel(mid, held) /\ jobs[j].kind = "trace" /\ jobs[j].waiter \in {"presented", "waiting"}
        /\ job' = IF job = j THEN 0 ELSE job
        /\ UNCHANGED <<day, session, opened, preparing, prepares, crossed>>
    BY <1>1 DEF WatchSettles
  <1>3. UNCHANGED <<loading, walks, overlapped>>
    BY DEF Settle, showVars
  <1>4. Moved(jobs, mid, {j}) /\ DOMAIN mid = DOMAIN jobs /\ mid[j] = Released
    BY Listed, ReleasedIs, SetMoves
  <1> HIDE DEF mid
  <1>5. Moved(mid, jobs', {}) /\ DOMAIN jobs' = DOMAIN jobs
    BY <1>2, <1>4, CancelMoves DEF Moved
  <1>6. Moved(jobs, jobs', {j})
    <2>1. Moved(jobs, jobs', {j} \union {})
      BY <1>4, <1>5, MovedTwice
    <2>2. {j} \union {} = {j}
      OBVIOUS
    <2> QED
      BY <2>1, <2>2
  <1>7. Same(Released, jobs'[j]) /\ JobShape(jobs'[j])
    BY <1>4, <1>5 DEF Moved, IsList
  <1>8. /\ JobSound(jobs'[j], opened) /\ Aside(jobs[j], jobs'[j]) /\ \A s : ~Live(jobs'[j], s)
        /\ jobs[j].waiter # "walking"
    BY <1>2, <1>7, ReleasedIs DEF JobSound, Aside, Same, Live, Untouched, Pending
  <1>9. HandStays
    BY <1>2, <1>8 DEF HandStays
  <1> DEFINE S == {j}
  <1>10. Moved(jobs, jobs', S) /\ S \subseteq DOMAIN jobs
    BY <1>6
  <1>11. \A k \in S : /\ JobSound(jobs'[k], opened) /\ Aside(jobs[k], jobs'[k])
                      /\ jobs[k].waiter = "walking" => jobs'[k].waiter = "walking"
    BY <1>8
  <1>12. DOMAIN jobs' \ DOMAIN jobs = {}
    BY <1>5
  <1> HIDE DEF S
  <1> QED
    BY <1>2, <1>3, <1>9, <1>10, <1>11, <1>12, OnlyJobsMove

-----------------------------------------------------------------------------
(* Walks over the pinned rows. *)

LEMMA WalkBegins ==
  ASSUME PanelsInv, UNCHANGED <<session, opened, preparing, job, prepares, crossed, loading>>,
         day' = day \/ Asks,
         NEW S, Moved(jobs, jobs', S), S \subseteq DOMAIN jobs, DOMAIN jobs' = DOMAIN jobs,
         \A j \in S : /\ JobSound(jobs'[j], opened) /\ Aside(jobs[j], jobs'[j])
                      /\ jobs[j].waiter # "walking",
         NEW who, who # 0 => who \in S /\ jobs'[who].waiter = "walking",
         NEW rows, walks' = walks \union {[who |-> who, todo |-> rows, at |-> None]},
         overlapped \/ walks # {} => overlapped'
  PROVE  PanelsInv'
  <1>1. day'.opens = day.opens /\ SessionsSound' /\ opened \in Nat
    BY DayMoves DEF PanelsInv, SessionsSound
  <1>2. JobsSound'
    <2>1. \A j \in DOMAIN jobs' : j \in S \/ j \notin DOMAIN jobs => JobSound(jobs'[j], opened')
      OBVIOUS
    <2> QED
      BY <1>1, <2>1, JobsKept
  <1>3. PreparesSound' /\ InOneHand'
    <2>1. \A j \in S \intersect DOMAIN jobs : \A s :
            /\ Untouched(jobs[j], s) => Untouched(jobs'[j], s)
            /\ Live(jobs'[j], s) => Live(jobs[j], s)
      BY DEF Aside
    <2> QED
      BY <1>1, <2>1, HandKept DEF HandStays
  <1>4. WalksSound'
    <2>1. who # 0 => who \in S \intersect DOMAIN jobs /\ jobs'[who].waiter = "walking"
      OBVIOUS
    <2> QED
      BY <2>1, WalksMore
  <1>5. MarkersHeld' /\ OneMarkerEach' /\ CapKept'
    <2>1. \A j \in S \intersect DOMAIN jobs : ~Pending(jobs[j])
      BY DEF Aside
    <2>2. \A j \in DOMAIN jobs' : j \in S \/ j \notin DOMAIN jobs => ~Pending(jobs'[j])
      BY DEF Aside
    <2> DEFINE new == [who |-> who, todo |-> rows, at |-> None]
    <2>3. ~overlapped' => walks' = {new} /\ new.at = None
      OBVIOUS
    <2> HIDE DEF new
    <2>4. ~overlapped' => \A w, x \in walks' : w = x
      BY <2>3
    <2>5. ~overlapped' => \A w \in walks' : w.at # None /\ w.at[1] = session => w \in walks
      BY <2>3
    <2> QED
      BY <1>2, <2>1, <2>2, <2>4, <2>5, ReadsKept
  <1> QED
    BY <1>1, <1>2, <1>3, <1>4, <1>5 DEF PanelsInv

\* A handler of the event loop rebuilds the strip.
LEMMA StripKeeps ==
  ASSUME PanelsInv, \/ PickTrace
                    \/ \E v : Pin(v) \/ Unpin(v) \/ RetryStatistics(v)
  PROVE  PanelsInv'
  <1>1. \E rows : Walks(0, rows)
    BY DEF PickTrace, Pin, Unpin, RetryStatistics
  <1>2. PICK rows : walks' = walks \union {[who |-> 0, todo |-> rows, at |-> None]}
    BY <1>1 DEF Walks
  <1>3. /\ overlapped \/ walks # {} => overlapped'
        /\ day' = day \/ Asks
        /\ UNCHANGED <<session, opened, preparing, job, prepares, crossed, loading>>
    BY <1>1 DEF Walks, PickTrace, SelectTrace, Pin, Unpin, RetryStatistics, submitOnly, showVars
  <1>4. Moved(jobs, jobs', {}) /\ DOMAIN jobs' = DOMAIN jobs
    <2>1. CASE UNCHANGED jobs
      BY <2>1, Listed, StillMoves
    <2>2. CASE jobs' = Cancel(jobs, Held)
      BY <2>2, Listed, CancelMoves
    <2> QED
      BY <2>1, <2>2 DEF PickTrace, SelectTrace, Pin, Unpin, RetryStatistics
  <1> DEFINE who == 0  S == {}
  <1>5. Moved(jobs, jobs', S) /\ S \subseteq DOMAIN jobs /\ \A j \in S : FALSE
    BY <1>4
  <1>6. who = 0 /\ walks' = walks \union {[who |-> who, todo |-> rows, at |-> None]}
    BY <1>2
  <1> HIDE DEF who, S
  <1> QED
    BY <1>3, <1>4, <1>5, <1>6, WalkBegins

\* A thread that has presented something redraws.
LEMMA ThreadWalks ==
  ASSUME PanelsInv, NEW j \in DOMAIN jobs, jobs[j].waiter \notin {"none", "walking"}, ~Pending(jobs[j]),
         jobs' = [jobs EXCEPT ![j].waiter = "walking"],
         NEW rows, walks' = walks \union {[who |-> j, todo |-> rows, at |-> None]},
         overlapped \/ walks # {} => overlapped', day' = day,
         jobs[j].kind = "statistics" => jobs[j].state # "running",
         UNCHANGED <<session, opened, preparing, job, prepares, crossed, loading>>
  PROVE  PanelsInv'
  <1> DEFINE q == [jobs[j] EXCEPT !.waiter = "walking"]
  <1>1. JobSound(jobs[j], opened) /\ JobShape(jobs[j])
    BY DEF PanelsInv, JobsSound, JobSound
  <1>2. jobs' = [jobs EXCEPT ![j] = q]
    BY Listed, ListHas
  <1>3. /\ JobShape(q) /\ q.kind = jobs[j].kind /\ q.session = jobs[j].session /\ q.ids = jobs[j].ids
        /\ q.asked = jobs[j].asked /\ q.state = jobs[j].state /\ q.waiter = "walking"
        /\ q.cancelled = jobs[j].cancelled
    BY <1>1, WaiterSet
  <1> HIDE DEF q
  <1>4. Moved(jobs, jobs', {j}) /\ DOMAIN jobs' = DOMAIN jobs /\ jobs'[j] = q
    <2>1. IsList(jobs) /\ JobShape(q) /\ j \in DOMAIN jobs
      BY <1>3, Listed
    <2> DEFINE new == [jobs EXCEPT ![j] = q]
    <2>2. Moved(jobs, new, {j}) /\ DOMAIN new = DOMAIN jobs /\ new[j] = q
      BY ONLY <2>1, SetMoves
    <2> QED
      BY <1>2, <2>2
  <1>5. JobSound(q, opened) /\ Aside(jobs[j], q)
    BY <1>1, <1>3 DEF JobSound, Aside, Untouched, Live, Pending
  <1> DEFINE S == {j}
  <1>6. Moved(jobs, jobs', S) /\ S \subseteq DOMAIN jobs /\ j \in S /\ jobs'[j].waiter = "walking"
    BY <1>3, <1>4
  <1>7. \A k \in S : /\ JobSound(jobs'[k], opened) /\ Aside(jobs[k], jobs'[k])
                     /\ jobs[k].waiter # "walking"
    BY <1>4, <1>5
  <1> HIDE DEF S
  <1> QED
    BY <1>4, <1>6, <1>7, WalkBegins

LEMMA PresentKeeps ==
  ASSUME PanelsInv, NEW j \in DOMAIN jobs, Present(j) \/ LandCompare(j)
  PROVE  PanelsInv'
  <1>1. /\ jobs[j].waiter = "waiting" /\ jobs[j].kind \in {"trace", "compare"}
        /\ jobs' = [jobs EXCEPT ![j].waiter = "walking"]
        /\ UNCHANGED <<day, session, opened, preparing, job, prepares, crossed>>
    BY DEF Present, LandCompare, WatchPresents, CompareLands
  <1>2. /\ walks' = walks \union {[who |-> j, todo |-> pins, at |-> None]}
        /\ overlapped \/ walks # {} => overlapped'
        /\ UNCHANGED loading
    BY DEF Present, LandCompare, Redraws, showVars
  <1>3. ~Pending(jobs[j])
    BY <1>1 DEF Pending
  <1> QED
    BY <1>1, <1>2, <1>3, ThreadWalks

LEMMA OverlayLandsKeeps ==
  ASSUME PanelsInv, NEW j \in DOMAIN jobs, OverlayLands(j)
  PROVE  PanelsInv'
  <1>1. /\ jobs[j].waiter = "checked" /\ ~Pending(jobs[j])
        /\ UNCHANGED <<day, session, opened, preparing, job, prepares, crossed, loading>>
    BY DEF OverlayLands, submitOnly, Pending
  <1>2. CASE jobs[j].kind = "statistics" /\ jobs[j].state = "succeeded"
    <2>1. /\ jobs' = [jobs EXCEPT ![j].waiter = "walking"]
          /\ walks' = walks \union {[who |-> j, todo |-> pins, at |-> None]}
          /\ overlapped \/ walks # {} => overlapped'
      BY <1>2 DEF OverlayLands, ThenWalks
    <2> QED
      BY <1>1, <1>2, <2>1, ThreadWalks
  <1>3. CASE ~(jobs[j].kind = "statistics" /\ jobs[j].state = "succeeded")
    <2>1. jobs' = [jobs EXCEPT ![j] = Released] /\ UNCHANGED <<walks, overlapped>>
      BY <1>3 DEF OverlayLands
    <2>2. Aside(jobs[j], Released) /\ JobSound(Released, opened)
      BY <1>1, ReleasedSound DEF Aside, Other, Untouched
    <2> QED
      BY <1>1, <2>1, <2>2, SetKeeps
  <1> QED
    BY <1>2, <1>3

\* A walk looks at a row.
LEMMA WalkLooksKeeps ==
  ASSUME PanelsInv, NEW w \in walks, WalkLooks(w)
  PROVE  PanelsInv'
  <1>1. PICK v \in w.todo : /\ Wanting(v)
                            /\ walks' = (walks \ {w}) \union
                                 {[w EXCEPT !.todo = @ \ {v}, !.at = <<session, Shown, v>>]}
    BY Zenon DEF WalkLooks
  <1> DEFINE p == [w EXCEPT !.todo = @ \ {v}]
             x == [p EXCEPT !.at = <<session, Shown, v>>]
  <1>2. /\ UNCHANGED <<day, session, opened, preparing, job, prepares, crossed, loading, overlapped, jobs>>
        /\ Cardinality(StatMarkers) < MaxWatchJobs /\ w.at = None
    BY DEF WalkLooks, panelVars, showVars, SlotFree, StatMarkers
  <1>3. w = [who |-> w.who, todo |-> w.todo, at |-> w.at]
    BY DEF PanelsInv, WalksSound
  <1>4. walks' = (walks \ {w}) \union {x}
    BY <1>1
  <1>5. p = [who |-> p.who, todo |-> p.todo, at |-> p.at] /\ p.who = w.who
    BY <1>3
  <1> HIDE DEF p
  <1>6. x = [who |-> x.who, todo |-> x.todo, at |-> x.at] /\ x.who = w.who /\ x.at = <<session, Shown, v>>
    BY <1>5
  <1> HIDE DEF x
  <1>7. session \in 1..opened
    BY <1>1 DEF Wanting, Readable, Shown, PanelsInv, SessionsSound
  <1>8. WalksSound'
    <2>1. ASSUME NEW y \in walks'
          PROVE  /\ y = [who |-> y.who, todo |-> y.todo, at |-> y.at]
                 /\ y.who # 0 => y.who \in DOMAIN jobs' /\ jobs'[y.who].waiter = "walking"
                 /\ y.at # None => y.at[1] \in 1..opened'
      BY <1>2, <1>4, <1>6, <1>7 DEF PanelsInv, WalksSound
    <2>2. ASSUME NEW y \in walks', NEW z \in walks', y.who = z.who, y.who # 0 PROVE y = z
      BY <1>4, <1>6, <2>2 DEF PanelsInv, WalksSound
    <2> QED
      BY <2>1, <2>2 DEF WalksSound
  <1>9. OneMarkerEach'
    <2>1. ~overlapped => walks' = {x}
      BY <1>4 DEF PanelsInv, OneMarkerEach
    <2>2. <<x.at[2], x.at[3], "statistics">> \notin loading
      BY <1>1, <1>6 DEF Wanting
    <2>3. StatMarkers' = StatMarkers
      BY <1>2 DEF StatMarkers
    <2> QED
      BY <1>2, <2>1, <2>2, <2>3 DEF PanelsInv, OneMarkerEach
  <1>10. /\ SessionsSound' /\ JobsSound' /\ PreparesSound' /\ InOneHand' /\ MarkersHeld' /\ CapKept'
    BY <1>2 DEF PanelsInv, SessionsSound, JobsSound, PreparesSound, PrepareSound, Artifact, InOneHand,
                MarkersHeld, CapKept
  <1> QED
    BY <1>8, <1>9, <1>10 DEF PanelsInv

LEMMA WalkEndsKeeps ==
  ASSUME PanelsInv, NEW w \in walks, WalkEnds(w)
  PROVE  PanelsInv'
  <1>1. /\ walks' = walks \ {w} /\ day' = day
        /\ UNCHANGED <<session, opened, preparing, job, prepares, crossed, loading, overlapped>>
    BY DEF WalkEnds, showVars
  <1> DEFINE S == IF w.who = 0 THEN {} ELSE {w.who}
  <1>2. S \subseteq DOMAIN jobs /\ \A j \in S : jobs[j].waiter = "walking"
    BY DEF PanelsInv, WalksSound
  <1>3. /\ Moved(jobs, jobs', S) /\ DOMAIN jobs' = DOMAIN jobs
        /\ \A j \in S : JobSound(jobs'[j], opened) /\ Aside(jobs[j], jobs'[j])
    <2>1. CASE w.who = 0
      BY <2>1, Listed, StillMoves DEF WalkEnds
    <2>2. CASE w.who # 0
      <3> DEFINE j == w.who
      <3>1. j \in DOMAIN jobs /\ S = {j} /\ jobs[j].waiter = "walking" /\ JobSound(jobs[j], opened) /\ JobShape(jobs[j])
        BY <1>2, <2>2 DEF PanelsInv, JobsSound, JobSound
      <3>2. CASE jobs[j].kind = "trace"
        <4> DEFINE q == [jobs[j] EXCEPT !.waiter = "presented"]
        <4>1. jobs' = [jobs EXCEPT ![j] = q]
          BY <2>2, <3>1, <3>2, Listed, ListHas DEF WalkEnds
        <4>2. /\ JobShape(q) /\ q.kind = jobs[j].kind /\ q.session = jobs[j].session /\ q.ids = jobs[j].ids
              /\ q.asked = jobs[j].asked /\ q.state = jobs[j].state /\ q.waiter = "presented"
              /\ q.cancelled = jobs[j].cancelled
          BY <3>1, WaiterSet
        <4> HIDE DEF q, j
        <4>3. JobSound(q, opened) /\ Aside(jobs[j], q)
          BY <3>1, <3>2, <4>2 DEF JobSound, Aside, Untouched, Live, Pending
        <4>4. Moved(jobs, jobs', {j}) /\ DOMAIN jobs' = DOMAIN jobs /\ jobs'[j] = q
          BY <3>1, <4>1, <4>2, Listed, SetMoves
        <4> QED
          BY <3>1, <4>3, <4>4
      <3>3. CASE jobs[j].kind # "trace"
        <4>1. jobs' = [jobs EXCEPT ![j] = Released]
          BY <2>2, <3>1, <3>3, Listed, ListHas DEF WalkEnds
        <4> HIDE DEF j
        <4>2. JobSound(Released, opened) /\ Aside(jobs[j], Released) /\ JobShape(Released)
          BY <3>1, ReleasedSound, ReleasedIs DEF Aside, Other, Untouched, Pending
        <4>3. Moved(jobs, jobs', {j}) /\ DOMAIN jobs' = DOMAIN jobs /\ jobs'[j] = Released
          BY <3>1, <4>1, <4>2, Listed, SetMoves
        <4> QED
          BY <3>1, <4>2, <4>3
      <3> QED
        BY <3>2, <3>3
    <2> QED
      BY <2>1, <2>2
  <1>4. day'.opens = day.opens /\ SessionsSound' /\ opened \in Nat
    BY <1>1, DayMoves DEF PanelsInv, SessionsSound
  <1>5. JobsSound'
    <2>1. \A j \in DOMAIN jobs' : j \in S \/ j \notin DOMAIN jobs => JobSound(jobs'[j], opened')
      BY <1>1, <1>3
    <2> HIDE DEF S
    <2> QED
      BY <1>1, <1>3, <1>4, <2>1, JobsKept
  <1>6. PreparesSound' /\ InOneHand'
    <2>1. \A j \in S \intersect DOMAIN jobs : \A s :
            /\ Untouched(jobs[j], s) => Untouched(jobs'[j], s)
            /\ Live(jobs'[j], s) => Live(jobs[j], s)
      BY <1>3 DEF Aside
    <2> HIDE DEF S
    <2> QED
      BY <1>1, <1>3, <1>4, <2>1, HandKept DEF HandStays
  <1>7. WalksSound'
    <2>1. \A y \in walks' : y \in walks /\ (y.who # 0 => y.who \notin S)
      BY <1>1 DEF PanelsInv, WalksSound
    <2>2. \A y \in walks' : y.who # 0 => y.who \in DOMAIN jobs' /\ jobs'[y.who].waiter = "walking"
      BY <1>3, <2>1 DEF PanelsInv, WalksSound, Moved, Same
    <2> QED
      BY <1>1, <2>1, <2>2 DEF PanelsInv, WalksSound
  <1>8. MarkersHeld' /\ OneMarkerEach' /\ CapKept'
    <2>1. \A j \in S \intersect DOMAIN jobs : ~Pending(jobs[j])
      BY <1>3 DEF Aside
    <2>2. \A j \in DOMAIN jobs' : j \in S \/ j \notin DOMAIN jobs => ~Pending(jobs'[j])
      BY <1>3 DEF Aside
    <2>3. ~overlapped' => \A y, x \in walks' : y = x
      BY <1>1 DEF PanelsInv, OneMarkerEach
    <2>4. ~overlapped' => \A y \in walks' : y.at # None /\ y.at[1] = session => y \in walks
      BY <1>1
    <2> HIDE DEF S
    <2> QED
      BY <1>1, <1>3, <1>5, <2>1, <2>2, <2>3, <2>4, ReadsKept
  <1> QED
    BY <1>4, <1>5, <1>6, <1>7, <1>8 DEF PanelsInv

-----------------------------------------------------------------------------
(* Reads with a marker: they begin and land. *)

\* With one walk at a time, the strip has no more reads than there are markers.
LEMMA WatchWithinMarkers ==
  ASSUME PanelsInv, ~overlapped
  PROVE  Cardinality(OfWatch(jobs, session)) <= Cardinality(StatMarkers)
  <1> DEFINE f == [j \in OfWatch(jobs, session) |-> Mark(jobs[j])]
  <1>1. OfWatch(jobs, session) \subseteq Current(jobs, session)
    BY WatchIsCurrent DEF PanelsInv, JobsSound
  <1>2. \A j \in OfWatch(jobs, session) : Mark(jobs[j]) \in StatMarkers
    <2>1. \A j \in OfWatch(jobs, session) : Mark(jobs[j]) \in loading
      BY <1>1 DEF PanelsInv, OneMarkerEach
    <2>2. \A j \in OfWatch(jobs, session) : Mark(jobs[j])[3] = "statistics"
      BY DEF Mark, OfWatch
    <2> QED
      BY <2>1, <2>2 DEF StatMarkers
  <1>3. \A i, j \in OfWatch(jobs, session) : Mark(jobs[i]) = Mark(jobs[j]) => i = j
    BY <1>1 DEF PanelsInv, OneMarkerEach
  <1>4. f \in Injection(OfWatch(jobs, session), StatMarkers)
    BY <1>2, <1>3 DEF Injection, IsInjective
  <1>5. IsFiniteSet(StatMarkers)
    BY FS_Subset DEF PanelsInv, MarkersHeld, StatMarkers
  <1> QED
    BY <1>4, <1>5, FS_Injection

LEMMA ReadBegins ==
  ASSUME PanelsInv, UNCHANGED <<session, opened, preparing, job, prepares, crossed>>, session # 0,
         day' = day \/ Asks, overlapped => overlapped',
         NEW owner \in {"inspector", "watch"}, NEW kind \in {"statistics", "views"}, NEW id, NEW v,
         jobs' = Append(jobs, Asked(owner, kind, <<id, v>>)),
         loading' = loading \union {<<id, v, kind>>},
         WalksSound',
         ~overlapped' => \A w, x \in walks' : w = x,
         ~overlapped' /\ kind = "views" =>
           \A w \in walks' : w.at # None /\ w.at[1] = session => w \in walks,
         ~overlapped' /\ kind = "statistics" =>
           /\ <<id, v, kind>> \notin loading
           /\ \A w \in walks' : ~(w.at # None /\ w.at[1] = session),
         ~overlapped' /\ owner = "watch" => Cardinality(StatMarkers) < MaxWatchJobs
  PROVE  PanelsInv'
  <1> DEFINE key == <<id, v>>
             r == Asked(owner, kind, key)
             n == Len(jobs')
             m == <<id, v, kind>>
  <1>1. /\ JobShape(r) /\ r.kind = kind /\ r.session = session /\ r.ids = <<id>>
        /\ r.asked.owner = owner /\ r.asked.value = v
        /\ r.state = "running" /\ r.waiter = "waiting"
    <2>1. IsAsked(r, owner, kind, key)
      BY AskedIs
    <2>2. key[1] = id /\ key[2] = v
      OBVIOUS
    <2> HIDE DEF r, key
    <2> QED
      BY <2>1, <2>2 DEF IsAsked
  <1>2. jobs' = Append(jobs, r)
    OBVIOUS
  <1> HIDE DEF r, key
  <1>3. Pending(r) /\ Mark(r) = m
    BY <1>1 DEF Pending, Mark
  <1>4. day'.opens = day.opens /\ SessionsSound' /\ opened \in Nat /\ session \in 1..opened
    BY DayMoves DEF PanelsInv, SessionsSound
  <1>5. JobSound(r, opened)
    BY <1>1, <1>4 DEF JobSound
  <1>6. /\ Moved(jobs, jobs', {}) /\ jobs'[n] = r /\ n \in DOMAIN jobs' /\ n \notin DOMAIN jobs
        /\ \A j \in DOMAIN jobs' : j \in DOMAIN jobs \/ j = n
        /\ \A j \in DOMAIN jobs : j \in DOMAIN jobs' /\ jobs'[j] = jobs[j]
    BY <1>1, <1>2, Listed, AppendMoves DEF Moved
  <1> HIDE DEF n, m
  <1>7. JobsSound'
    BY <1>4, <1>5, <1>6, JobsKept
  <1>8. PreparesSound' /\ InOneHand'
    <2>1. \A j \in DOMAIN jobs' \ DOMAIN jobs : jobs'[j].kind # "trace"
      BY <1>1, <1>6
    <2> QED
      BY <1>4, <1>6, <2>1, HandKept DEF HandStays
  <1>9. loading' = loading \union {m}
    BY DEF m
  <1>10. MarkersHeld'
    <2>1. IsFiniteSet(loading')
      BY <1>9, FS_AddElement DEF PanelsInv, MarkersHeld
    <2>2. ASSUME NEW k \in loading' PROVE \E j \in DOMAIN jobs' : Pending(jobs'[j]) /\ Mark(jobs'[j]) = k
      <3>1. CASE k = m
        BY <3>1, <1>3, <1>6
      <3>2. CASE k \in loading
        BY <3>2, <1>6 DEF PanelsInv, MarkersHeld
      <3> QED
        BY <1>9, <3>1, <3>2
    <2> QED
      BY <2>1, <2>2 DEF MarkersHeld
  <1>11. \A j \in Current(jobs', session') :
           \/ j \in Current(jobs, session) /\ jobs'[j] = jobs[j]
           \/ j = n /\ kind = "statistics" /\ jobs'[j] = r
    BY <1>1, <1>6 DEF Current
  <1>12. OneMarkerEach'
    <2> SUFFICES ASSUME ~overlapped' PROVE OneMarkerEach'
      BY DEF OneMarkerEach
    <2>0. ~overlapped
      OBVIOUS
    <2>1. \A i \in Current(jobs', session') : Mark(jobs'[i]) \in loading'
      BY <1>3, <1>9, <1>11, <2>0 DEF PanelsInv, OneMarkerEach
    <2>2. ASSUME NEW i \in Current(jobs', session'), NEW j \in Current(jobs', session'),
                 Mark(jobs'[i]) = Mark(jobs'[j])
          PROVE  i = j
      <3>1. CASE i # n /\ j # n
        BY <1>11, <2>0, <2>2, <3>1 DEF PanelsInv, OneMarkerEach
      <3>2. CASE i = n \/ j = n
        <4>1. kind = "statistics" => m \notin loading
          BY DEF m
        <4>2. \A k \in Current(jobs, session) : Mark(jobs[k]) \in loading
          BY <2>0 DEF PanelsInv, OneMarkerEach
        <4>3. n \notin Current(jobs, session)
          BY <1>6 DEF Current
        <4>4. kind = "statistics" /\ Mark(jobs'[n]) = m
          BY <1>3, <1>6, <1>11, <3>2, <4>3
        <4>5. \A k \in Current(jobs', session') : k # n => Mark(jobs'[k]) \in loading
          BY <1>11, <4>2
        <4> QED
          BY <2>2, <3>2, <4>1, <4>4, <4>5
      <3> QED
        BY <3>1, <3>2
    <2>3. ASSUME NEW w \in walks', w.at # None, w.at[1] = session
          PROVE  /\ Cardinality(StatMarkers') < MaxWatchJobs
                 /\ <<w.at[2], w.at[3], "statistics">> \notin loading'
      <3>1. kind = "views" /\ w \in walks
        BY <2>3
      <3>2. m[3] = "views"
        BY <3>1 DEF m
      <3>3. StatMarkers' = StatMarkers
        BY <1>9, <3>2 DEF StatMarkers
      <3>4. m # <<w.at[2], w.at[3], "statistics">>
        BY <3>2
      <3> QED
        BY <1>9, <2>0, <2>3, <3>1, <3>3, <3>4 DEF PanelsInv, OneMarkerEach
    <2> QED
      BY <2>1, <2>2, <2>3 DEF OneMarkerEach
  <1>13. CapKept'
    <2>1. OfWatch(jobs', session') \subseteq OfWatch(jobs, session) \union {n}
      BY <1>6 DEF OfWatch
    <2>2. CASE owner = "inspector"
      <3>1. n \notin OfWatch(jobs', session')
        BY <1>1, <1>6, <2>2 DEF OfWatch
      <3> QED
        BY <2>1, <3>1, CapStays
    <2>3. CASE owner = "watch" /\ ~overlapped'
      <3> DEFINE W == OfWatch(jobs, session)  V == OfWatch(jobs', session')
      <3>1. IsFiniteSet(W)
        BY Listed, WatchIsFinite
      <3>2. IsFiniteSet(W \union {n}) /\ Cardinality(W \union {n}) <= Cardinality(W) + 1 /\ Cardinality(W) \in Nat
        <4> HIDE DEF W
        <4>1. Cardinality(W) \in Nat
          BY <3>1, FS_CardinalityType
        <4>2. /\ IsFiniteSet(W \union {n})
              /\ Cardinality(W \union {n}) = IF n \in W THEN Cardinality(W) ELSE Cardinality(W) + 1
          BY <3>1, FS_AddElement
        <4> QED
          BY <4>1, <4>2
      <3>3. Cardinality(V) <= Cardinality(W \union {n}) /\ Cardinality(V) \in Nat /\ Cardinality(W \union {n}) \in Nat
        BY <2>1, <3>2, FS_Subset, FS_CardinalityType
      <3>4. Cardinality(W) <= Cardinality(StatMarkers) /\ Cardinality(StatMarkers) < MaxWatchJobs
        BY <2>3, WatchWithinMarkers
      <3>5. Cardinality(StatMarkers) \in Nat
        BY FS_Subset, FS_CardinalityType DEF PanelsInv, MarkersHeld, StatMarkers
      <3> HIDE DEF V, W
      <3>6. Cardinality(V) <= MaxWatchJobs
        BY <3>2, <3>3, <3>4, <3>5, PanelsAssumption
      <3> QED
        BY <3>6 DEF CapKept, V
    <2>4. CASE overlapped'
      BY <2>4 DEF CapKept
    <2> QED
      BY <2>2, <2>3, <2>4
  <1> QED
    BY <1>4, <1>7, <1>8, <1>10, <1>12, <1>13 DEF PanelsInv

LEMMA InspectorKeeps ==
  ASSUME PanelsInv, NEW v, InspectorStatistics(v) \/ InspectorViews(v)
  PROVE  PanelsInv'
  <1> DEFINE kind == IF InspectorStatistics(v) THEN "statistics" ELSE "views"
             id == Shown
             owner == "inspector"
  <1>1. /\ UNCHANGED <<session, opened, preparing, job, prepares, crossed, walks>>
        /\ day' = day \/ Asks
        /\ v \in Readable
        /\ overlapped => overlapped'
    <2>1. CASE InspectorStatistics(v)
      BY <2>1, Zenon DEF InspectorStatistics, submitOnly
    <2>2. CASE InspectorViews(v)
      BY <2>2, Zenon DEF InspectorViews, submitOnly
    <2> QED
      BY <2>1, <2>2
  <1>2. session # 0
    BY <1>1 DEF Readable, Shown
  <1>3. /\ jobs' = Append(jobs, Asked(owner, kind, <<id, v>>))
        /\ loading' = loading \union {<<id, v, kind>>}
    BY DEF InspectorStatistics, InspectorViews
  <1>4. ~overlapped' /\ kind = "statistics" => <<id, v, kind>> \notin loading /\ walks = {}
    BY DEF InspectorStatistics
  <1>5. owner \in {"inspector", "watch"} /\ owner # "watch" /\ kind \in {"statistics", "views"}
    OBVIOUS
  <1> HIDE DEF kind, id, owner
  <1>6. WalksSound'
    <2> DEFINE r == Asked(owner, kind, <<id, v>>)
    <2>1. IsAsked(r, owner, kind, <<id, v>>)
      BY AskedIs
    <2>2. JobShape(r) /\ jobs' = Append(jobs, r)
      BY <1>3, <2>1 DEF IsAsked
    <2> HIDE DEF r
    <2>3. Moved(jobs, jobs', {}) /\ opened \in Nat
      BY <2>2, Listed, AppendMoves
    <2> QED
      BY <1>1, <2>3, WalksKept
  <1>7. ~overlapped' => \A w, x \in walks' : w = x
    BY <1>1 DEF PanelsInv, OneMarkerEach
  <1>8. ~overlapped' /\ kind = "views" =>
           \A w \in walks' : w.at # None /\ w.at[1] = session => w \in walks
    BY <1>1
  <1>9. ~overlapped' /\ kind = "statistics" =>
           /\ <<id, v, kind>> \notin loading
           /\ \A w \in walks' : ~(w.at # None /\ w.at[1] = session)
    BY <1>1, <1>4
  <1>10. ~overlapped' /\ owner = "watch" => Cardinality(StatMarkers) < MaxWatchJobs
    BY <1>5
  <1> QED
    BY <1>1, <1>2, <1>3, <1>5, <1>6, <1>7, <1>8, <1>9, <1>10, ReadBegins

\* The walk that looked adds what it found, if its session is still shown.
LEMMA WalkAddsKeeps ==
  ASSUME PanelsInv, NEW w \in walks, WalkAdds(w)
  PROVE  PanelsInv'
  <1> DEFINE x == [w EXCEPT !.at = None]
             id == w.at[2]
             v == w.at[3]
             kind == "statistics"
             owner == "watch"
  <1>1. /\ w.at # None /\ walks' = (walks \ {w}) \union {x}
        /\ UNCHANGED <<day, session, opened, preparing, job, prepares, crossed, overlapped>>
    BY DEF WalkAdds
  <1>2. w = [who |-> w.who, todo |-> w.todo, at |-> w.at] /\ w.at[1] \in 1..opened
    BY <1>1 DEF PanelsInv, WalksSound
  <1>3. x = [who |-> x.who, todo |-> x.todo, at |-> x.at] /\ x.who = w.who /\ x.at = None
    BY <1>2
  <1> HIDE DEF x
  <1>4. ASSUME DOMAIN jobs \subseteq DOMAIN jobs', \A j \in DOMAIN jobs : Same(jobs[j], jobs'[j])
        PROVE  WalksSound'
    <2>1. \A j \in DOMAIN jobs : jobs[j].waiter = "walking" => j \in DOMAIN jobs' /\ jobs'[j].waiter = "walking"
      BY <1>4 DEF Same
    <2>2. ASSUME NEW y \in walks'
          PROVE  /\ y = [who |-> y.who, todo |-> y.todo, at |-> y.at]
                 /\ y.who # 0 => y.who \in DOMAIN jobs' /\ jobs'[y.who].waiter = "walking"
                 /\ y.at # None => y.at[1] \in 1..opened'
      BY <1>1, <1>3, <2>1 DEF PanelsInv, WalksSound
    <2>3. ASSUME NEW y \in walks', NEW z \in walks', y.who = z.who, y.who # 0 PROVE y = z
      BY <1>1, <1>3, <2>3 DEF PanelsInv, WalksSound
    <2> QED
      BY <2>2, <2>3 DEF WalksSound
  <1>5. ~overlapped => walks = {w} /\ walks' = {x}
    BY <1>1 DEF PanelsInv, OneMarkerEach
  <1>6. CASE w.at[1] = session
    <2>1. /\ jobs' = Append(jobs, Asked(owner, kind, <<id, v>>))
          /\ loading' = loading \union {<<id, v, kind>>}
      BY <1>6 DEF WalkAdds
    <2>2. session # 0
      BY <1>2, <1>6
    <2>3. ~overlapped => Cardinality(StatMarkers) < MaxWatchJobs /\ <<id, v, kind>> \notin loading
      BY <1>1, <1>6 DEF PanelsInv, OneMarkerEach
    <2>4. owner \in {"inspector", "watch"} /\ kind \in {"statistics", "views"} /\ kind # "views"
      OBVIOUS
    <2> HIDE DEF id, v, kind, owner
    <2>5. WalksSound'
      <3> DEFINE r == Asked(owner, kind, <<id, v>>)
      <3>1. IsAsked(r, owner, kind, <<id, v>>)
        BY AskedIs
      <3>2. JobShape(r) /\ jobs' = Append(jobs, r)
        BY <2>1, <3>1 DEF IsAsked
      <3> HIDE DEF r
      <3>3. Moved(jobs, jobs', {})
        BY <3>2, Listed, AppendMoves
      <3> QED
        BY <1>4, <3>3 DEF Moved
    <2>6. ~overlapped' => \A y, z \in walks' : y = z
      BY <1>1, <1>5
    <2>7. ~overlapped' /\ kind = "views" =>
            \A y \in walks' : y.at # None /\ y.at[1] = session => y \in walks
      BY <2>4
    <2>8. ~overlapped' /\ kind = "statistics" =>
            /\ <<id, v, kind>> \notin loading
            /\ \A y \in walks' : ~(y.at # None /\ y.at[1] = session)
      BY <1>1, <1>3, <1>5, <2>3
    <2>9. ~overlapped' /\ owner = "watch" => Cardinality(StatMarkers) < MaxWatchJobs
      BY <1>1, <2>3
    <2> QED
      BY <1>1, <2>1, <2>2, <2>4, <2>5, <2>6, <2>7, <2>8, <2>9, ReadBegins
  <1>7. CASE w.at[1] # session
    <2>1. UNCHANGED <<jobs, loading>>
      BY <1>7 DEF WalkAdds
    <2>2. Moved(jobs, jobs', {})
      BY <2>1, Listed, StillMoves
    <2>3. WalksSound'
      BY <1>4, <2>1, <2>2 DEF Moved
    <2>4. SessionsSound' /\ JobsSound' /\ PreparesSound' /\ InOneHand'
      BY <1>1, <2>1 DEF PanelsInv, SessionsSound, JobsSound, PreparesSound, PrepareSound, Artifact, InOneHand
    <2>5. MarkersHeld' /\ OneMarkerEach' /\ CapKept'
      <3>1. ~overlapped' => \A y, z \in walks' : y = z
        BY <1>1, <1>5
      <3>2. ~overlapped' => \A y \in walks' : y.at # None /\ y.at[1] = session => y \in walks
        BY <1>1, <1>3
      <3>3. overlapped => overlapped'
        BY <1>1
      <3>4. UNCHANGED <<session, loading>>
        BY <1>1, <2>1
      <3> QED
        BY <2>1, <2>2, <2>4, <3>1, <3>2, <3>3, <3>4, ReadsKept
    <2> QED
      BY <2>3, <2>4, <2>5 DEF PanelsInv
  <1> QED
    BY <1>6, <1>7

LEMMA ReadLands ==
  ASSUME PanelsInv, UNCHANGED <<day, session, opened, preparing, job, prepares, crossed>>,
         NEW j \in DOMAIN jobs, Pending(jobs[j]), NEW q, JobSound(q, opened),
         q.kind # "trace", ~Pending(q), jobs' = [jobs EXCEPT ![j] = q],
         loading' = loading \ {Mark(jobs[j])}, overlapped => overlapped', WalksSound',
         ~overlapped' => \A w, x \in walks' : w = x,
         ~overlapped' => \A w \in walks' : w.at # None /\ w.at[1] = session => w \in walks,
         ~overlapped' /\ jobs[j].kind = "statistics" => jobs[j].session = session
  PROVE  PanelsInv'
  <1>1. Moved(jobs, jobs', {j}) /\ DOMAIN jobs' = DOMAIN jobs /\ jobs'[j] = q
    BY Listed, SetMoves DEF JobSound
  <1>2. \A k \in DOMAIN jobs : k # j => Same(jobs[k], jobs'[k])
    BY <1>1 DEF Moved
  <1>3. day'.opens = day.opens /\ SessionsSound' /\ opened \in Nat
    BY DayMoves DEF PanelsInv, SessionsSound
  <1>4. JobsSound'
    <2> DEFINE S == {j}
    <2>1. \A k \in DOMAIN jobs' : k \in S \/ k \notin DOMAIN jobs => JobSound(jobs'[k], opened')
      BY <1>1
    <2>2. Moved(jobs, jobs', S)
      BY <1>1
    <2>3. opened' \in Nat /\ opened <= opened'
      BY <1>3
    <2> HIDE DEF S
    <2> QED
      BY <2>1, <2>2, <2>3, JobsKept
  <1>5. PreparesSound' /\ InOneHand'
    <2> DEFINE S == {j}
    <2>1. \A k \in S \intersect DOMAIN jobs : \A s :
            /\ Untouched(jobs[k], s) => Untouched(jobs'[k], s)
            /\ Live(jobs'[k], s) => Live(jobs[k], s)
      BY <1>1 DEF Untouched, Live, Pending
    <2>2. Moved(jobs, jobs', S) /\ DOMAIN jobs' \ DOMAIN jobs = {}
      BY <1>1
    <2> HIDE DEF S
    <2> QED
      BY <1>3, <2>1, <2>2, HandKept DEF HandStays
  <1>6. MarkersHeld'
    <2>1. IsFiniteSet(loading')
      BY FS_RemoveElement DEF PanelsInv, MarkersHeld
    <2>2. ASSUME NEW m \in loading' PROVE \E k \in DOMAIN jobs' : Pending(jobs'[k]) /\ Mark(jobs'[k]) = m
      <3>1. PICK k \in DOMAIN jobs : Pending(jobs[k]) /\ Mark(jobs[k]) = m
        BY DEF PanelsInv, MarkersHeld
      <3>2. k # j
        BY <3>1
      <3> QED
        BY <1>1, <1>2, <3>1, <3>2 DEF Same, Pending, Mark
    <2> QED
      BY <2>1, <2>2 DEF MarkersHeld
  <1>7. ASSUME NEW k \in Current(jobs', session')
        PROVE  k \in Current(jobs, session) /\ k # j /\ Mark(jobs'[k]) = Mark(jobs[k])
    BY <1>1, <1>2 DEF Current, Same, Pending, Mark
  <1>8. OneMarkerEach'
    <2> SUFFICES ASSUME ~overlapped' PROVE OneMarkerEach'
      BY DEF OneMarkerEach
    <2>0. ~overlapped
      OBVIOUS
    <2>1. ASSUME NEW k \in Current(jobs', session') PROVE Mark(jobs'[k]) \in loading'
      <3>1. Mark(jobs[k]) \in loading
        BY <1>7, <2>0 DEF PanelsInv, OneMarkerEach
      <3>2. Mark(jobs[k]) # Mark(jobs[j])
        <4>1. CASE jobs[j].kind = "statistics"
          <5>1. j \in Current(jobs, session)
            BY <4>1 DEF Current
          <5> QED
            BY <1>7, <2>0, <5>1 DEF PanelsInv, OneMarkerEach
        <4>2. CASE jobs[j].kind # "statistics"
          BY <1>7, <4>2 DEF Current, Mark
        <4> QED
          BY <4>1, <4>2
      <3> QED
        BY <1>7, <3>1, <3>2
    <2>2. ASSUME NEW i \in Current(jobs', session'), NEW k \in Current(jobs', session'),
                 Mark(jobs'[i]) = Mark(jobs'[k])
          PROVE  i = k
      BY <1>7, <2>0, <2>2 DEF PanelsInv, OneMarkerEach
    <2>3. ASSUME NEW w \in walks', w.at # None, w.at[1] = session
          PROVE  /\ Cardinality(StatMarkers') < MaxWatchJobs
                 /\ <<w.at[2], w.at[3], "statistics">> \notin loading'
      <3>1. /\ Cardinality(StatMarkers) < MaxWatchJobs
            /\ <<w.at[2], w.at[3], "statistics">> \notin loading
        BY <2>0, <2>3 DEF PanelsInv, OneMarkerEach
      <3>2. StatMarkers' \subseteq StatMarkers /\ IsFiniteSet(StatMarkers)
        BY FS_Subset DEF PanelsInv, MarkersHeld, StatMarkers
      <3>3. /\ Cardinality(StatMarkers') <= Cardinality(StatMarkers)
            /\ Cardinality(StatMarkers') \in Nat /\ Cardinality(StatMarkers) \in Nat
        BY <3>2, FS_Subset, FS_CardinalityType
      <3> QED
        BY <3>1, <3>3, PanelsAssumption
    <2> QED
      BY <2>1, <2>2, <2>3 DEF OneMarkerEach
  <1>9. OfWatch(jobs', session') \subseteq OfWatch(jobs, session)
    <2>1. OfWatch(jobs', session') \subseteq Current(jobs', session')
      BY <1>4, WatchIsCurrent DEF JobsSound
    <2> QED
      BY <1>1, <1>2, <1>7, <2>1 DEF OfWatch, Current, Same
  <1> QED
    BY <1>3, <1>4, <1>5, <1>6, <1>8, <1>9, CapStays DEF PanelsInv

\* Statistics land, and their thread walks the rows.
LEMMA StatisticsLandKeeps ==
  ASSUME PanelsInv, NEW j \in DOMAIN jobs, InspectorStatisticsLand(j) \/ WatchStatisticsLand(j)
  PROVE  PanelsInv'
  <1>1. PICK outcome \in Outcomes(j) : EndsAs(j, outcome, "walking")
    <2>1. CASE InspectorStatisticsLand(j)
      BY <2>1, Zenon DEF InspectorStatisticsLand
    <2>2. CASE WatchStatisticsLand(j)
      BY <2>2, Zenon DEF WatchStatisticsLand
    <2> QED
      BY <2>1, <2>2
  <1>2. /\ jobs[j].kind = "statistics" /\ jobs[j].waiter = "waiting"
        /\ jobs[j].asked.owner \in {"inspector", "watch"}
        /\ loading' = loading \ {Marker(j)} /\ ThenWalks(j)
        /\ UNCHANGED <<day, session, opened, preparing, job, prepares, crossed>>
    BY DEF InspectorStatisticsLand, WatchStatisticsLand, Waits, submitOnly
  <1>3. Pending(jobs[j]) /\ Marker(j) = Mark(jobs[j])
    BY <1>2 DEF Pending, Mark, Marker, Key
  <1>4. outcome # "running" /\ JobSound(jobs[j], opened) /\ JobShape(jobs[j])
    BY DEF Outcomes, PanelsInv, JobsSound, JobSound
  <1> DEFINE q == Redone(jobs[j], outcome, "walking")
  <1>5. jobs' = [jobs EXCEPT ![j] = q]
    BY <1>1, Listed, ListHas DEF EndsAs, Redone
  <1>6. /\ JobShape(q) /\ q.kind = jobs[j].kind /\ q.session = jobs[j].session /\ q.ids = jobs[j].ids
        /\ q.asked = jobs[j].asked /\ q.state = outcome /\ q.waiter = "walking"
    BY <1>4, BothSet
  <1> HIDE DEF q
  <1>7. JobSound(q, opened) /\ q.kind # "trace" /\ ~Pending(q)
    BY <1>2, <1>4, <1>6 DEF JobSound, Pending
  <1>8. /\ walks' = walks \union {[who |-> j, todo |-> pins, at |-> None]}
        /\ overlapped => overlapped'
        /\ ~overlapped' => walks = {} /\ jobs[j].session = session
    BY <1>2 DEF ThenWalks
  <1>9. WalksSound'
    <2> DEFINE S == {j}
    <2>1. Moved(jobs, jobs', {j}) /\ jobs'[j] = q
      BY <1>5, <1>6, Listed, SetMoves
    <2>2. Moved(jobs, jobs', S) /\ j \in S \intersect DOMAIN jobs /\ jobs'[j].waiter = "walking"
      BY <1>6, <2>1
    <2>3. \A k \in S \intersect DOMAIN jobs : jobs[k].waiter # "walking"
      BY <1>2
    <2> HIDE DEF S
    <2> QED
      BY <1>2, <1>8, <2>2, <2>3, WalksMore
  <1> DEFINE new == [who |-> j, todo |-> pins, at |-> None]
  <1>10. ~overlapped' => walks' = {new} /\ new.at = None
    BY <1>8
  <1> HIDE DEF new
  <1>11. ~overlapped' => \A w, x \in walks' : w = x
    BY <1>10
  <1>12. ~overlapped' => \A w \in walks' : w.at # None /\ w.at[1] = session => w \in walks
    BY <1>10
  <1>13. loading' = loading \ {Mark(jobs[j])}
    BY <1>2, <1>3
  <1> QED
    BY <1>2, <1>3, <1>5, <1>7, <1>8, <1>9, <1>11, <1>12, <1>13, ReadLands

LEMMA ViewsLandKeeps ==
  ASSUME PanelsInv, NEW j \in DOMAIN jobs, ViewsLand(j)
  PROVE  PanelsInv'
  <1>1. PICK outcome \in Outcomes(j) : EndsAs(j, outcome, "done")
    BY Zenon DEF ViewsLand
  <1>2. /\ jobs[j].kind = "views" /\ jobs[j].waiter = "waiting" /\ jobs[j].asked.owner = "inspector"
        /\ loading' = loading \ {Marker(j)}
        /\ UNCHANGED <<day, session, opened, preparing, job, prepares, crossed, walks, overlapped>>
    BY DEF ViewsLand, Waits, submitOnly
  <1>3. Pending(jobs[j]) /\ loading' = loading \ {Mark(jobs[j])}
    BY <1>2 DEF Pending, Mark, Marker, Key
  <1>4. jobs' = [jobs EXCEPT ![j] = Released]
    BY <1>1, Listed, ListHas DEF EndsAs
  <1>5. JobSound(Released, opened) /\ Released.kind # "trace" /\ ~Pending(Released)
    BY ReleasedSound DEF Other
  <1>6. WalksSound'
    <2> DEFINE S == {j}
    <2>1. Moved(jobs, jobs', S)
      BY <1>4, ReleasedIs, Listed, SetMoves
    <2>2. \A k \in S \intersect DOMAIN jobs : jobs[k].waiter = "walking" => jobs'[k].waiter = "walking"
      BY <1>2
    <2> HIDE DEF S
    <2> QED
      BY <1>2, <2>1, <2>2, Listed, WalksKept
  <1>7. ~overlapped' => \A w, x \in walks' : w = x
    BY <1>2 DEF PanelsInv, OneMarkerEach
  <1> QED
    BY <1>2, <1>3, <1>4, <1>5, <1>6, <1>7, ReadLands

-----------------------------------------------------------------------------
(* A trace is approved, prepared, submitted and shown. *)

\* Steps of the trace panel leave the reads and the walks alone.
LEMMA PanelStep ==
  ASSUME PanelsInv, UNCHANGED <<opened, session, loading, walks, overlapped>>,
         day' = day \/ Asks \/ (day.runs > 0 /\ day' = [day EXCEPT !.runs = @ - 1]),
         NEW S, Moved(jobs, jobs', S),
         \A j \in S \intersect DOMAIN jobs : jobs[j].kind = "trace" /\ jobs[j].waiter # "walking",
         \A j \in DOMAIN jobs' : j \in S \/ j \notin DOMAIN jobs =>
           JobSound(jobs'[j], opened) /\ ~Pending(jobs'[j]),
         PreparesSound', InOneHand'
  PROVE  PanelsInv'
  <1>1. SessionsSound' /\ opened \in Nat /\ opened' \in Nat /\ opened <= opened'
    BY DayMoves DEF PanelsInv, SessionsSound
  <1>2. JobsSound'
    <2>1. \A j \in DOMAIN jobs' : j \in S \/ j \notin DOMAIN jobs => JobSound(jobs'[j], opened')
      OBVIOUS
    <2> QED
      BY <1>1, <2>1, JobsKept
  <1>3. WalksSound'
    <2>1. \A j \in S \intersect DOMAIN jobs : jobs[j].waiter = "walking" => jobs'[j].waiter = "walking"
      OBVIOUS
    <2> QED
      BY <1>1, <2>1, WalksKept
  <1>4. MarkersHeld' /\ OneMarkerEach' /\ CapKept'
    <2>1. \A j \in S \intersect DOMAIN jobs : ~Pending(jobs[j])
      BY DEF Pending
    <2>2. \A j \in DOMAIN jobs' : j \in S \/ j \notin DOMAIN jobs => ~Pending(jobs'[j])
      OBVIOUS
    <2>3. ~overlapped' => \A w, x \in walks' : w = x
      BY DEF PanelsInv, OneMarkerEach
    <2> QED
      BY <1>2, <2>1, <2>2, <2>3, ReadsKept
  <1> QED
    BY <1>1, <1>2, <1>3, <1>4 DEF PanelsInv

LEMMA ApproveKeeps == PanelsInv /\ Approve => PanelsInv'
  <1> SUFFICES ASSUME PanelsInv, Approve PROVE PanelsInv'
    OBVIOUS
  <1>1. /\ session # 0 /\ ~preparing /\ (job # 0 => Ended(job)) /\ preparing' = TRUE
        /\ day.runs > 0 /\ day' = [day EXCEPT !.runs = @ - 1]
        /\ UNCHANGED <<session, opened, job, jobs, crossed, loading, walks, overlapped>>
    BY DEF Approve, Run, unshown, showVars
  <1>2. day'.opens = day.opens /\ session \in 1..opened
    BY <1>1, DayMoves DEF PanelsInv, SessionsSound
  <1>3. Moved(jobs, jobs', {})
    BY <1>1, Listed, StillMoves
  <1>4. \A p \in prepares : PrepareSound(p, opened', day'.opens)
    BY <1>1, <1>2 DEF PanelsInv, PreparesSound, PrepareSound, Artifact
  <1>5. ~crossed => /\ \A p \in prepares : p.session # session
                    /\ \A j \in DOMAIN jobs : ~Live(jobs[j], session)
    <2>1. ~crossed => \A p \in prepares : p.session # session
      BY <1>1 DEF PanelsInv, InOneHand
    <2>2. \A j \in DOMAIN jobs : j # 0
      BY Listed, ListHas
    <2> QED
      BY <1>1, <2>1, <2>2 DEF PanelsInv, InOneHand, Live, Ended
  <1>6. CASE UNCHANGED prepares
    <2>1. PreparesSound'
      BY <1>1, <1>4, <1>6 DEF PanelsInv, PreparesSound
    <2>2. InOneHand'
      BY <1>1, <1>5, <1>6 DEF InOneHand
    <2> QED
      BY <1>1, <1>3, <2>1, <2>2, PanelStep
  <1>7. CASE ~UNCHANGED prepares
    <2>1. PICK form \in Forms, variant \in day.variants :
            prepares' = prepares \union
              {[session |-> session, job |-> 0, step |-> "specifying", variant |-> variant,
                asked |-> CaptureValueIds(GraphOf[Artifact(session)], form),
                policy |-> CapturePolicy(GraphOf[Artifact(session)], form)]}
      BY <1>7, Zenon DEF Approve, Run
    <2> DEFINE asked == CaptureValueIds(GraphOf[Artifact(session)], form)
               policy == CapturePolicy(GraphOf[Artifact(session)], form)
               new == [session |-> session, job |-> 0, step |-> "specifying", variant |-> variant,
                       asked |-> asked, policy |-> policy]
    <2>2. AskedIn(GraphOf[Artifact(session)], asked)
      BY DEF AskedIn
    <2> HIDE DEF asked, policy
    <2>3. /\ new = [session |-> new.session, job |-> new.job, step |-> new.step, variant |-> new.variant,
                    asked |-> new.asked, policy |-> new.policy]
          /\ new.session = session /\ new.asked = asked /\ ~Submitted(new)
      BY DEF Submitted
    <2>4. prepares' = prepares \union {new}
      BY <2>1 DEF asked, policy
    <2> HIDE DEF new
    <2>5. PrepareSound(new, opened', day'.opens)
      BY <1>1, <1>2, <2>2, <2>3 DEF PrepareSound, Artifact
    <2>6. PreparesSound'
      BY <1>1, <1>4, <2>3, <2>4, <2>5 DEF PanelsInv, PreparesSound
    <2>7. InOneHand'
      BY <1>1, <1>5, <2>3, <2>4 DEF InOneHand
    <2> QED
      BY <1>1, <1>3, <2>6, <2>7, PanelStep
  <1> QED
    BY <1>6, <1>7

\* The steps of a preparing thread.
LEMMA PrepareFailsKeeps ==
  ASSUME PanelsInv, NEW p \in prepares, PrepareFails(p), UNCHANGED unshown
  PROVE  PanelsInv'
  <1>1. /\ ~Submitted(p) /\ prepares' = prepares \ {p}
        /\ preparing' = (preparing /\ session # p.session)
        /\ UNCHANGED <<day, session, opened, job, jobs, crossed, loading, walks, overlapped>>
    BY DEF PrepareFails, Leaves, Submitted, unshown, showVars
  <1>2. Moved(jobs, jobs', {})
    BY <1>1, Listed, StillMoves
  <1>3. PreparesSound'
    BY <1>1 DEF PanelsInv, PreparesSound, PrepareSound, Artifact
  <1>4. InOneHand'
    <2> SUFFICES ASSUME ~crossed PROVE InOneHand'
      BY <1>1 DEF InOneHand
    <2>1. ASSUME NEW q \in prepares', q.session = session
          PROVE  /\ preparing' /\ \A r \in prepares' : r.session = session => r = q
                 /\ \A j \in DOMAIN jobs : Live(jobs[j], session) => Submitted(q) /\ q.job = j
      <3>1. p.session # session
        BY <1>1, <2>1 DEF PanelsInv, InOneHand
      <3> QED
        BY <1>1, <2>1, <3>1 DEF PanelsInv, InOneHand
    <2>2. ASSUME NEW j \in DOMAIN jobs, Live(jobs[j], session)
          PROVE  j = job \/ \E q \in prepares' : q.session = session /\ Submitted(q) /\ q.job = j
      BY <1>1, <2>2 DEF PanelsInv, InOneHand
    <2> QED
      BY <1>1, <2>1, <2>2 DEF InOneHand
  <1> QED
    BY <1>1, <1>2, <1>3, <1>4, PanelStep

LEMMA PrepareSubmitsKeeps ==
  ASSUME PanelsInv, NEW p \in prepares, PrepareSubmits(p), UNCHANGED unshown
  PROVE  PanelsInv'
  <1> DEFINE ids == <<TraceId(p.session, p.variant)>>
             asked == [values |-> p.asked, policy |-> p.policy]
             r == NewJob("trace", p.session, ids, asked)
             n == Len(jobs')
             mid == [p EXCEPT !.step = "checking"]
             q == [mid EXCEPT !.job = n]
  <1>1. /\ ~Submitted(p) /\ session = p.session /\ jobs' = Append(jobs, r)
        /\ prepares' = (prepares \ {p}) \union {q}
        /\ UNCHANGED <<day, session, opened, preparing, job, crossed, loading, walks, overlapped>>
    BY DEF PrepareSubmits, Steps, Submitted, unshown, showVars
  <1>2. ids[1][1] = Artifact(p.session) /\ asked.values = p.asked
    BY DEF TraceId
  <1>3. /\ p = [session |-> p.session, job |-> p.job, step |-> p.step, variant |-> p.variant,
                asked |-> p.asked, policy |-> p.policy]
        /\ p.session \in 1..opened /\ AskedIn(GraphOf[Artifact(p.session)], p.asked)
    BY DEF PanelsInv, PreparesSound, PrepareSound, Artifact
  <1> HIDE DEF n, ids, asked
  <1>4. /\ mid = [session |-> mid.session, job |-> mid.job, step |-> mid.step, variant |-> mid.variant,
                  asked |-> mid.asked, policy |-> mid.policy]
        /\ mid.session = p.session /\ mid.step = "checking" /\ mid.asked = p.asked
    BY <1>3
  <1> HIDE DEF mid
  <1>5. /\ q = [session |-> q.session, job |-> q.job, step |-> q.step, variant |-> q.variant,
                asked |-> q.asked, policy |-> q.policy]
        /\ q.session = p.session /\ q.step = "checking" /\ q.asked = p.asked /\ q.job = n
    BY <1>4
  <1> HIDE DEF q
  <1>6. /\ JobShape(r) /\ r.kind = "trace" /\ r.session = p.session /\ r.ids = ids /\ r.asked = asked
        /\ r.waiter = "none"
    BY DEF NewJob, JobShape
  <1> HIDE DEF r
  <1>7. /\ Moved(jobs, jobs', {}) /\ jobs'[n] = r /\ n \in DOMAIN jobs' /\ n \notin DOMAIN jobs
        /\ \A j \in DOMAIN jobs' : j \in DOMAIN jobs \/ j = n
        /\ \A j \in DOMAIN jobs : j \in DOMAIN jobs' /\ jobs'[j] = jobs[j]
    BY <1>1, <1>6, Listed, AppendMoves DEF n, Moved
  <1>8. JobSound(r, opened) /\ ~Pending(r) /\ Untouched(r, p.session)
    BY <1>2, <1>3, <1>6 DEF JobSound, Pending, Untouched
  <1>9. PreparesSound'
    <2>1. \A o \in prepares : PrepareSound(o, opened', day'.opens)
      BY <1>1 DEF PanelsInv, PreparesSound, PrepareSound, Artifact
    <2>2. PrepareSound(q, opened', day'.opens)
      BY <1>1, <1>3, <1>5 DEF PrepareSound, Artifact
    <2>3. \A o \in prepares : Submitted(o) => o.job \in DOMAIN jobs' /\ Untouched(jobs'[o.job], o.session) /\ o.job # n
      BY <1>7 DEF PanelsInv, PreparesSound
    <2>4. q.job = n /\ Untouched(jobs'[n], q.session)
      BY <1>5, <1>7, <1>8
    <2> QED
      BY <1>1, <1>7, <2>1, <2>2, <2>3, <2>4 DEF PanelsInv, PreparesSound
  <1>10. InOneHand'
    <2> SUFFICES ASSUME ~crossed PROVE InOneHand'
      BY <1>1 DEF InOneHand
    <2>1. preparing /\ \A o \in prepares : o.session = session => o = p
      BY <1>1 DEF PanelsInv, InOneHand
    <2>2. \A j \in DOMAIN jobs : ~Live(jobs[j], session)
      BY <1>1 DEF PanelsInv, InOneHand
    <2>3. \A j \in DOMAIN jobs' : Live(jobs'[j], session) => j = n
      BY <1>7, <2>2
    <2>4. \A o \in prepares' : o.session = session => o = q
      BY <1>1, <2>1
    <2>5. q \in prepares' /\ q.session = session /\ Submitted(q) /\ q.job = n
      BY <1>1, <1>5 DEF Submitted
    <2> QED
      BY <1>1, <2>1, <2>3, <2>4, <2>5 DEF InOneHand
  <1> QED
    BY <1>1, <1>7, <1>8, <1>9, <1>10, PanelStep

LEMMA PrepareChecksKeeps ==
  ASSUME PanelsInv, NEW p \in prepares, PrepareChecks(p), UNCHANGED unshown
  PROVE  PanelsInv'
  <1>1. /\ Submitted(p) /\ p.step = "checking"
        /\ UNCHANGED <<day, session, opened, preparing, job, crossed, loading, walks, overlapped>>
    BY DEF PrepareChecks, Submitted, unshown, showVars
  <1>2. CASE session = p.session
    <2> DEFINE q == [p EXCEPT !.step = "showing"]
    <2>1. prepares' = (prepares \ {p}) \union {q} /\ UNCHANGED jobs
      BY <1>2 DEF PrepareChecks, Steps
    <2>2. p = [session |-> p.session, job |-> p.job, step |-> p.step, variant |-> p.variant,
               asked |-> p.asked, policy |-> p.policy]
      BY DEF PanelsInv, PreparesSound, PrepareSound
    <2>3. /\ q = [session |-> q.session, job |-> q.job, step |-> q.step, variant |-> q.variant,
                  asked |-> q.asked, policy |-> q.policy]
          /\ q.session = p.session /\ q.asked = p.asked /\ q.job = p.job /\ Submitted(q)
      BY <2>2 DEF Submitted
    <2> HIDE DEF q
    <2>4. Moved(jobs, jobs', {})
      BY <2>1, Listed, StillMoves
    <2>5. PreparesSound'
      <3>1. \A o \in prepares : PrepareSound(o, opened', day'.opens)
        BY <1>1 DEF PanelsInv, PreparesSound, PrepareSound, Artifact
      <3>2. PrepareSound(q, opened', day'.opens)
        BY <2>3, <3>1 DEF PrepareSound
      <3>3. \A o \in prepares : Submitted(o) => o.job \in DOMAIN jobs /\ Untouched(jobs[o.job], o.session)
        BY DEF PanelsInv, PreparesSound
      <3>4. \A o \in prepares : Submitted(o) /\ o.job = p.job => o = p
        BY <1>1 DEF PanelsInv, PreparesSound
      <3> QED
        BY <1>1, <2>1, <2>3, <3>1, <3>2, <3>3, <3>4 DEF PanelsInv, PreparesSound
    <2>6. InOneHand'
      BY <1>1, <1>2, <2>1, <2>3 DEF PanelsInv, InOneHand
    <2> QED
      BY <1>1, <2>1, <2>4, <2>5, <2>6, PanelStep
  <1>3. CASE session # p.session
    <2> DEFINE k == p.job
               mid == Cancel(jobs, {k})
               q == IF Ended(k) THEN Released ELSE [mid[k] EXCEPT !.waiter = "died"]
               S == {k}
    <2>1. k \in DOMAIN jobs /\ Untouched(jobs[k], p.session)
      BY <1>1 DEF PanelsInv, PreparesSound
    <2>2. Moved(jobs, mid, {}) /\ DOMAIN mid = DOMAIN jobs
      BY Listed, CancelMoves
    <2>3. /\ JobShape(mid[k]) /\ mid[k].kind = "trace" /\ mid[k].session = p.session
          /\ JobSound(mid[k], opened)
      <3> HIDE DEF k, mid
      <3>1. Same(jobs[k], mid[k]) /\ JobShape(mid[k]) /\ JobSound(jobs[k], opened) /\ opened \in Nat
        BY <2>1, <2>2 DEF Moved, IsList, PanelsInv, JobsSound, SessionsSound
      <3>2. JobSound(mid[k], opened)
        BY <3>1, SoundWhatever
      <3> QED
        BY <2>1, <3>1, <3>2 DEF Same, Untouched
    <2>4. prepares' = prepares \ {p}
      BY <1>3 DEF PrepareChecks, Leaves
    <2>5. jobs' = [mid EXCEPT ![k] = q]
      <3>1. jobs' = [mid EXCEPT ![k] = IF Ended(k) THEN Released ELSE [@ EXCEPT !.waiter = "died"]]
        BY <1>3 DEF PrepareChecks
      <3> HIDE DEF mid, k
      <3> QED
        BY <2>1, <2>2, <3>1
    <2>6. JobSound(q, opened) /\ JobShape(q) /\ ~Pending(q) /\ ~Live(q, session)
      <3>1. CASE Ended(k)
        <4>1. q = Released
          BY <3>1
        <4> HIDE DEF q
        <4> QED
          BY <4>1, ReleasedSound, ReleasedIs DEF Other
      <3>2. CASE ~Ended(k)
        <4>1. q = [mid[k] EXCEPT !.waiter = "died"]
          BY <3>2
        <4> HIDE DEF mid, q, k
        <4>2. /\ JobShape(q) /\ q.kind = mid[k].kind /\ q.session = mid[k].session /\ q.ids = mid[k].ids
              /\ q.asked = mid[k].asked
          BY <2>3, <4>1, WaiterSet
        <4> QED
          BY <1>3, <2>3, <4>2 DEF JobSound, Pending, Live
      <3> QED
        BY <3>1, <3>2
    <2> HIDE DEF mid, q, k
    <2>7. Moved(jobs, jobs', {k}) /\ jobs'[k] = q /\ DOMAIN jobs' = DOMAIN jobs
      <3>1. IsList(mid)
        BY <2>2 DEF Moved
      <3>2. Moved(mid, jobs', {k}) /\ jobs'[k] = q /\ DOMAIN jobs' = DOMAIN mid
        BY <2>1, <2>2, <2>5, <2>6, <3>1, SetMoves
      <3>3. Moved(jobs, jobs', {} \union {k})
        BY <2>2, <3>2, MovedTwice
      <3>4. {} \union {k} = {k}
        OBVIOUS
      <3> QED
        BY <2>2, <3>2, <3>3, <3>4
    <2>8. \A j \in DOMAIN jobs : j # k => Same(jobs[j], jobs'[j])
      BY <2>7 DEF Moved
    <2>9. PreparesSound'
      <3>1. \A o \in prepares' : o \in prepares /\ PrepareSound(o, opened', day'.opens)
        BY <1>1, <2>4 DEF PanelsInv, PreparesSound, PrepareSound, Artifact
      <3>2. \A o \in prepares' : Submitted(o) => o.job # k
        BY <1>1, <2>4 DEF PanelsInv, PreparesSound, k
      <3>3. \A o \in prepares' : Submitted(o) => o.job \in DOMAIN jobs' /\ Untouched(jobs'[o.job], o.session)
        BY <2>7, <2>8, <3>1, <3>2 DEF PanelsInv, PreparesSound, Same, Untouched
      <3> QED
        BY <3>1, <3>3 DEF PanelsInv, PreparesSound
    <2>10. InOneHand'
      <3>1. \A j \in DOMAIN jobs' : Live(jobs'[j], session) => j \in DOMAIN jobs /\ Live(jobs[j], session)
        BY <2>6, <2>7, <2>8 DEF Same, Live
      <3>2. \A o \in prepares : o.session = session => o \in prepares'
        BY <1>3, <2>4
      <3>3. prepares' \subseteq prepares
        BY <2>4
      <3> QED
        BY <1>1, <3>1, <3>2, <3>3 DEF PanelsInv, InOneHand
    <2>11. \A j \in S \intersect DOMAIN jobs : jobs[j].kind = "trace" /\ jobs[j].waiter # "walking"
      BY <2>1 DEF Untouched
    <2>12. \A j \in DOMAIN jobs' : j \in S \/ j \notin DOMAIN jobs =>
             JobSound(jobs'[j], opened) /\ ~Pending(jobs'[j])
      BY <2>6, <2>7
    <2>13. Moved(jobs, jobs', S)
      BY <2>7
    <2> HIDE DEF S
    <2> QED
      BY <1>1, <2>9, <2>10, <2>11, <2>12, <2>13, PanelStep
  <1> QED
    BY <1>2, <1>3

LEMMA PrepareShowsKeeps ==
  ASSUME PanelsInv, NEW p \in prepares, PrepareShows(p), UNCHANGED unshown
  PROVE  PanelsInv'
  <1> DEFINE k == p.job
             to == IF RefreshRaises THEN "died" ELSE "waiting"
             q == [jobs[k] EXCEPT !.waiter = to]
             S == {k}
  <1>1. /\ Submitted(p) /\ prepares' = prepares \ {p} /\ job' = k
        /\ crossed' = (crossed \/ session # p.session)
        /\ UNCHANGED <<day, session, opened, loading, walks, overlapped>>
    BY DEF PrepareShows, Leaves, Submitted, unshown, showVars
  <1>2. k \in DOMAIN jobs /\ Untouched(jobs[k], p.session) /\ JobSound(jobs[k], opened) /\ JobShape(jobs[k])
    BY <1>1 DEF PanelsInv, PreparesSound, JobsSound, JobSound
  <1>3. jobs' = [jobs EXCEPT ![k] = q]
    <2>1. jobs' = [jobs EXCEPT ![k].waiter = to]
      BY DEF PrepareShows
    <2> HIDE DEF k, to
    <2> QED
      BY <1>2, <2>1, Listed, ListHas
  <1> HIDE DEF k, to
  <1>4. /\ JobShape(q) /\ q.kind = jobs[k].kind /\ q.session = jobs[k].session /\ q.ids = jobs[k].ids
        /\ q.asked = jobs[k].asked /\ q.state = jobs[k].state /\ q.waiter = to
        /\ q.cancelled = jobs[k].cancelled
    BY <1>2, WaiterSet
  <1> HIDE DEF q
  <1>5. JobSound(q, opened) /\ ~Pending(q) /\ \A s : Live(q, s) => Live(jobs[k], s)
    BY <1>2, <1>4 DEF JobSound, Pending, Live, Untouched
  <1>6. Moved(jobs, jobs', {k}) /\ jobs'[k] = q /\ DOMAIN jobs' = DOMAIN jobs
    BY <1>2, <1>3, <1>4, Listed, SetMoves
  <1>7. \A j \in DOMAIN jobs : j # k => Same(jobs[j], jobs'[j])
    BY <1>6 DEF Moved
  <1>8. PreparesSound'
    <2>1. \A o \in prepares' : o \in prepares /\ PrepareSound(o, opened', day'.opens)
      BY <1>1 DEF PanelsInv, PreparesSound, PrepareSound, Artifact
    <2>2. \A o \in prepares' : Submitted(o) => o.job # k
      BY <1>1 DEF PanelsInv, PreparesSound, k
    <2>3. \A o \in prepares' : Submitted(o) => o.job \in DOMAIN jobs' /\ Untouched(jobs'[o.job], o.session)
      BY <1>6, <1>7, <2>1, <2>2 DEF PanelsInv, PreparesSound, Same, Untouched
    <2> QED
      BY <2>1, <2>3 DEF PanelsInv, PreparesSound
  <1>9. InOneHand'
    <2> SUFFICES ASSUME ~crossed, session = p.session PROVE InOneHand'
      BY <1>1 DEF InOneHand
    <2>1. \A j \in DOMAIN jobs' : Live(jobs'[j], session) => Live(jobs[j], session)
      BY <1>5, <1>6, <1>7 DEF Same, Live
    <2>2. \A j \in DOMAIN jobs' : Live(jobs'[j], session) => j = k
      BY <1>6, <2>1 DEF PanelsInv, InOneHand, k
    <2>3. \A o \in prepares' : o.session # session
      BY <1>1 DEF PanelsInv, InOneHand
    <2> QED
      BY <1>1, <2>2, <2>3 DEF InOneHand
  <1>10. \A j \in S \intersect DOMAIN jobs : jobs[j].kind = "trace" /\ jobs[j].waiter # "walking"
    BY <1>2 DEF Untouched
  <1>11. \A j \in DOMAIN jobs' : j \in S \/ j \notin DOMAIN jobs =>
           JobSound(jobs'[j], opened) /\ ~Pending(jobs'[j])
    BY <1>5, <1>6
  <1>12. Moved(jobs, jobs', S)
    BY <1>6
  <1> HIDE DEF S
  <1> QED
    BY <1>1, <1>8, <1>9, <1>10, <1>11, <1>12, PanelStep

-----------------------------------------------------------------------------
(* Sessions, the beginning, and all together. *)

\* Another session is shown, or none: nothing of the one before counts any more.
LEMMA ChangeSessionKeeps ==
  ASSUME PanelsInv, NEW s, NEW held, ChangeSession(s, held), ShowsNothing, UNCHANGED day,
         \/ s = 0 /\ UNCHANGED opened
         \/ s = opened + 1 /\ opened' = s
  PROVE  PanelsInv'
  <1>1. /\ session' = s /\ jobs' = Cancel(jobs, held \union {job}) /\ loading' = {}
        /\ UNCHANGED <<prepares, crossed, walks, overlapped>>
    BY DEF ChangeSession, ShowsNothing
  <1>2. opened \in Nat /\ opened' \in Nat /\ opened <= opened' /\ s \in 0..opened' /\ s \notin 1..opened
    BY DEF PanelsInv, SessionsSound
  <1>3. SessionsSound'
    BY <1>1, <1>2 DEF PanelsInv, SessionsSound
  <1>4. Moved(jobs, jobs', {}) /\ DOMAIN jobs' = DOMAIN jobs
    BY <1>1, Listed, CancelMoves
  <1>5. JobsSound'
    BY <1>2, <1>4, JobsKept
  <1>6. \A j \in DOMAIN jobs' : Same(jobs[j], jobs'[j]) /\ (jobs'[j].kind # "none" => jobs'[j].session # s)
    <2>1. \A j \in DOMAIN jobs : jobs[j].kind # "none" => jobs[j].session # s
      BY <1>2 DEF PanelsInv, JobsSound, JobSound
    <2> QED
      BY <1>4, <2>1 DEF Moved, Same
  <1>7. PreparesSound'
    <2>1. \A p \in prepares : PrepareSound(p, opened', day'.opens)
      BY <1>2 DEF PanelsInv, PreparesSound, PrepareSound
    <2>2. \A p \in prepares : Submitted(p) => p.job \in DOMAIN jobs' /\ Untouched(jobs'[p.job], p.session)
      BY <1>4, <1>6 DEF PanelsInv, PreparesSound, Untouched, Same
    <2> QED
      BY <1>1, <2>1, <2>2 DEF PanelsInv, PreparesSound
  <1>8. WalksSound'
    BY <1>1, <1>2, <1>4, WalksKept
  <1>9. InOneHand'
    <2>1. \A p \in prepares' : p.session # s
      BY <1>1, <1>2 DEF PanelsInv, PreparesSound, PrepareSound
    <2>2. \A j \in DOMAIN jobs' : ~Live(jobs'[j], s)
      BY <1>6 DEF Live
    <2> QED
      BY <1>1, <2>1, <2>2 DEF InOneHand
  <1>10. MarkersHeld'
    BY <1>1, FS_EmptySet DEF MarkersHeld
  <1>11. Current(jobs', session') = {} /\ OfWatch(jobs', session') = {}
    BY <1>1, <1>6 DEF Current, OfWatch
  <1>12. OneMarkerEach'
    <2>1. \A w \in walks : w.at # None => w.at[1] # s
      BY <1>2 DEF PanelsInv, WalksSound
    <2> QED
      BY <1>1, <1>11, <2>1 DEF PanelsInv, OneMarkerEach
  <1>13. CapKept'
    BY <1>1, <1>11, CapStays
  <1> QED
    BY <1>3, <1>5, <1>7, <1>8, <1>9, <1>10, <1>12, <1>13 DEF PanelsInv

LEMMA SessionsKeep == PanelsInv /\ (Opening \/ Closing) => PanelsInv'
  <1> SUFFICES ASSUME PanelsInv, Opening \/ Closing PROVE PanelsInv'
    OBVIOUS
  <1>1. CASE Opening
    <2> DEFINE s == opened + 1
    <2>1. ChangeSession(s, Held) /\ ShowsNothing /\ UNCHANGED day /\ opened' = s
      BY <1>1 DEF Opening, ShowSession
    <2>2. s = opened + 1
      OBVIOUS
    <2> HIDE DEF s
    <2> QED
      BY <2>1, <2>2, ChangeSessionKeeps
  <1>2. CASE Closing
    <2> DEFINE s == 0
    <2>1. ChangeSession(s, Held) /\ ShowsNothing /\ UNCHANGED <<day, opened>> /\ s = 0
      BY <1>2 DEF Closing, CloseModel
    <2> HIDE DEF s
    <2> QED
      BY <2>1, ChangeSessionKeeps
  <1> QED
    BY <1>1, <1>2

LEMMA PanelsInitially == PanelsInit => PanelsInv
  <1> SUFFICES ASSUME PanelsInit PROVE PanelsInv
    OBVIOUS
  <1>1. /\ day \in Days /\ session = 0 /\ opened = 0 /\ prepares = {} /\ jobs = <<>>
        /\ loading = {} /\ walks = {}
    BY DEF PanelsInit, PanelInit
  <1>2. SessionsSound
    BY <1>1, DaysAssumption DEF SessionsSound
  <1>3. DOMAIN jobs = {} /\ jobs \in Seq(Range(jobs))
    BY <1>1
  <1>4. JobsSound /\ PreparesSound /\ WalksSound /\ InOneHand
    BY <1>1, <1>3 DEF JobsSound, PreparesSound, WalksSound, InOneHand
  <1>5. MarkersHeld
    BY <1>1, FS_EmptySet DEF MarkersHeld
  <1>6. OneMarkerEach
    BY <1>1, <1>3 DEF OneMarkerEach, Current
  <1>7. CapKept
    <2>1. OfWatch(jobs, session) = {}
      BY <1>3 DEF OfWatch
    <2> QED
      BY <2>1, FS_EmptySet, PanelsAssumption DEF CapKept
  <1> QED
    BY <1>2, <1>4, <1>5, <1>6, <1>7 DEF PanelsInv

LEMMA PanelsInductive == PanelsInv /\ [PanelsNext]_panels => PanelsInv'
  <1> SUFFICES ASSUME PanelsInv, [PanelsNext]_panels PROVE PanelsInv'
    OBVIOUS
  <1>1. CASE User
    <2>1. CASE Opening \/ Closing
      BY <2>1, SessionsKeep
    <2>2. CASE Approve
      BY <2>2, ApproveKeeps
    <2>3. CASE Withdraw
      BY <2>3, WithdrawKeeps
    <2>4. CASE AskCompare
      BY <2>4, AskCompareKeeps
    <2>5. CASE PickTrace
      BY <2>5, StripKeeps
    <2>6. CASE CloseOverlay
      BY <2>6, LargeViewKeeps
    <2>7. CASE \E v \in Readable \union pins :
                 \/ Pin(v) \/ Unpin(v) \/ RetryStatistics(v) \/ OpenOverlay(v)
                 \/ InspectorStatistics(v) \/ InspectorViews(v)
      BY <2>7, StripKeeps, LargeViewKeeps, InspectorKeeps
    <2>8. CASE \E kind \in OverlayKinds : AskOverlay(kind)
      BY <2>8, AskOverlayKeeps
    <2> QED
      BY <1>1, <2>1, <2>2, <2>3, <2>4, <2>5, <2>6, <2>7, <2>8 DEF User
  <1>2. CASE Jobs
    BY <1>2, JobsKeep
  <1>3. CASE Threads
    <2>1. CASE PrepareStep /\ UNCHANGED unshown
      BY <2>1, PrepareFailsKeeps, PrepareSubmitsKeeps, PrepareChecksKeeps, PrepareShowsKeeps DEF PrepareStep
    <2>2. CASE Walk
      BY <2>2, WalkLooksKeeps, WalkAddsKeeps, WalkEndsKeeps DEF Walk
    <2>3. CASE \E j \in DOMAIN jobs :
                 \/ Present(j) \/ Settle(j) \/ LandCompare(j) \/ LoseCompare(j)
                 \/ InspectorStatisticsLand(j) \/ WatchStatisticsLand(j) \/ ViewsLand(j)
                 \/ OverlayChecks(j) \/ OverlayLands(j)
      BY <2>3, PresentKeeps, SettleKeeps, LoseCompareKeeps, StatisticsLandKeeps, ViewsLandKeeps,
         OverlayChecksKeeps, OverlayLandsKeeps
    <2> QED
      BY <1>3, <2>1, <2>2, <2>3 DEF Threads
  <1>4. CASE UNCHANGED panels
    BY <1>4 DEF panels, panelVars, showVars, PanelsInv, SessionsSound, JobsSound, PreparesSound,
                WalksSound, InOneHand, MarkersHeld, OneMarkerEach, CapKept, StatMarkers
  <1> QED
    BY <1>1, <1>2, <1>3, <1>4 DEF PanelsNext

LEMMA PanelsInvariance == PanelsSpec => []PanelsInv
  BY PanelsInitially, PanelsInductive, PTL DEF PanelsSpec

\* What the panel counts is what the runner takes, for any graph and any form.
LEMMA CountedIsTaken ==
  ASSUME NEW graph, NEW asked, AskedIn(graph, asked)
  PROVE  /\ Targets(graph, asked) =
              (IF asked = {} THEN Capturable(graph) ELSE asked \intersect Roles(graph))
         /\ asked \ Roles(graph) \subseteq graph.outputs
         /\ Refused(graph, asked) => asked \intersect Roles(graph) = {}
  <1>1. PICK form \in Forms : asked = CaptureValueIds(graph, form)
    BY DEF AskedIn
  <1>2. /\ SelectedValues(graph, form.selection) \subseteq NodeOutputs(graph)
        /\ SelectedValues(graph, form.selection) \subseteq graph.named
    <2> SUFFICES ASSUME NEW x \in SelectedValues(graph, form.selection)
                 PROVE  x \in NodeOutputs(graph) /\ x \in graph.named
      OBVIOUS
    <2>1. /\ x \in UNION {graph.nodes[n] : n \in form.selection \intersect DOMAIN graph.nodes}
          /\ x \in graph.named
      BY Zenon DEF SelectedValues
    <2>2. PICK n \in form.selection \intersect DOMAIN graph.nodes : x \in graph.nodes[n]
      BY <2>1, Zenon
    <2>3. graph.nodes[n] \in Range(graph.nodes)
      BY <2>2, Zenon DEF Range
    <2> QED
      BY <2>1, <2>2, <2>3, Zenon DEF NodeOutputs
  <1>3. asked \subseteq (Roles(graph) \union graph.outputs) \intersect graph.named
    BY <1>1, <1>2 DEF CaptureValueIds, Boundary, Roles
  <1>4. Capturable(graph) = Roles(graph) \intersect graph.named
    BY DEF Capturable, Roles
  <1> QED
    BY <1>3, <1>4 DEF Targets, Refused

LEMMA PanelsInvImplies == PanelsInv => RequestsSound /\ MarkersSound
  <1> SUFFICES ASSUME PanelsInv PROVE RequestsSound /\ MarkersSound
    OBVIOUS
  <1>1. OneApproved
    <2> DEFINE live == {j \in DOMAIN jobs : /\ jobs[j].kind = "trace" /\ ~Ended(j)
                                            /\ jobs[j].session = session
                                            /\ ~jobs[j].cancelled}
    <2> SUFFICES ASSUME ~crossed
                 PROVE  /\ Cardinality(live) <= 1
                        /\ \A j \in live : jobs[j].waiter = "waiting" => j = job
      BY DEF OneApproved
    <2>1. \A j \in live : j \in DOMAIN jobs /\ Live(jobs[j], session)
      BY DEF Live, Ended
    <2>2. \A i, j \in live : i = j
      BY <2>1 DEF PanelsInv, InOneHand
    <2>3. Cardinality(live) <= 1
      <3>1. CASE live = {}
        BY <3>1, FS_EmptySet
      <3>2. CASE live # {}
        <4>1. PICK x : live = {x}
          BY <2>2, <3>2
        <4>2. Cardinality({x}) = 1
          BY FS_Singleton
        <4> HIDE DEF live
        <4> QED
          BY <4>1, <4>2
      <3> QED
        BY <3>1, <3>2
    <2>4. ASSUME NEW j \in live, jobs[j].waiter = "waiting" PROVE j = job
      <3>1. \A p \in prepares : Submitted(p) => jobs[p.job].waiter # "waiting"
        BY DEF PanelsInv, PreparesSound, Untouched
      <3> QED
        BY <2>1, <2>4, <3>1 DEF PanelsInv, InOneHand
    <2> QED
      BY <2>3, <2>4
  <1>2. AskedIsTaken
    <2>1. \A j \in DOMAIN jobs : jobs[j].kind = "trace" =>
            AskedIn(GraphOf[jobs[j].ids[1][1]], jobs[j].asked.values)
      BY DEF PanelsInv, JobsSound, JobSound
    <2> QED
      BY <2>1, CountedIsTaken DEF AskedIsTaken
  <1>3. MarkersTracked
    BY DEF PanelsInv, MarkersHeld, MarkersTracked, Pending, Mark, Marker, Key
  <1>4. WatchWithinCap
    <2>1. OfWatch(jobs, session) =
            {j \in DOMAIN jobs : /\ jobs[j].kind = "statistics" /\ ~Ended(j)
                                 /\ jobs[j].asked.owner = "watch"
                                 /\ jobs[j].session = session}
      BY DEF OfWatch, Ended
    <2> QED
      BY <2>1 DEF PanelsInv, CapKept, WatchWithinCap
  <1> QED
    BY <1>1, <1>2, <1>3, <1>4 DEF RequestsSound, MarkersSound

\* One trace runs at a time and it is the approved one, and the runner is given what was
\* counted, whatever is opened, approved, cancelled and shown meanwhile.
THEOREM RequestsAreSound == PanelsSpec => []RequestsSound
  BY PanelsInvariance, PanelsInvImplies, PTL

\* No row waits for an answer that came already, and the strip keeps to its cap.
THEOREM MarkersAreTracked == PanelsSpec => []MarkersSound
  BY PanelsInvariance, PanelsInvImplies, PTL
=============================================================================
