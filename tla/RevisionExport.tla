--------------------------- MODULE RevisionExport ---------------------------
(***************************************************************************)
(* Jobs that write the current revision out as a model file while the user *)
(* goes on editing: the shell's export (ui/app.py, application/session.py) *)
(* and the model a trace runs on (ModelSession.trace_async).  Both run     *)
(* export_revision (adapters/onnx/exporter.py): the commands of a captured *)
(* revision list decide which tensors are rewritten, embedded tensors are  *)
(* then read through a reader, one by one, and external ones are spliced   *)
(* from the commands.  The shell's reader is the live chain, the trace's   *)
(* one is pinned to the captured revisions.                                *)
(***************************************************************************)
EXTENDS RevisionChain, TLC

CONSTANTS
  Embedded,       \* tensors whose bytes lie in the model file itself
  Exports,        \* exports that can be under way at a time, dialogs included
  HexEdits,       \* may the user apply hex pages (the one edit no export disables)
  MaxRevisions    \* bound: longest chain

ASSUME ExportAssumption ==
  Embedded \subseteq Tensors /\ HexEdits \in BOOLEAN /\ MaxRevisions \in Nat

VARIABLES
  chain,      \* the session's revision chain
  locked,     \* the shell's edit, undo and redo buttons are disabled
  export,     \* the shell's exports: save dialogs and jobs
  current,    \* Shell.export_job: at most one of them
  file,       \* what each has published: the revision its report ends with, what it holds
  saved,      \* Shell._saved_revision_id
  savedAs,    \* history: the file behind `saved'
  trace,      \* the trace job
  models      \* the model the last trace ran on, under the revision it is keyed by

vars == <<chain, locked, export, current, file, saved, savedAs, trace, models>>

BaseContents == [t \in Tensors |-> BaseValue]

\* A job in export_revision: the captured revisions, the embedded tensors still
\* to be read, and the staged model.  `unguarded', a history field: a hex page was
\* applied under it, or another export submitted, whose end enables the buttons.
IdleJob == [at |-> "idle", rev |-> BASE_PARENT, applied |-> <<>>,
            left |-> {}, staged |-> BaseContents, unguarded |-> FALSE]

BaseFile == [rev |-> BASE_PARENT, holds |-> BaseContents, unguarded |-> FALSE]

Init ==
  /\ chain = EmptyChain
  /\ locked = FALSE
  /\ export = [e \in Exports |-> IdleJob] /\ current = {}
  /\ trace = IdleJob
  /\ file = [e \in Exports |-> BaseFile]
  /\ saved = BASE_PARENT /\ savedAs = BaseFile
  /\ models = {}

RevOf(applied) == CurrentRevisionId([revs |-> applied, cursor |-> Len(applied)])
Rewritten(applied) == {t \in Tensors : Writes(applied, Len(applied), t) # {}}

-----------------------------------------------------------------------------
(* The user's edits.  A handler ends with _refresh_edit_actions.             *)

Running(e) == export[e].at \in {"submitted", "reading"}
Exporting  == \E e \in current : Running(e)

\* An export under which the chain may move from now on, if it is running.
Unguarded(e) == [export[e] EXCEPT !.unguarded = @ \/ Running(e)]

Edited(c) ==
  /\ chain' = c
  /\ locked' = Exporting
  /\ UNCHANGED <<export, current, file, saved, savedAs, trace, models>>

SomeEdit(c) ==
  UNION {{Extend(c, <<[tensor |-> t, before |-> Read(c, t), after |-> v]>>) :
            v \in Values \ {Read(c, t)}} : t \in Tensors}

CommitEdit ==
  /\ ~locked
  /\ Len(chain.revs) < MaxRevisions
  /\ \E c \in SomeEdit(chain) : Edited(c)

\* When the sidecar cannot be saved the edit is applied, and the refresh skipped.
HexApply ==
  /\ HexEdits
  /\ Len(chain.revs) < MaxRevisions
  /\ chain' \in SomeEdit(chain)
  /\ locked' \in {Exporting, locked}
  /\ export' = [e \in Exports |-> Unguarded(e)]
  /\ UNCHANGED <<current, file, saved, savedAs, trace, models>>

UndoEdit == ~locked /\ CanUndo(chain) /\ Edited(StepBack(chain))
RedoEdit == ~locked /\ CanRedo(chain) /\ Edited(StepForward(chain))

-----------------------------------------------------------------------------
(* The shell's export: _export_current_session and the job it submits. *)

exportOnly == <<chain, file, saved, savedAs, trace, models>>

\* A job that is still running is looked for before the save dialog opens ...
OpenDialog(e) ==
  /\ ~Exporting /\ export[e].at = "idle"
  /\ export' = [export EXCEPT ![e] = [IdleJob EXCEPT !.at = "dialog"]]
  /\ UNCHANGED <<exportOnly, current, locked>>

\* ... and not again when the user has chosen a destination in it: the export takes the
\* place of one that runs.
SubmitExport(e) ==
  /\ export[e].at = "dialog"
  /\ export' = [d \in Exports |->
                  IF d = e THEN [export[e] EXCEPT !.at = "submitted",
                                                  !.rev = CurrentRevisionId(chain)]
                  ELSE Unguarded(d)]
  /\ current' = {e}
  /\ locked' = TRUE
  /\ UNCHANGED exportOnly

DismissDialog(e) ==
  /\ export[e].at = "dialog"
  /\ export' = [export EXCEPT ![e] = IdleJob]
  /\ UNCHANGED <<exportOnly, current, locked>>

\* What export_revision makes of a revision list before it reads any tensor.
Staging(job, applied) ==
  [job EXCEPT !.at = "reading", !.applied = applied,
              !.left = Rewritten(applied) \cap Embedded,
              !.staged = [t \in Tensors |->
                            IF t \in Embedded THEN BaseValue
                            ELSE ReadAt(applied, Len(applied), t)]]

\* One more tensor is read and staged.
StageOne(job, t, payload) == [job EXCEPT !.left = @ \ {t}, !.staged[t] = payload]

StartExport(e) ==
  /\ export[e].at = "submitted"
  /\ export' = [export EXCEPT ![e] = Staging(@, AppliedRevisions(chain))]
  /\ UNCHANGED <<exportOnly, current, locked>>

ReadForExport(e, t) ==
  /\ export[e].at = "reading" /\ t \in export[e].left
  /\ export' = [export EXCEPT ![e] = StageOne(@, t, Read(chain, t))]
  /\ UNCHANGED <<exportOnly, current, locked>>

\* An export has a destination of its own; how the file gets there is ExportPublish.
PublishExport(e) ==
  /\ export[e].at = "reading" /\ export[e].left = {}
  /\ export' = [export EXCEPT ![e] = [IdleJob EXCEPT !.at = "succeeded", !.rev = export[e].rev]]
  /\ file' = [file EXCEPT ![e] = [rev   |-> RevOf(export[e].applied),
                                 holds |-> export[e].staged,
                                 unguarded |-> export[e].unguarded]]
  /\ UNCHANGED <<chain, current, locked, saved, savedAs, trace, models>>

\* Cancelled, or failed: nothing is published.
AbandonExport(e) ==
  /\ export[e].at \in {"submitted", "reading"}
  /\ export' = [export EXCEPT ![e] = [IdleJob EXCEPT !.at = "ended"]]
  /\ UNCHANGED <<exportOnly, current, locked>>

\* The job is done with, and the file it published is no longer looked at.
Finishing(e) ==
  /\ export[e].at \in {"succeeded", "ended"}
  /\ export' = [export EXCEPT ![e] = IdleJob]
  /\ current' = current \ {e}
  /\ locked' = \E d \in current' : Running(d)
  /\ file' = [file EXCEPT ![e] = BaseFile]
  /\ UNCHANGED <<chain, trace, models>>

\* A mutant: a finished export always counts as a save of what was on screen.
FinishExportAlways(e) ==
  /\ Finishing(e)
  /\ IF export[e].at = "succeeded"
     THEN saved' = CurrentRevisionId(chain) /\ savedAs' = file[e]
     ELSE UNCHANGED <<saved, savedAs>>

\* The thread that waited for the job: the revision counts as saved if it is still,
\* or again, the one that was current when the job was submitted.
FinishExport(e) ==
  /\ Finishing(e)
  /\ IF export[e].at = "succeeded" /\ CurrentRevisionId(chain) = export[e].rev
     THEN saved' = export[e].rev /\ savedAs' = file[e]
     ELSE UNCHANGED <<saved, savedAs>>

Export(e) ==
  \/ OpenDialog(e) \/ SubmitExport(e) \/ DismissDialog(e) \/ StartExport(e)
  \/ (\E t \in Tensors : ReadForExport(e, t))
  \/ PublishExport(e) \/ AbandonExport(e) \/ FinishExport(e)

-----------------------------------------------------------------------------
(* A trace: everything is captured in one critical section, then the model *)
(* is built through a pinned reader.                                       *)

traceOnly == <<chain, locked, export, current, file, saved, savedAs>>

StartTrace ==
  /\ trace.at = "idle"
  /\ trace' = Staging([IdleJob EXCEPT !.rev = CurrentRevisionId(chain)],
                      AppliedRevisions(chain))
  /\ models' = {}
  /\ UNCHANGED traceOnly

\* A mutant: the trace reads through the live chain.
ReadForTraceLive(t) ==
  /\ trace.at = "reading" /\ t \in trace.left
  /\ trace' = StageOne(trace, t, Read(chain, t))
  /\ UNCHANGED <<traceOnly, models>>

ReadForTrace(t) ==
  /\ trace.at = "reading" /\ t \in trace.left
  /\ trace' = StageOne(trace, t, ReadAt(trace.applied, Len(trace.applied), t))
  /\ UNCHANGED <<traceOnly, models>>

RunTrace ==
  /\ trace.at = "reading" /\ trace.left = {}
  /\ models' = {[rev |-> trace.rev, holds |-> trace.staged]}
  /\ trace' = IdleJob
  /\ UNCHANGED traceOnly

AbandonTrace ==
  /\ trace.at = "reading"
  /\ trace' = IdleJob
  /\ UNCHANGED <<traceOnly, models>>

-----------------------------------------------------------------------------
Next ==
  \/ CommitEdit \/ HexApply \/ UndoEdit \/ RedoEdit
  \/ \E e \in Exports : Export(e)
  \/ StartTrace \/ RunTrace \/ AbandonTrace
  \/ \E t \in Tensors : ReadForTrace(t)

Spec == Init /\ [][Next]_vars

-----------------------------------------------------------------------------
\* For model checking: exports are told apart by nothing but their state.
Interchangeable == Permutations(Exports)

(* Properties. *)

Staged == [Tensors -> Values]
Job == [at : {"idle", "dialog", "submitted", "reading", "succeeded", "ended"}, rev : RevId,
        applied : Seq(Revision), left : SUBSET Tensors, staged : Staged,
        unguarded : BOOLEAN]
File == [rev : RevId, holds : Staged, unguarded : BOOLEAN]

TypeOK ==
  /\ chain \in Chain
  /\ locked \in BOOLEAN
  /\ export \in [Exports -> Job] /\ trace \in Job
  /\ current \subseteq Exports
  /\ file \in [Exports -> File]
  /\ saved \in RevId /\ savedAs \in File
  /\ \A m \in models : m \in [rev : RevId, holds : Staged]

\* An export is one committed revision: the file holds what the artifact holds at the
\* last revision its report names.
ExportIsOneRevision == \A e \in Exports : file[e].holds = ContentsAt(file[e].rev)

\* The disabled buttons keep it so, as far as they go: nothing the user does but apply
\* a hex page or submit a second export from an open dialog can tear an export, whenever
\* it is submitted or cancelled.
GuardedExportsWhole ==
  \A e \in Exports : ~file[e].unguarded => file[e].holds = ContentsAt(file[e].rev)

\* A revision the shell shows as saved is what the export it stands for holds, with the
\* same two exceptions.
SavedIsExported == ~savedAs.unguarded => savedAs.holds = ContentsAt(saved)

\* The model a trace runs on is the revision the trace is keyed by, whatever is
\* committed, undone or redone while it is built.
TraceIsKeyedRevision == \A m \in models : m.holds = ContentsAt(m.rev)

\* What Ctrl+S promises: the file is the revision its report ends with, and the shell's
\* "saved" mark stands at the revision that file holds.
ExportSound == TypeOK /\ GuardedExportsWhole /\ SavedIsExported
=============================================================================
