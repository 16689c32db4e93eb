---------------------------- MODULE ExportPublish ----------------------------
(***************************************************************************)
(* How staged exports reach one destination (adapters/onnx/exporter.py,    *)
(* _publish): each looks whether a target exists, then moves the external  *)
(* payloads, the model and the report into place, each by one os.replace;  *)
(* when one of them raises, what it has published is unlinked again, and   *)
(* that may raise too.  A process may die in between, several exports may  *)
(* be under way, and other programs write to the directory.                *)
(* RevisionExportProofs extends this module beside RevisionExport: its     *)
(* specification and type invariant are therefore named after Publish.     *)
(***************************************************************************)
EXTENDS Naturals

CONSTANTS
  PayloadCount,   \* external payload files of the model
  Attempts        \* exports to this destination, one after another or at a time

ASSUME PublishAssumption ==
  /\ PayloadCount \in Nat
  /\ Attempts \cap {"absent", "foreign"} = {}

\* The targets in the order of publication.
Payloads == 1..PayloadCount
Model    == PayloadCount + 1
Report   == PayloadCount + 2
TargetFiles  == 1..Report

VARIABLES
  step,       \* where each export is
  dest,       \* what lies at each target: nothing, a foreign file or an export's
  published,  \* targets an export has published so far: 1..published
  removed,    \* of them, targets its rollback has removed again: 1..removed
  raced       \* history: exports that were between check and end at the same time

publication == <<step, dest, published, removed, raced>>

PublishInit ==
  /\ step = [e \in Attempts |-> "staged"]
  /\ dest \in [TargetFiles -> {"absent", "foreign"}]
  /\ published = [e \in Attempts |-> 0] /\ removed = published /\ raced = {}

AtWork == {e \in Attempts : step[e] \in {"publishing", "rollback"}}

\* The check holds nothing: another export that has passed it too goes on.
Passes(e) ==
  /\ step' = [step EXCEPT ![e] = "publishing"]
  /\ raced' = IF AtWork = {} THEN raced ELSE raced \cup AtWork \cup {e}

Turns(e, to) == step' = [step EXCEPT ![e] = to] /\ UNCHANGED raced

\* A mutant: the directory is not looked at.
CheckNothing(e) ==
  /\ step[e] = "staged"
  /\ Passes(e)
  /\ UNCHANGED <<dest, published, removed>>

CheckTargets(e) ==
  /\ step[e] = "staged"
  /\ IF \A n \in TargetFiles : dest[n] = "absent" THEN Passes(e) ELSE Turns(e, "failed")
  /\ UNCHANGED <<dest, published, removed>>

\* A mutant: the model goes first.
ReplaceModelFirst(e) ==
  /\ step[e] = "publishing" /\ published[e] < Report
  /\ LET n == IF published[e] = 0 THEN Model
              ELSE IF published[e] <= PayloadCount THEN published[e] ELSE Report
     IN  dest' = [dest EXCEPT ![n] = e]
  /\ published' = [published EXCEPT ![e] = @ + 1]
  /\ UNCHANGED <<step, removed, raced>>

\* os.replace takes the place of whatever has come to the target since the check.
ReplaceNext(e) ==
  /\ step[e] = "publishing" /\ published[e] < Report
  /\ dest' = [dest EXCEPT ![published[e] + 1] = e]
  /\ published' = [published EXCEPT ![e] = @ + 1]
  /\ UNCHANGED <<step, removed, raced>>

\* Any target's directory or os.replace may fail.
ReplaceRaises(e) ==
  /\ step[e] = "publishing" /\ published[e] < Report
  /\ Turns(e, "rollback")
  /\ UNCHANGED <<dest, published, removed>>

\* The rollback, in the order of publication, of whatever lies there.
RemoveNext(e) ==
  /\ step[e] = "rollback" /\ removed[e] < published[e]
  /\ dest' = [dest EXCEPT ![removed[e] + 1] = "absent"]
  /\ removed' = [removed EXCEPT ![e] = @ + 1]
  /\ UNCHANGED <<step, published, raced>>

\* An unlink raises out of the rollback: this target and those after it stay.
RemoveRaises(e) ==
  /\ step[e] = "rollback" /\ removed[e] < published[e]
  /\ Turns(e, "stuck")
  /\ UNCHANGED <<dest, published, removed>>

GiveUp(e) ==
  /\ step[e] = "rollback" /\ removed[e] = published[e]
  /\ Turns(e, "failed")
  /\ UNCHANGED <<dest, published, removed>>

Succeed(e) ==
  /\ step[e] = "publishing" /\ published[e] = Report
  /\ Turns(e, "succeeded")
  /\ UNCHANGED <<dest, published, removed>>

Crash(e) ==
  /\ e \in AtWork
  /\ Turns(e, "crashed")
  /\ UNCHANGED <<dest, published, removed>>

Attempt(e) ==
  \/ CheckTargets(e) \/ ReplaceNext(e) \/ ReplaceRaises(e) \/ RemoveNext(e)
  \/ RemoveRaises(e) \/ GiveUp(e) \/ Succeed(e) \/ Crash(e)

\* Another program creates a file, at any moment.
Intrude ==
  /\ \E n \in TargetFiles : dest[n] = "absent" /\ dest' = [dest EXCEPT ![n] = "foreign"]
  /\ UNCHANGED <<step, published, removed, raced>>

\* The user clears the directory for another export.
Empty ==
  /\ AtWork = {}
  /\ dest' = [n \in TargetFiles |-> "absent"]
  /\ UNCHANGED <<step, published, removed, raced>>

PublishNext == (\E e \in Attempts : Attempt(e)) \/ Intrude \/ Empty

PublishSpec == PublishInit /\ [][PublishNext]_publication

-----------------------------------------------------------------------------
(* Properties. *)

PublishTypeOK ==
  /\ step \in [Attempts -> {"staged", "publishing", "rollback", "failed", "stuck",
                            "succeeded", "crashed"}]
  /\ dest \in [TargetFiles -> {"absent", "foreign"} \cup Attempts]
  /\ published \in [Attempts -> 0..Report] /\ removed \in [Attempts -> 0..Report]
  /\ raced \subseteq Attempts

\* The replacement of the report has failed after that of the model, and the rollback
\* takes the payloads away before the model that refers to them.
Retracting(e) == published[e] = Model /\ removed[e] > 0

\* Nobody who looks into the directory, at any moment and after a crash too, finds a
\* model one of whose payloads is missing or of another export, unless the export is
\* being taken back or has been crossed by another one.
ModelComplete ==
  \A e \in Attempts \ raced :
    dest[Model] = e /\ ~Retracting(e) => \A n \in Payloads : dest[n] = e

\* An export that reported a failure has left nothing of its own behind, unless it was
\* an unlink of its rollback that raised.
FailureLeavesNothing ==
  \A e \in Attempts : step[e] = "failed" => \A n \in TargetFiles : dest[n] # e

\* A report on disk says that everything it reports on is there, and it stays so: no
\* later export to the same destination replaces or removes a part of it.
ReportMeansComplete ==
  \A e \in Attempts \ raced : dest[Report] = e => \A n \in TargetFiles : dest[n] = e

\* What _publish promises of the directory, whatever fails or dies and whoever else
\* writes there, apart from the exceptions its parts name: a model has its payloads, and
\* a failure has cleaned up.
PublicationSound == PublishTypeOK /\ ModelComplete /\ FailureLeavesNothing
=============================================================================
