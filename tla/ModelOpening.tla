------------------------------ MODULE ModelOpening ------------------------------
(***************************************************************************)
(* Opening and closing models: ApplicationService and the life of its      *)
(* sessions (application/session.py), the list of recent models            *)
(* (application/persistence.py), and the shell that starts opens, presents *)
(* their sessions and closes them (ui/app.py).                             *)
(*                                                                         *)
(* Four kinds of threads work on one service: the event loop of the page,  *)
(* which runs the handlers; a worker per open job; a thread per open job   *)
(* that waits for it and presents its session; and the workers that warm   *)
(* layouts.  Of the job manager only its promise is used (JobManager):     *)
(* who is woken by a job finds its end and its result, and close() returns *)
(* when no job runs.                                                       *)
(***************************************************************************)
EXTENDS Integers, Sequences, FiniteSets

CONSTANTS
  Models,      \* artifacts, by content hash
  MaxOpens,    \* bound: opens that are started
  MaxDialogs,  \* bound: file dialogs open at once
  MaxRecent,   \* length of the list of recent models
  None

ASSUME OpeningAssumption ==
  MaxOpens \in Nat \ {0} /\ MaxDialogs \in Nat /\ MaxRecent \in Nat \ {0} /\ None \notin 1..MaxOpens

Opens == 1..MaxOpens

VARIABLES
  web,       \* whether the page is in a browser, where files are uploaded
  job,       \* per open: where its worker is, its model, its token, its upload
  session,   \* per open: its session, "none", "open" or "closed"
  warming,   \* per open: the job that warms its session's layouts
  registry,  \* sessions the service knows
  recent,    \* recent models, in memory and in the state file, the last one recorded, saves
  service,   \* close() under way, and the sessions it has collected
  shell,     \* the shell: session shown, open job, pending upload, dialogs, overlay
  waiter,    \* per open: the thread that presents its session, and the one it replaces
  ui,        \* the event loop in _on_close_model
  crossed    \* history: an open was started beside another, or beside a presentation

vars == <<web, job, session, warming, registry, recent, service, shell, waiter, ui, crossed>>
background == <<web, recent, service, ui, crossed>>

Ended     == {"succeeded", "failed", "cancelled"}
Running   == {"importing", "recording", "saving", "detecting", "building", "preparing",
              "registering", "returning"}
Active(j) == job[j].at \in Running \cup {"queued"}

Init ==
  /\ web \in BOOLEAN
  /\ job = [j \in Opens |-> [at |-> "unused", model |-> None, cancelled |-> FALSE, whole |-> TRUE]]
  /\ session = [j \in Opens |-> "none"]
  /\ warming = [j \in Opens |-> "none"]
  /\ registry = {}
  /\ recent = [memory |-> <<>>, file |-> <<>>, last |-> None, payload |-> [j \in Opens |-> <<>>]]
  /\ service = [at |-> "up", closing |-> {}]
  /\ shell = [shown |-> None, job |-> None, upload |-> None, dialogs |-> 0, overlay |-> FALSE]
  /\ waiter = [j \in Opens |-> [at |-> "idle", previous |-> None]]
  /\ ui = [at |-> "idle", session |-> None]
  /\ crossed = FALSE

-----------------------------------------------------------------------------
(* The worker of an open job: _open_and_prepare. *)

Goto(j, at) == job' = [job EXCEPT ![j].at = at]

\* token.raise_if_cancelled: go on, or end as cancelled.
Checkpoint(j, at) == Goto(j, IF job[j].cancelled THEN "cancelled" ELSE at)

Pick(j) ==
  /\ job[j].at = "queued"
  /\ Checkpoint(j, "importing")
  /\ UNCHANGED <<background, session, warming, registry, shell, waiter>>

Import(j) ==
  /\ job[j].at = "importing"
  /\ Checkpoint(j, "recording")
  /\ UNCHANGED <<background, session, warming, registry, shell, waiter>>

\* record_open: the entry of a model is removed and inserted at the head, which shifts
\* those that were before it, and what passes the length of the list is cut.  A model
\* has one entry.
MovedToFront(list, m) ==
  LET listed == \E i \in DOMAIN list : list[i] = m
      at     == IF listed THEN CHOOSE i \in DOMAIN list : list[i] = m ELSE Len(list) + 1
      length == IF listed THEN Len(list) ELSE Len(list) + 1
  IN  [k \in 1..(IF length < MaxRecent THEN length ELSE MaxRecent) |->
         IF k = 1 THEN m ELSE IF k <= at THEN list[k - 1] ELSE list[k]]

Updated(m) == MovedToFront(recent.memory, m)

\* A mutant: the payload of a save is taken before its lock.
RecordOpenUnlocked(j) ==
  /\ job[j].at = "recording"
  /\ recent' = [recent EXCEPT !.memory = Updated(job[j].model), !.last = job[j].model,
                               !.payload[j] = Updated(job[j].model)]
  /\ Goto(j, "saving")
  /\ UNCHANGED <<web, service, ui, crossed, session, warming, registry, shell, waiter>>

\* record_open and the payload of the save that follows, while the service's lock is held.
RecordOpen(j) ==
  /\ job[j].at = "recording"
  /\ \A i \in Opens : job[i].at # "saving"
  /\ recent' = [recent EXCEPT !.memory = Updated(job[j].model), !.last = job[j].model,
                               !.payload[j] = Updated(job[j].model)]
  /\ Goto(j, "saving")
  /\ UNCHANGED <<web, service, ui, crossed, session, warming, registry, shell, waiter>>

SaveRecent(j) ==
  /\ job[j].at = "saving"
  /\ recent' = [recent EXCEPT !.file = recent.payload[j], !.payload[j] = <<>>]
  /\ Checkpoint(j, "detecting")
  /\ UNCHANGED <<web, service, ui, crossed, session, warming, registry, shell, waiter>>

\* Detectors, then a checkpoint before the session is built.
Detect(j) ==
  /\ job[j].at = "detecting"
  /\ Checkpoint(j, "building")
  /\ UNCHANGED <<background, session, warming, registry, shell, waiter>>

BuildSession(j) ==
  /\ job[j].at = "building"
  /\ session' = [session EXCEPT ![j] = "open"]
  /\ Goto(j, "preparing")
  /\ UNCHANGED <<background, warming, registry, shell, waiter>>

\* The first scene.  A session that will not be returned is closed.
PrepareScene(j) ==
  /\ job[j].at = "preparing"
  /\ \/ ~job[j].cancelled /\ Goto(j, "registering") /\ UNCHANGED session
     \/ /\ Goto(j, IF job[j].cancelled THEN "cancelled" ELSE "failed")
        /\ session' = [session EXCEPT ![j] = "closed"]
  /\ UNCHANGED <<background, warming, registry, shell, waiter>>

Register(j) ==
  /\ job[j].at = "registering"
  /\ registry' = registry \cup {j}
  /\ Goto(j, "returning")
  /\ UNCHANGED <<background, session, warming, shell, waiter>>

\* _schedule_layout_prewarm, which a closed job manager refuses, and the end of the job.
Return(j) ==
  /\ job[j].at = "returning"
  /\ warming' = [warming EXCEPT ![j] = IF service.at = "up" /\ session[j] = "open"
                                       THEN "walking" ELSE @]
  /\ Goto(j, "succeeded")
  /\ UNCHANGED <<background, session, registry, shell, waiter>>

\* The artifact is not readable, the state cannot be saved, or the session not be built:
\* the constructor closes what it has opened.
Fail(j) ==
  /\ job[j].at \in {"importing", "saving", "detecting", "building"}
  /\ Goto(j, "failed")
  /\ UNCHANGED <<background, session, warming, registry, shell, waiter>>

\* The walk ends with its last level, or at a checkpoint after the session or the
\* service was closed.
EndWarming(j) ==
  /\ warming[j] = "walking"
  /\ warming' = [warming EXCEPT ![j] = "ended"]
  /\ UNCHANGED <<background, job, session, registry, shell, waiter>>

Worker(j) ==
  \/ Pick(j)
  \/ Import(j)
  \/ RecordOpen(j)
  \/ SaveRecent(j)
  \/ Detect(j)
  \/ BuildSession(j)
  \/ PrepareScene(j)
  \/ Register(j)
  \/ Return(j)
  \/ Fail(j)
  \/ EndWarming(j)

-----------------------------------------------------------------------------
(* The thread that waits for an open job (_watch_open) and presents its session  *)
(* (show_session): the outgoing session is closed, then the new one is adopted.  *)

Unchanged == UNCHANGED <<web, job, warming, recent, service, ui, crossed>>
Step(j, at) == waiter' = [waiter EXCEPT ![j].at = at]

Wake(j) ==
  /\ waiter[j].at = "waiting" /\ job[j].at \in Ended
  /\ Step(j, IF job[j].at = "succeeded" THEN "presenting" ELSE "finishing")
  /\ Unchanged /\ UNCHANGED <<session, registry, shell>>

ReadPrevious(j) ==
  LET p == shell.shown IN
  /\ waiter[j].at = "presenting"
  /\ waiter' = [waiter EXCEPT ![j] = IF p # None /\ p # j /\ session[p] = "open"
                                     THEN [at |-> "closing", previous |-> p]
                                     ELSE [at |-> "adopting", previous |-> None]]
  /\ Unchanged /\ UNCHANGED <<session, registry, shell>>

\* close_session of a session that is gone raises, and the new one is not presented.
ClosePrevious(j) ==
  LET p == waiter[j].previous IN
  /\ waiter[j].at = "closing"
  /\ IF p \in registry
     THEN session' = [session EXCEPT ![p] = "closed"] /\ Step(j, "forgetting")
     ELSE UNCHANGED session /\ Step(j, "finishing")
  /\ Unchanged /\ UNCHANGED <<registry, shell>>

ForgetPrevious(j) ==
  /\ waiter[j].at = "forgetting"
  /\ registry' = registry \ {waiter[j].previous}
  /\ Step(j, "adopting")
  /\ Unchanged /\ UNCHANGED <<session, shell>>

Adopt(j) ==
  /\ waiter[j].at = "adopting"
  /\ shell' = [shell EXCEPT !.shown = j]
  /\ Step(j, "finishing")
  /\ Unchanged /\ UNCHANGED <<session, registry>>

\* A mutant: the overlay is cleared only if something was presented.
FinishPresented(j) ==
  /\ waiter[j].at = "finishing"
  /\ shell' = [shell EXCEPT !.overlay = @ /\ shell.shown # j, !.job = IF @ = j THEN None ELSE @]
  /\ Step(j, "ended")
  /\ Unchanged /\ UNCHANGED <<session, registry>>

\* The finally clause, after any error too: the overlay always clears.
Finish(j) ==
  /\ waiter[j].at = "finishing"
  /\ shell' = [shell EXCEPT !.overlay = FALSE, !.job = IF @ = j THEN None ELSE @]
  /\ Step(j, "ended")
  /\ Unchanged /\ UNCHANGED <<session, registry>>

Waiter(j) ==
  \/ Wake(j)
  \/ ReadPrevious(j)
  \/ ClosePrevious(j)
  \/ ForgetPrevious(j)
  \/ Adopt(j)
  \/ Finish(j)

-----------------------------------------------------------------------------
(* The event loop. *)

Listening == ui.at = "idle" /\ service.at = "up"

Opening == shell.job # None /\ job[shell.job].at \notin Ended

\* Nothing is being opened or presented.
AtRest == ~Opening /\ shell.upload = None /\ \A j \in Opens : waiter[j].at \in {"idle", "ended"}

\* The guard is looked at before the dialog is awaited.
OpenClicked ==
  /\ Listening /\ ~Opening /\ shell.upload = None
  /\ shell.dialogs < MaxDialogs
  /\ shell' = [shell EXCEPT !.dialogs = @ + 1]
  /\ UNCHANGED <<background, job, session, warming, registry, waiter>>

Dismissed ==
  /\ Listening /\ shell.dialogs > 0
  /\ shell' = [shell EXCEPT !.dialogs = @ - 1]
  /\ UNCHANGED <<background, job, session, warming, registry, waiter>>

Unused(j) == job[j].at = "unused" /\ \A i \in 1..(j - 1) : job[i].at # "unused"

\* open_model_async and _begin_open_job.
Begin(j, sh) ==
  /\ shell' = [sh EXCEPT !.job = j, !.overlay = TRUE]
  /\ waiter' = [waiter EXCEPT ![j].at = "waiting"]
  /\ UNCHANGED <<web, recent, service, ui, session, warming, registry>>

\* The dialog returns a path.
PickPath(j, m) ==
  /\ Listening /\ ~web /\ shell.dialogs > 0 /\ Unused(j)
  /\ job' = [job EXCEPT ![j].at = "queued", ![j].model = m]
  /\ crossed' = (crossed \/ ~AtRest)
  /\ Begin(j, [shell EXCEPT !.dialogs = @ - 1])

\* The dialog of a browser returns a name: the upload is the pending one from now on.
PickUpload(j, m) ==
  /\ Listening /\ web /\ shell.dialogs > 0 /\ Unused(j)
  /\ job' = [job EXCEPT ![j] = [@ EXCEPT !.at = "uploading", !.model = m, !.whole = FALSE]]
  /\ crossed' = (crossed \/ ~AtRest)
  /\ shell' = [shell EXCEPT !.dialogs = @ - 1, !.upload = j, !.overlay = TRUE]
  /\ UNCHANGED <<web, recent, service, ui, session, warming, registry, waiter>>

\* Events of another file than the pending one are ignored; files are told by name.
Concerns(j) == shell.upload # None /\ job[shell.upload].model = job[j].model

UploadFails(j) ==
  /\ Listening /\ job[j].at = "uploading" /\ ~job[j].whole
  /\ Goto(j, "failed")
  /\ shell' = IF Concerns(j) THEN [shell EXCEPT !.upload = None, !.overlay = FALSE] ELSE shell
  /\ UNCHANGED <<background, session, warming, registry, waiter>>

UploadIgnored(j) ==
  /\ Listening /\ job[j].at = "uploading" /\ ~job[j].whole /\ ~Concerns(j)
  /\ job' = [job EXCEPT ![j].whole = TRUE]
  /\ UNCHANGED <<background, session, warming, registry, shell, waiter>>

\* The file of upload j is complete: the pending target is opened.
UploadCompletes(j) ==
  LET target == shell.upload IN
  /\ Listening /\ job[j].at = "uploading" /\ ~job[j].whole /\ Concerns(j)
  /\ job' = [[job EXCEPT ![j].whole = TRUE] EXCEPT ![target].at = "queued"]
  /\ UNCHANGED crossed
  /\ Begin(target, [shell EXCEPT !.upload = None])

CancelOpen ==
  /\ Listening /\ Opening
  /\ job' = [job EXCEPT ![shell.job].cancelled = TRUE]
  /\ UNCHANGED <<background, session, warming, registry, shell, waiter>>

\* _on_close_model: under the overlay the button cannot be reached.
CloseClicked ==
  /\ Listening /\ shell.shown # None /\ ~shell.overlay
  /\ ui' = [at |-> "closing", session |-> shell.shown]
  /\ UNCHANGED <<web, job, session, warming, registry, recent, service, shell, waiter, crossed>>

CloseShown ==
  /\ ui.at = "closing"
  /\ IF ui.session \in registry
     THEN /\ session' = [session EXCEPT ![ui.session] = "closed"]
          /\ ui' = [ui EXCEPT !.at = "forgetting"]
     ELSE UNCHANGED session /\ ui' = [at |-> "idle", session |-> None]
  /\ UNCHANGED <<web, job, warming, registry, recent, service, shell, waiter, crossed>>

ForgetShown ==
  /\ ui.at = "forgetting"
  /\ registry' = registry \ {ui.session}
  /\ ui' = [ui EXCEPT !.at = "clearing"]
  /\ UNCHANGED <<web, job, session, warming, recent, service, shell, waiter, crossed>>

ClearShell ==
  /\ ui.at = "clearing"
  /\ shell' = [shell EXCEPT !.shown = None]
  /\ ui' = [at |-> "idle", session |-> None]
  /\ UNCHANGED <<web, job, session, warming, registry, recent, service, waiter, crossed>>

CloseModel == CloseShown \/ ForgetShown \/ ClearShell

-----------------------------------------------------------------------------
(* ApplicationService.close, when the page disconnects. *)

\* A mutant: the sessions are collected while jobs still run.
CollectAtOnce ==
  /\ service.at = "jobs"
  /\ service' = [at |-> "sessions", closing |-> registry]
  /\ registry' = {}
  /\ UNCHANGED <<web, job, session, warming, recent, shell, waiter, ui, crossed>>

\* The job manager refuses new jobs, cancels the others and waits for those that run.
Disconnect ==
  /\ Listening
  /\ service' = [service EXCEPT !.at = "jobs"]
  /\ job' = [j \in Opens |-> IF job[j].at = "queued" THEN [job[j] EXCEPT !.at = "cancelled"]
                             ELSE [job[j] EXCEPT !.cancelled = Active(j)]]
  /\ UNCHANGED <<web, session, warming, registry, recent, shell, waiter, ui, crossed>>

CollectSessions ==
  /\ service.at = "jobs"
  /\ \A j \in Opens : ~Active(j) /\ warming[j] # "walking"
  /\ service' = [at |-> "sessions", closing |-> registry]
  /\ registry' = {}
  /\ UNCHANGED <<web, job, session, warming, recent, shell, waiter, ui, crossed>>

CloseCollected ==
  /\ service.at = "sessions"
  /\ \E j \in service.closing :
       /\ session' = [session EXCEPT ![j] = "closed"]
       /\ service' = [service EXCEPT !.closing = @ \ {j}]
  /\ UNCHANGED <<web, job, warming, registry, recent, shell, waiter, ui, crossed>>

SaveAndReturn ==
  /\ service.at = "sessions" /\ service.closing = {}
  /\ recent' = [recent EXCEPT !.file = recent.memory]
  /\ service' = [service EXCEPT !.at = "down"]
  /\ UNCHANGED <<web, job, session, warming, registry, shell, waiter, ui, crossed>>

Closing == CollectSessions \/ CloseCollected \/ SaveAndReturn

-----------------------------------------------------------------------------
Handler ==
  \/ OpenClicked
  \/ Dismissed
  \/ \E j \in Opens, m \in Models : PickPath(j, m) \/ PickUpload(j, m)
  \/ \E j \in Opens : UploadIgnored(j)
  \/ CancelOpen
  \/ CloseClicked
  \/ Disconnect

Uploading(j) == UploadFails(j) \/ UploadCompletes(j)

\* Nothing is left to do: every open was used, or the service is down.
Over ==
  /\ \A j \in Opens : waiter[j].at \in {"idle", "ended"}
  /\ UNCHANGED vars

Next ==
  \/ \E j \in Opens : Worker(j) \/ Waiter(j) \/ Uploading(j)
  \/ CloseModel
  \/ Closing
  \/ Handler
  \/ Over

\* Threads run on, and an upload that was begun and is still wanted ends, in one way or
\* the other, while the page is there.
Fairness ==
  /\ \A j \in Opens : WF_vars(Worker(j)) /\ WF_vars(Waiter(j)) /\ WF_vars(Uploading(j))
  /\ WF_vars(CloseModel)
  /\ WF_vars(Closing)

Spec == Init /\ [][Next]_vars /\ Fairness

-----------------------------------------------------------------------------
OpenJob   == [at: {"unused", "uploading", "queued"} \cup Running \cup Ended,
              model: Models \cup {None}, cancelled: BOOLEAN, whole: BOOLEAN]
Recents   == [memory: Seq(Models), file: Seq(Models), last: Models \cup {None},
              payload: [Opens -> Seq(Models)]]
Service   == [at: {"up", "jobs", "sessions", "down"}, closing: SUBSET Opens]
Shell     == [shown: Opens \cup {None}, job: Opens \cup {None}, upload: Opens \cup {None},
              dialogs: 0..MaxDialogs, overlay: BOOLEAN]
Presenter == [at: {"idle", "waiting", "presenting", "closing", "forgetting", "adopting",
                   "finishing", "ended"}, previous: Opens \cup {None}]
EventLoop == [at: {"idle", "closing", "forgetting", "clearing"}, session: Opens \cup {None}]

TypeOK ==
  /\ web \in BOOLEAN /\ crossed \in BOOLEAN
  /\ job \in [Opens -> OpenJob]
  /\ session \in [Opens -> {"none", "open", "closed"}]
  /\ warming \in [Opens -> {"none", "walking", "ended"}]
  /\ registry \subseteq Opens
  /\ recent \in Recents
  /\ Len(recent.memory) <= MaxRecent /\ Len(recent.file) <= MaxRecent
  /\ service \in Service
  /\ shell \in Shell
  /\ waiter \in [Opens -> Presenter]
  /\ ui \in EventLoop

Settled == AtRest /\ ui.at = "idle" /\ service.at = "up" /\ \A j \in Opens : ~Active(j)

\* At rest the session that is shown is the only one that is open, however opens were
\* cancelled or failed and sessions replaced or closed, as long as no open was started
\* beside another.
NothingLeaks ==
  Settled /\ ~crossed => \A j \in Opens : session[j] = "open" => shell.shown = j

\* show_session: "otherwise every reopen leaks" the document, its caches and its handle.
NothingEverLeaks ==
  Settled => \A j \in Opens : session[j] = "open" => shell.shown = j

\* When close() returns no session is open, nor will any be opened.
DownIsDown ==
  service.at = "down" => \A j \in Opens : session[j] # "open" /\ ~Active(j)

\* Whenever nobody is saving, the model recorded last is the first one in the file, unless
\* its save failed; no concurrent open loses an entry.
LastRecordedFirst ==
  (\A j \in Opens : job[j].at \notin {"saving", "failed"}) /\ recent.last # None =>
    /\ recent.file = recent.memory
    /\ Head(recent.file) = recent.last
    /\ \A j \in Opens : job[j].at \in {"detecting", "building", "preparing", "registering", "succeeded"} =>
         \/ \E i \in DOMAIN recent.file : recent.file[i] = job[j].model
         \/ Len(recent.file) = MaxRecent

\* An upload is opened when it is complete, unless two dialogs were answered at once.
OpenedWhole ==
  ~crossed => \A j \in Opens : job[j].at \in Running => job[j].whole

\* The overlay that covers the shell is taken away, whatever happens to the open, unless
\* the page is gone.
OverlayClears == shell.overlay ~> (~shell.overlay \/ service.at # "up")

\* Every session that was opened is shown or closed: nothing is left behind by a failed,
\* cancelled or superseded open, and a closed service has no session.
SessionsAccounted == TypeOK /\ NothingLeaks /\ DownIsDown

\* An open takes what it was given: the upload when it is complete, and the model it shows
\* at the head of the recent files.
OpensSound == LastRecordedFirst /\ OpenedWhole
=============================================================================
