-------------------------- MODULE ActivationPanels --------------------------
(***************************************************************************)
(* What the shell shows of a trace: the activation inspector and its large *)
(* view (ui/activation_inspector.py, ui/activation_overlay.py) and the     *)
(* watch strip (ui/watch_panel.py).  They share one store of statistics    *)
(* and one set of loading markers with the trace panel's session and       *)
(* active trace.  Each answer lands on a thread of its own; every landing  *)
(* of statistics makes that thread walk the pinned rows again, and a walk  *)
(* may start jobs: two walks may overlap.                                  *)
(***************************************************************************)
EXTENDS TracePanel

CONSTANTS MaxWatchJobs,  \* MAX_CONCURRENT_WATCH_JOBS
          OverlayKinds   \* tabs of the large view that ask for a job

\* The tabs' jobs are none of the trace panel's, whose kinds they share a list with.
ASSUME PanelsAssumption ==
  /\ MaxWatchJobs \in Nat
  /\ OverlayKinds \intersect {"trace", "compare", "none"} = {}

VARIABLES stats,       \* activation_statistics: the values that have them
          views,       \* activation_visualizations
          viewErrors,  \* activation_visualization_errors
          loading,     \* activation_loading: <<trace, value, kind>>
          pins,        \* the pinned values
          watchErrors, \* _statistics_errors of the watch strip
          walks,       \* the walks over the pinned rows that are going on
          overlay,     \* the large view: its epoch, its tensor, its jobs
          overlapped   \* history: two walks, or answers of a closed session

showVars == <<stats, views, viewErrors, loading, pins, watchErrors>>
panels == <<panelVars, showVars, walks, overlay, overlapped>>

NoJobs == [kind \in OverlayKinds |-> 0]

PanelsInit ==
  /\ PanelInit
  /\ stats = {} /\ views = {} /\ viewErrors = {} /\ loading = {}
  /\ pins = {} /\ watchErrors = {}
  /\ walks = {}
  /\ overlay = [epoch |-> 0, open |-> None, jobs |-> NoJobs]
  /\ overlapped = FALSE

\* The active trace as the session lets it be read.
Shown == IF session # 0 /\ active # None /\ ~RefreshRaises
         THEN active ELSE None
Readable == IF Shown = None THEN {}
            ELSE captures[Shown]

Asked(owner, kind, key) ==
  [NewJob(kind, session, <<key[1]>>, [owner |-> owner, value |-> key[2],
                                      epoch |-> IF owner = "overlay" THEN overlay.epoch ELSE 0])
     EXCEPT !.waiter = "waiting"]

Key(j) == <<jobs[j].ids[1], jobs[j].asked.value>>
Marker(j) == <<Key(j)[1], Key(j)[2], jobs[j].kind>>

------------------------------------------------------------------------------
(* The walk over the pinned rows. *)

\* A thread, or the event loop (0), begins to rebuild the strip.
Walks(who, rows) ==
  /\ walks' = walks \union {[who |-> who, todo |-> rows, at |-> None]}
  /\ overlapped' = (overlapped \/ walks # {})

SlotFreeAtCap == Cardinality({m \in loading : m[3] = "statistics"}) <= MaxWatchJobs

\* A row starts statistics that are neither there nor wanted already, if a
\* slot is free: the walk goes on to the next such row, or ends ...
SlotFree == Cardinality({m \in loading : m[3] = "statistics"}) < MaxWatchJobs

Wanting(v) ==
  /\ v \in Readable
  /\ <<Shown, v>> \notin stats
  /\ <<Shown, v>> \notin watchErrors
  /\ <<Shown, v, "statistics">> \notin loading

WalkLooks(w) ==
  /\ w.at = None /\ SlotFree
  /\ \E v \in w.todo :
       /\ Wanting(v)
       /\ walks' = (walks \ {w}) \union
            {[w EXCEPT !.todo = @ \ {v}, !.at = <<session, Shown, v>>]}
  /\ UNCHANGED <<panelVars, showVars, overlay, overlapped>>

\* ... and then adds its marker and submits: a walk on another thread may have
\* done so in between.
WalkAdds(w) ==
  LET s == w.at[1]  id == w.at[2]  v == w.at[3] IN
  /\ w.at # None
  /\ walks' = (walks \ {w}) \union {[w EXCEPT !.at = None]}
  /\ IF s = session
     THEN /\ loading' = loading \union {<<id, v, "statistics">>}
          /\ jobs' = Append(jobs, Asked("watch", "statistics", <<id, v>>))
          /\ UNCHANGED watchErrors
     ELSE /\ watchErrors' = watchErrors \union {<<id, v>>}
          /\ UNCHANGED <<loading, jobs>>
  /\ UNCHANGED <<day, session, opened, active, comparison, preparing, job, prepares,
                 crossed, captures, stats, views, viewErrors, pins, overlay, overlapped>>

WalkEnds(w) ==
  /\ w.at = None
  /\ ~(SlotFree /\ \E v \in w.todo : Wanting(v))
  /\ walks' = walks \ {w}
  /\ jobs' = IF w.who = 0 THEN jobs
             ELSE [jobs EXCEPT ![w.who] = IF @.kind = "trace"
                                          THEN [@ EXCEPT !.waiter = "presented"]
                                          ELSE Released]
  /\ UNCHANGED <<day, session, opened, active, comparison, preparing, job, prepares,
                 crossed, captures, showVars, overlay, overlapped>>

\* Handlers of the event loop do not interleave with a walk of the event loop.
LoopFree == \A w \in walks : w.who # 0

------------------------------------------------------------------------------
(* What the user asks. *)

panelOnly == <<stats, views, viewErrors, loading, pins, watchErrors, walks,
               overlay, overlapped>>
submitOnly == <<session, opened, active, comparison, preparing, job, prepares, crossed, captures>>

Pin(v) ==
  /\ LoopFree /\ Asks /\ v \in (Readable \intersect day.pins) \ pins
  /\ pins' = pins \union {v}
  /\ Walks(0, pins')
  /\ UNCHANGED <<submitOnly, jobs, stats, views, viewErrors, loading, watchErrors, overlay>>

Unpin(v) ==
  /\ LoopFree /\ Asks /\ v \in pins
  /\ pins' = pins \ {v}
  /\ Walks(0, pins')
  /\ UNCHANGED <<submitOnly, jobs, stats, views, viewErrors, loading, watchErrors, overlay>>

RetryStatistics(v) ==
  /\ LoopFree /\ Asks /\ v \in pins
  /\ Shown # None /\ <<Shown, v>> \in watchErrors
  /\ watchErrors' = watchErrors \ {<<Shown, v>>}
  /\ Walks(0, pins)
  /\ UNCHANGED <<submitOnly, jobs, stats, views, viewErrors, loading, pins, overlay>>

InspectorStatistics(v) ==
  /\ LoopFree /\ Asks
  /\ v \in Readable
  /\ <<Shown, v>> \notin stats /\ <<Shown, v, "statistics">> \notin loading
  /\ loading' = loading \union {<<Shown, v, "statistics">>}
  /\ jobs' = Append(jobs, Asked("inspector", "statistics", <<Shown, v>>))
  /\ overlapped' = (overlapped \/ walks # {})
  /\ UNCHANGED <<submitOnly, stats, views, viewErrors, pins, watchErrors, walks,
                 overlay>>

InspectorViews(v) ==
  /\ LoopFree /\ Asks
  /\ v \in Readable
  /\ <<Shown, v>> \notin views /\ <<Shown, v, "views">> \notin loading
  /\ viewErrors' = viewErrors \ {<<Shown, v>>}
  /\ loading' = loading \union {<<Shown, v, "views">>}
  /\ jobs' = Append(jobs, Asked("inspector", "views", <<Shown, v>>))
  /\ UNCHANGED <<submitOnly, stats, views, pins, watchErrors, walks, overlay, overlapped>>

------------------------------------------------------------------------------
(* The large view. *)

Held == Range(overlay.jobs)
Closed == [epoch |-> overlay.epoch + 1, open |-> None, jobs |-> NoJobs]

OpenOverlay(v) ==
  /\ LoopFree /\ Asks
  /\ v \in Readable
  /\ jobs' = Cancel(jobs, Held)
  /\ overlay' = [Closed EXCEPT !.open = <<Shown, v>>]
  /\ UNCHANGED <<submitOnly, showVars, walks, overlapped>>

CloseOverlay ==
  /\ LoopFree /\ Asks /\ overlay.open # None
  /\ jobs' = Cancel(jobs, Held)
  /\ overlay' = Closed
  /\ UNCHANGED <<submitOnly, showVars, walks, overlapped>>

AskOverlay(kind) ==
  /\ LoopFree /\ Asks
  /\ overlay.open # None /\ overlay.jobs[kind] = 0
  /\ kind = "statistics" => overlay.open \notin stats
  /\ session # 0 /\ overlay.open[1][1] = Artifact(session)
  /\ jobs' = Append(jobs, Asked("overlay", kind, overlay.open))
  /\ overlay' = [overlay EXCEPT !.jobs[kind] = Len(jobs')]
  /\ UNCHANGED <<submitOnly, showVars, walks, overlapped>>

------------------------------------------------------------------------------
(* The answers. *)

\* A job for an answer ends, and the thread that waits for it wakes.
Waits(j, owner, kind) ==
  /\ jobs[j].kind = kind /\ jobs[j].waiter = "waiting"
  /\ jobs[j].asked.owner = owner

Outcomes(j) == {"succeeded", "failed"} \union (IF jobs[j].cancelled THEN {"cancelled"} ELSE {})

Learned(j, outcome, known) ==
  IF outcome = "succeeded" THEN known \union {Key(j)} ELSE known

Erred(j, outcome, errors) ==
  CASE outcome = "succeeded" -> errors \ {Key(j)}
    [] outcome = "failed" -> errors \union {Key(j)}
    [] OTHER -> errors

EndsAs(j, outcome, waiter) ==
  jobs' = [jobs EXCEPT ![j] = IF waiter = "done" THEN Released
                              ELSE [@ EXCEPT !.state = outcome, !.waiter = waiter]]

\* The waiter goes on to walk the rows; the end of the walk ends it.
ThenWalks(j) ==
  /\ walks' = walks \union {[who |-> j, todo |-> pins, at |-> None]}
  /\ overlapped' = (overlapped \/ walks # {} \/ jobs[j].session # session)

InspectorStatisticsLandAlone(j) ==
  /\ Waits(j, "inspector", "statistics")
  /\ loading' = loading \ {Marker(j)}
  /\ \E outcome \in Outcomes(j) :
       stats' = Learned(j, outcome, stats) /\ EndsAs(j, outcome, "done")
  /\ UNCHANGED <<day, submitOnly, views, viewErrors, pins, watchErrors, walks, overlay,
                 overlapped>>

InspectorStatisticsLand(j) ==
  /\ Waits(j, "inspector", "statistics")
  /\ loading' = loading \ {Marker(j)}
  /\ \E outcome \in Outcomes(j) :
       stats' = Learned(j, outcome, stats) /\ EndsAs(j, outcome, "walking")
  /\ ThenWalks(j)
  /\ UNCHANGED <<day, submitOnly, views, viewErrors, pins, watchErrors, overlay>>

WatchStatisticsLand(j) ==
  /\ Waits(j, "watch", "statistics")
  /\ loading' = loading \ {Marker(j)}
  /\ \E outcome \in Outcomes(j) :
       /\ EndsAs(j, outcome, "walking")
       /\ IF session # jobs[j].session THEN UNCHANGED <<stats, watchErrors>>
          ELSE /\ stats' = Learned(j, outcome, stats)
               /\ watchErrors' = Erred(j, outcome, watchErrors)
  /\ ThenWalks(j)
  /\ UNCHANGED <<day, submitOnly, views, viewErrors, pins, overlay>>

ViewsLandCurrent(j) ==
  LET current == session = jobs[j].session /\ active = jobs[j].ids[1] IN
  /\ Waits(j, "inspector", "views")
  /\ loading' = IF current THEN loading \ {Marker(j)} ELSE loading
  /\ \E outcome \in Outcomes(j) :
       /\ EndsAs(j, outcome, "done")
       /\ IF current
          THEN /\ views' = Learned(j, outcome, views)
               /\ viewErrors' = Erred(j, outcome, viewErrors)
          ELSE UNCHANGED <<views, viewErrors>>
  /\ UNCHANGED <<day, submitOnly, stats, pins, watchErrors, walks, overlay, overlapped>>

ViewsLand(j) ==
  /\ Waits(j, "inspector", "views")
  /\ loading' = loading \ {Marker(j)}
  /\ \E outcome \in Outcomes(j) :
       /\ EndsAs(j, outcome, "done")
       /\ IF session = jobs[j].session /\ active = jobs[j].ids[1]
          THEN /\ views' = Learned(j, outcome, views)
               /\ viewErrors' = Erred(j, outcome, viewErrors)
          ELSE UNCHANGED <<views, viewErrors>>
  /\ UNCHANGED <<day, submitOnly, stats, pins, watchErrors, walks, overlay, overlapped>>

\* The large view drops an answer to an earlier epoch ...
OverlayChecks(j) ==
  /\ jobs[j].kind \in OverlayKinds
  /\ Waits(j, "overlay", jobs[j].kind)
  /\ \E outcome \in Outcomes(j) :
       EndsAs(j, outcome,
              IF /\ jobs[j].asked.epoch = overlay.epoch
                 /\ jobs[j].session = session
                 /\ overlay.open # None
              THEN "checked" ELSE "done")
  /\ UNCHANGED <<day, submitOnly, panelOnly>>

\* ... and then shows it, whatever is open by then.
OverlayLands(j) ==
  LET shared == jobs[j].kind = "statistics" /\ jobs[j].state = "succeeded" IN
  /\ jobs[j].waiter = "checked"
  /\ overlay' = [overlay EXCEPT !.jobs[jobs[j].kind] = 0]
  /\ stats' = IF shared THEN stats \union {Key(j)} ELSE stats
  /\ IF shared
     THEN /\ jobs' = [jobs EXCEPT ![j].waiter = "walking"]
          /\ ThenWalks(j)
     ELSE /\ jobs' = [jobs EXCEPT ![j] = Released]
          /\ UNCHANGED <<walks, overlapped>>
  /\ UNCHANGED <<day, submitOnly, views, viewErrors, loading, pins, watchErrors>>

------------------------------------------------------------------------------
(* The trace panel's steps, with what they do to the other panels. *)

unshown == <<showVars, walks, overlay, overlapped>>

\* activations.reset and watch.reset.
ShowsNothing ==
  /\ stats' = {} /\ views' = {} /\ viewErrors' = {} /\ loading' = {}
  /\ pins' = {} /\ watchErrors' = {}
  /\ overlay' = Closed
  /\ UNCHANGED <<walks, overlapped>>

Opening == LoopFree /\ ShowSession(Held) /\ ShowsNothing
Closing == LoopFree /\ CloseModel(Held) /\ ShowsNothing

Approve == LoopFree /\ Run /\ UNCHANGED unshown
Withdraw == LoopFree /\ CancelTrace /\ UNCHANGED unshown
AskCompare == LoopFree /\ Compare /\ UNCHANGED unshown

PickTrace ==
  /\ LoopFree
  /\ SelectTrace(Held)
  /\ overlay' = Closed
  /\ Walks(0, pins)
  /\ UNCHANGED showVars

\* Presenting a trace or a comparison redraws, which walks the pinned rows.
Redraws(j) ==
  /\ walks' = walks \union {[who |-> j, todo |-> pins, at |-> None]}
  /\ overlapped' = (overlapped \/ walks # {})
  /\ UNCHANGED <<showVars, overlay>>

Present(j) == WatchPresents(j) /\ Redraws(j)
LandCompare(j) == CompareLands(j) /\ Redraws(j)
LoseCompare(j) == CompareFails(j) /\ UNCHANGED unshown

\* A trace that was presented closes the large view; presenting one of another
\* artifact may raise before that.
Settle(j) ==
  /\ \/ /\ jobs[j].state = "succeeded"
        /\ WatchSettles(j, Held)
        /\ overlay' = Closed
     \/ /\ jobs[j].state = "succeeded" => RefreshRaises
        /\ WatchSettles(j, {})
        /\ UNCHANGED overlay
  /\ UNCHANGED <<showVars, walks, overlapped>>

User ==
  \/ Opening \/ Closing \/ Approve \/ Withdraw \/ AskCompare \/ PickTrace
  \/ CloseOverlay
  \/ \E v \in Readable \union pins : \/ Pin(v) \/ Unpin(v) \/ RetryStatistics(v) \/ OpenOverlay(v)
                                     \/ InspectorStatistics(v) \/ InspectorViews(v)
  \/ \E kind \in OverlayKinds : AskOverlay(kind)

Jobs == TraceJobStep /\ UNCHANGED unshown

Walk == \E w \in walks : WalkLooks(w) \/ WalkAdds(w) \/ WalkEnds(w)

Threads ==
  \/ PrepareStep /\ UNCHANGED unshown
  \/ Walk
  \/ \E j \in DOMAIN jobs :
       \/ Present(j) \/ Settle(j) \/ LandCompare(j) \/ LoseCompare(j)
       \/ InspectorStatisticsLand(j) \/ WatchStatisticsLand(j) \/ ViewsLand(j)
       \/ OverlayChecks(j) \/ OverlayLands(j)

PanelsNext == User \/ Jobs \/ Threads

\* Jobs end (their work is finite, or killed at its limit), and threads that
\* can go on do; what the user asks is bounded, so none is overtaken for ever.
Fairness == WF_panels(Jobs) /\ WF_panels(Threads)

PanelsSpec == PanelsInit /\ [][PanelsNext]_panels /\ Fairness

------------------------------------------------------------------------------
(* Properties. *)

\* A session runs one approved trace at a time, the one its panel can cancel,
\* unless a thread showed its job after the session it prepared it for was
\* gone (run's guard, abandon_job).
OneApproved ==
  ~crossed =>
     LET live == {j \in DOMAIN jobs : /\ jobs[j].kind = "trace" /\ ~Ended(j)
                                       /\ jobs[j].session = session
                                       /\ ~jobs[j].cancelled}
     IN  /\ Cardinality(live) <= 1
         /\ \A j \in live : jobs[j].waiter = "waiting" => j = job

\* What the panel counted before approval is what the runner then takes, apart
\* from outputs that are stored weights, and it is refused nothing else.
AskedIsTaken ==
  \A j \in DOMAIN jobs : jobs[j].kind = "trace" =>
    LET graph == GraphOf[jobs[j].ids[1][1]]
        asked == jobs[j].asked.values
    IN  /\ Targets(graph, asked) =
             (IF asked = {} THEN Capturable(graph) ELSE asked \intersect Roles(graph))
        /\ asked \ Roles(graph) \subseteq graph.outputs
        /\ Refused(graph, asked) => asked \intersect Roles(graph) = {}

\* Every loading marker has a job whose answer is still to land: no row waits
\* for an answer that came or that nobody asked for.
MarkersTracked ==
  \A m \in loading : \E j \in DOMAIN jobs :
    /\ jobs[j].kind \in {"statistics", "views"} /\ jobs[j].waiter = "waiting"
    /\ Marker(j) = m

\* The strip never asks for more statistics at once than its cap, unless two
\* walks over its rows overlapped or an answer of a closed session landed.
WatchWithinCap ==
  ~overlapped =>
    Cardinality({j \in DOMAIN jobs : /\ jobs[j].kind = "statistics" /\ ~Ended(j)
                                     /\ jobs[j].asked.owner = "watch"
                                     /\ jobs[j].session = session}) <= MaxWatchJobs

\* The form comes back after a trace, whatever became of it, unless the active
\* trace is of another artifact.
Busy == preparing \/ (job # 0 /\ ~Ended(job))
PanelSettles == Busy ~> (~Busy \/ RefreshRaises)

\* A pinned value that can be read gets its statistics or an error, however
\* many rows wait for the few jobs the strip allows.
Answered(id, v) ==
  \/ <<id, v>> \in stats \union watchErrors
  \/ Shown # id \/ v \notin Readable \intersect pins
PinsAnswered ==
  \A a \in DOMAIN GraphOf : \A variant \in Variants : \A v \in Capturable(GraphOf[a]) :
    (Shown = <<a, variant>> /\ v \in Readable \intersect pins)
      ~> Answered(<<a, variant>>, v)

\* One trace runs at a time and it is the one the user approved, and what was asked to be
\* captured is what the runner is given.
RequestsSound == OneApproved /\ AskedIsTaken

\* The markers of pending reads are those of reads that are under way, and the strip of
\* pinned values never runs more than its cap of them.
MarkersSound == MarkersTracked /\ WatchWithinCap

\* The panels come to rest: the trace panel leaves its busy state and every pinned value
\* is answered.
PanelsAnswer == PanelSettles /\ PinsAnswered
=============================================================================
