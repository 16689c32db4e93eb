----------------------------- MODULE TracePanel -----------------------------
(***************************************************************************)
(* The trace panel of the shell (ui/trace_panel.py) and the parts of the   *)
(* shell it hangs on: models are opened and closed, the user approves a    *)
(* trace, a thread prepares it and submits its job, another waits for the  *)
(* job and presents what it left, a third waits for a comparison.  The     *)
(* threads share the panel's fields with the event loop without a lock:    *)
(* what they read before they act may have changed.                        *)
(***************************************************************************)
EXTENDS CaptureScope, Sequences, SequencesExt, TLC

CONSTANTS GraphOf,    \* the main graph of each artifact
          Variants,   \* backends, devices and revisions a trace is keyed by
          Forms,      \* what the form may hold when a trace is approved
          Days        \* bound: what the user does, see "day"

ASSUME DaysAssumption ==
  Days \subseteq [opens : Seq(DOMAIN GraphOf), variants : SUBSET Variants, runs : Nat, asks : Nat,
                 pins : SUBSET UNION {Capturable(GraphOf[a]) : a \in DOMAIN GraphOf}]

None == <<>>

VARIABLES day,         \* bound: the artifacts opened in order, the variants traced, what
                       \* may be pinned, and how many traces and requests are left
          session,     \* the session shown, 0 in the empty shell
          opened,      \* sessions opened so far
          active,      \* active_trace_id
          comparison,  \* active_comparison: two trace ids
          preparing,   \* _preparing
          job,         \* the panel's job, 0 if none
          prepares,    \* the threads of run()
          jobs,        \* every job submitted
          crossed,     \* history: a job was shown in another session than its own
  captures     \* the store: the values of each trace that can be read

panelVars == <<day, session, opened, active, comparison, preparing, job, prepares,
               jobs, crossed, captures>>

Artifact(s) == day.opens[s]
TraceId(s, variant) == <<Artifact(s), variant>>

PanelInit ==
  /\ day \in Days
  /\ session = 0 /\ opened = 0
  /\ active = None /\ comparison = None
  /\ preparing = FALSE /\ job = 0
  /\ prepares = {}
  /\ jobs = <<>> /\ crossed = FALSE
  /\ captures = [id \in {} |-> None]

Ended(j) == jobs[j].state # "running"
Cancel(js, held) ==
  [j \in DOMAIN js |-> IF j \in held /\ js[j].state = "running"
                       THEN [js[j] EXCEPT !.cancelled = TRUE] ELSE js[j]]

NewJob(kind, of, ids, asked) ==
  [kind |-> kind, session |-> of, ids |-> ids, asked |-> asked,
   state |-> "running", cancelled |-> FALSE, waiter |-> "none"]

\* A job whose result was released; nobody holds it any more.
Released == [NewJob("none", 0, None, None) EXCEPT !.state = "succeeded", !.waiter = "done"]


------------------------------------------------------------------------------
(* Sessions.  held is what the large view has under way. *)

\* abandon_job, the close of the session shown, and reset.
ChangeSession(s, held) ==
  /\ session' = s
  /\ jobs' = Cancel(jobs, held \union {job})
  /\ job' = 0 /\ preparing' = FALSE
  /\ active' = None /\ comparison' = None
  /\ UNCHANGED <<prepares, crossed, captures>>

ShowSession(held) ==
  /\ opened < Len(day.opens)
  /\ opened' = opened + 1
  /\ UNCHANGED day
  /\ ChangeSession(opened + 1, held)

CloseModel(held) ==
  /\ session # 0
  /\ ChangeSession(0, held)
  /\ UNCHANGED <<day, opened>>

------------------------------------------------------------------------------
(* A trace. *)

\* refresh_actions asks the session for the active trace, which refuses one of
\* another artifact.
RefreshRaises == session # 0 /\ active # None /\ active[1] # Artifact(session)

RunOverRunning ==
  /\ session # 0 /\ ~preparing /\ ~RefreshRaises
  /\ day.runs > 0 /\ day' = [day EXCEPT !.runs = @ - 1]
  /\ \E variant \in day.variants :
       prepares' = prepares \union
         {[session |-> session, job |-> 0, step |-> "specifying", variant |-> variant,
           asked |-> {}, policy |-> "greedy"]}
  /\ preparing' = TRUE
  /\ comparison' = None
  /\ UNCHANGED <<session, opened, active, job, jobs, crossed, captures>>

\* When the refresh raises, the form is taken for preparing and nothing is.
Run ==
  /\ session # 0 /\ ~preparing
  /\ job # 0 => Ended(job)
  /\ day.runs > 0 /\ day' = [day EXCEPT !.runs = @ - 1]
  /\ IF RefreshRaises THEN UNCHANGED prepares
     ELSE \E form \in Forms, variant \in day.variants :
            prepares' = prepares \union
              {[session |-> session, job |-> 0, step |-> "specifying",
                variant |-> variant,
                asked |-> CaptureValueIds(GraphOf[Artifact(session)], form),
                policy |-> CapturePolicy(GraphOf[Artifact(session)], form)]}
  /\ preparing' = TRUE
  /\ comparison' = None
  /\ UNCHANGED <<session, opened, active, job, jobs, crossed, captures>>

Leaves(p) == prepares' = prepares \ {p}
Steps(p, q) == prepares' = (prepares \ {p}) \union {q}

PrepareFailsSilently(p) ==
  /\ p.step = "specifying"
  /\ Leaves(p)
  /\ UNCHANGED <<day, session, opened, active, comparison, preparing, job, jobs,
                 crossed, captures>>

\* A field does not parse, a binding names no input, or the session was closed.
PrepareFails(p) ==
  /\ p.step = "specifying"
  /\ Leaves(p)
  /\ preparing' = (preparing /\ session # p.session)
  /\ UNCHANGED <<day, session, opened, active, comparison, job, jobs, crossed, captures>>

PrepareSubmits(p) ==
  /\ p.step = "specifying"
  /\ session = p.session                                      \* _ensure_open
  /\ jobs' = Append(jobs,
       NewJob("trace", p.session, <<TraceId(p.session, p.variant)>>,
              [values |-> p.asked, policy |-> p.policy]))
  /\ Steps(p, [p EXCEPT !.step = "checking", !.job = Len(jobs')])
  /\ UNCHANGED <<day, session, opened, active, comparison, preparing, job, crossed, captures>>

PrepareChecks(p) ==
  /\ p.step = "checking"
  /\ IF session = p.session
     THEN Steps(p, [p EXCEPT !.step = "showing"]) /\ UNCHANGED jobs
     ELSE /\ Leaves(p)
          /\ jobs' = [Cancel(jobs, {p.job}) EXCEPT ![p.job] =
                       IF Ended(p.job) THEN Released ELSE [@ EXCEPT !.waiter = "died"]]
  /\ UNCHANGED <<day, session, opened, active, comparison, preparing, job, crossed, captures>>

PrepareShows(p) ==
  /\ p.step = "showing"
  /\ Leaves(p)
  /\ preparing' = FALSE
  /\ job' = p.job
  /\ jobs' = [jobs EXCEPT ![p.job].waiter = IF RefreshRaises THEN "died" ELSE "waiting"]
  /\ crossed' = (crossed \/ session # p.session)
  /\ UNCHANGED <<day, session, opened, active, comparison, captures>>

CancelTrace ==
  /\ job # 0
  /\ ~Ended(job)
  /\ jobs' = Cancel(jobs, {job})
  /\ UNCHANGED <<day, session, opened, active, comparison, preparing, job, prepares, crossed, captures>>

\* The thread that waits for a trace takes what the job left, and redraws if it
\* left a trace ...
WatchPresents(j) ==
  /\ jobs[j].kind = "trace" /\ jobs[j].waiter = "waiting"
  /\ jobs[j].state = "succeeded"
  /\ active' = jobs[j].ids[1] /\ comparison' = None
  /\ jobs' = [jobs EXCEPT ![j].waiter = "walking"]
  /\ UNCHANGED <<day, session, opened, preparing, job, prepares, crossed, captures>>

\* ... and settles: it forgets the job, refreshes, and releases the result (the
\* refresh may raise before).
WatchSettles(j, held) ==
  /\ jobs[j].kind = "trace" /\ Ended(j)
  /\ jobs[j].waiter = IF jobs[j].state = "succeeded" THEN "presented" ELSE "waiting"
  /\ job' = IF job = j THEN 0 ELSE job
  /\ jobs' = Cancel([jobs EXCEPT ![j] = Released], held)
  /\ UNCHANGED <<day, session, opened, active, comparison, preparing, prepares, crossed, captures>>

------------------------------------------------------------------------------
(* Comparisons and older traces. *)

Asks == day.asks > 0 /\ day' = [day EXCEPT !.asks = @ - 1]

TracesOf(s) == {id \in DOMAIN captures : id[1] = Artifact(s)}

Compare ==
  /\ session # 0
  /\ active \in TracesOf(session)
  /\ ~preparing /\ (job # 0 => Ended(job))          \* the button is enabled
  /\ \E other \in TracesOf(session) \ {active} :
       jobs' = Append(jobs, [NewJob("compare", session, <<other, active>>, None)
                               EXCEPT !.waiter = "waiting"])
  /\ Asks
  /\ UNCHANGED <<session, opened, active, comparison, preparing, job, prepares, crossed, captures>>

\* Neither the session nor the active trace is looked at again.
CompareLands(j) ==
  /\ jobs[j].kind = "compare" /\ jobs[j].waiter = "waiting"
  /\ jobs[j].state = "succeeded"
  /\ comparison' = jobs[j].ids
  /\ jobs' = [jobs EXCEPT ![j].waiter = "walking"]
  /\ UNCHANGED <<day, session, opened, active, preparing, job, prepares, crossed, captures>>

CompareFails(j) ==
  /\ jobs[j].kind = "compare" /\ jobs[j].waiter = "waiting"
  /\ jobs[j].state \notin {"running", "succeeded"}
  /\ jobs' = [jobs EXCEPT ![j] = Released]
  /\ UNCHANGED <<day, session, opened, active, comparison, preparing, job, prepares, crossed, captures>>

SelectTrace(held) ==
  /\ Asks /\ session # 0
  /\ \E id \in TracesOf(session) \ {active} : active' = id
  /\ comparison' = None
  /\ jobs' = Cancel(jobs, held)
  /\ UNCHANGED <<session, opened, preparing, job, prepares, crossed, captures>>

------------------------------------------------------------------------------
(* The jobs themselves. *)

\* A run of a trace that exists adds to its captures in place.
Commits(id, values) ==
  LET old == IF id \in DOMAIN captures THEN captures[id] ELSE {}
  IN  captures' = (id :> old \union Targets(GraphOf[id[1]], values)) @@ captures

\* Nobody waits for a job whose thread died.
EndsWith(j, outcome) ==
  jobs' = [jobs EXCEPT ![j] = IF @.waiter = "died" THEN Released
                              ELSE [@ EXCEPT !.state = outcome]]

TraceSucceeds(j) ==
  /\ jobs[j].kind = "trace" /\ ~Ended(j)
  /\ ~Refused(GraphOf[jobs[j].ids[1][1]], jobs[j].asked.values)
  /\ EndsWith(j, "succeeded")
  /\ Commits(jobs[j].ids[1], jobs[j].asked.values)
  /\ UNCHANGED <<day, session, opened, active, comparison, preparing, job, prepares, crossed>>

CompareSucceeds(j) ==
  /\ jobs[j].kind = "compare" /\ ~Ended(j)
  /\ EndsWith(j, "succeeded")
  /\ UNCHANGED <<day, session, opened, active, comparison, preparing, job, prepares, crossed, captures>>

JobFails(j) ==
  /\ jobs[j].kind \in {"trace", "compare"} /\ ~Ended(j)
  /\ EndsWith(j, IF jobs[j].cancelled THEN "cancelled" ELSE "failed")
  /\ UNCHANGED <<day, session, opened, active, comparison, preparing, job, prepares, crossed, captures>>

PrepareStep ==
  \E p \in prepares :
    PrepareFails(p) \/ PrepareSubmits(p) \/ PrepareChecks(p) \/ PrepareShows(p)

TraceJobStep ==
  \E j \in DOMAIN jobs : TraceSucceeds(j) \/ CompareSucceeds(j) \/ JobFails(j)
=============================================================================
