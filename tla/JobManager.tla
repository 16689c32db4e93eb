----------------------------- MODULE JobManager -----------------------------
(***************************************************************************)
(* Background jobs and their manager (application/jobs.py).                *)
(*                                                                         *)
(* Threads: a caller that submits, cancels, waits for and releases jobs;   *)
(* the workers of a thread pool; and a thread that closes the manager.     *)
(* A job's lock covers one state change only, and its done event is set    *)
(* after the lock is released, so a worker, the closing thread and a       *)
(* waiter interleave between any two of those steps.                       *)
(***************************************************************************)
EXTENDS Naturals, Sequences, FiniteSets

CONSTANTS
  Jobs,         \* job identities (bound: how many are ever submitted)
  Workers,      \* max_workers of the pool
  Retention,    \* retained_jobs: how many ended jobs the manager keeps
  MaxCloses,    \* bound: calls of close()
  WaitModes     \* the values of close()'s `wait' that callers use

ASSUME JobAssumption ==
  /\ IsFiniteSet(Jobs) /\ Workers \in Nat \ {0} /\ Retention \in Nat /\ MaxCloses \in Nat
  /\ WaitModes \subseteq BOOLEAN

VARIABLES
  state,     \* Job._state, or "new" before it is submitted
  at,        \* where the job's closure is: in the queue, on a worker, over
  outcome,   \* how its work ended
  payload,   \* Job._result or Job._error
  done,      \* jobs whose done event is set
  token,     \* jobs whose cancellation token is set
  tracked,   \* the jobs in JobManager._jobs
  order,     \* where in that list: a job's number in the order of submission
  queue,     \* the pool's work queue
  closed,    \* JobManager._closed
  closer,    \* where the closing thread is
  waits,     \* the `wait' of the running or last close()
  todo,      \* the closing thread's snapshot of jobs
  half,      \* jobs that thread has made terminal without setting their done event
  closes,    \* calls of close() so far
  early,     \* history: jobs cancelled before a worker had picked them
  released   \* history: jobs whose payload the caller has dropped

jobVars   == <<state, at, outcome, payload, done>>
closeVars == <<closed, closer, waits, todo, half, closes>>
vars == <<jobVars, token, tracked, order, queue, closeVars, early, released>>

Terminal == {"succeeded", "failed", "cancelled"}
IsTerminal(j) == state[j] \in Terminal

Submitted == {j \in Jobs : state[j] # "new"}
ActiveJobs == {j \in tracked : ~IsTerminal(j)}

\* A worker is busy with a job from the moment it takes it off the queue.
OnWorker == {"picked", "starting", "working", "storing", "ending", "settling"}
Busy == {j \in Jobs : at[j] \in OnWorker}

Init ==
  /\ state   = [j \in Jobs |-> "new"]
  /\ at      = [j \in Jobs |-> "nowhere"]
  /\ outcome = [j \in Jobs |-> "none"]
  /\ payload = [j \in Jobs |-> "none"]
  /\ order   = [j \in Jobs |-> 0]
  /\ done = {} /\ token = {} /\ tracked = {} /\ queue = <<>>
  /\ closed = FALSE /\ closer = "idle" /\ waits = TRUE /\ closes = 0
  /\ todo = {} /\ half = {}
  /\ early = {} /\ released = {}

-----------------------------------------------------------------------------
(* Job._transition: a terminal state is never left, and only the call that   *)
(* made it terminal goes on to set the done event.                           *)

\* A mutant: the terminal state is not protected.
TransitionAlways(j, s) == state' = [state EXCEPT ![j] = s]

Transition(j, s) ==
  state' = IF IsTerminal(j) THEN state ELSE [state EXCEPT ![j] = s]

-----------------------------------------------------------------------------
(* The caller. *)

\* The oldest ended jobs beyond the retention cap go.  (A job that ends while
\* the list is walked only changes which ended jobs go.)
Pruned(S) ==
  LET ended  == {j \in S : IsTerminal(j)}
      excess == Cardinality(ended) - Retention
  IN  S \ {j \in ended : Cardinality({k \in ended : order[k] <= order[j]}) <= excess}

\* Under the manager's lock: the closed check, pruning, and the hand-off.
Submit(j) ==
  /\ ~closed
  /\ state[j] = "new"
  /\ state'   = [state EXCEPT ![j] = "pending"]
  /\ at'      = [at EXCEPT ![j] = "queued"]
  /\ queue'   = Append(queue, j)
  /\ tracked' = Pruned(tracked) \cup {j}
  /\ order'   = [order EXCEPT ![j] = Cardinality(Submitted) + 1]
  /\ UNCHANGED <<outcome, payload, done, token, closeVars, early, released>>

Cancelling(S) ==
  /\ token' = token \cup S
  /\ early' = early \cup {j \in S : at[j] = "queued"}

Cancel(j) ==
  /\ j \in Submitted \ token
  /\ Cancelling({j})
  /\ UNCHANGED <<jobVars, tracked, order, queue, closeVars, released>>

\* After wait() or result() returned.
ReleaseResult(j) ==
  /\ j \in done \ released
  /\ payload'  = [payload EXCEPT ![j] = IF @ = "result" THEN "none" ELSE @]
  /\ released' = released \cup {j}
  /\ UNCHANGED <<state, at, outcome, done, token, tracked, order, queue, closeVars, early>>

-----------------------------------------------------------------------------
(* A worker: Job._run. *)

others == <<token, tracked, order, closeVars, early, released>>

Pick(j) ==
  /\ queue # <<>> /\ j = Head(queue)
  /\ Cardinality(Busy) < Workers
  /\ queue' = Tail(queue)
  /\ at' = [at EXCEPT ![j] = "picked"]
  /\ UNCHANGED <<state, outcome, payload, done, others>>

CheckToken(j) ==
  /\ at[j] = "picked"
  /\ IF j \in token
     THEN /\ at' = [at EXCEPT ![j] = "ending"]
          /\ outcome' = [outcome EXCEPT ![j] = "cancelled"]
     ELSE /\ at' = [at EXCEPT ![j] = "starting"]
          /\ UNCHANGED outcome
  /\ UNCHANGED <<state, payload, done, queue, others>>

Start(j) ==
  /\ at[j] = "starting"
  /\ at' = [at EXCEPT ![j] = "working"]
  /\ Transition(j, "running")
  /\ UNCHANGED <<outcome, payload, done, queue, others>>

\* The work returns, raises, or stops at a checkpoint.
FinishWork(j) ==
  /\ at[j] = "working"
  /\ \E o \in Terminal :
       /\ outcome' = [outcome EXCEPT ![j] = o]
       /\ at' = [at EXCEPT ![j] = IF o = "cancelled" THEN "ending" ELSE "storing"]
  /\ UNCHANGED <<state, payload, done, queue, others>>

StorePayload(j) ==
  /\ at[j] = "storing"
  /\ payload' = [payload EXCEPT ![j] = IF outcome[j] = "succeeded" THEN "result" ELSE "error"]
  /\ at' = [at EXCEPT ![j] = "ending"]
  /\ UNCHANGED <<state, outcome, done, queue, others>>

EndRun(j) ==
  /\ at[j] = "ending"
  /\ Transition(j, outcome[j])
  /\ at' = [at EXCEPT ![j] = IF IsTerminal(j) THEN "over" ELSE "settling"]
  /\ UNCHANGED <<outcome, payload, done, queue, others>>

\* A mutant: only success wakes the waiters.
SetDoneIfSucceeded(j) ==
  /\ at[j] = "settling"
  /\ done' = IF state[j] = "succeeded" THEN done \cup {j} ELSE done
  /\ at' = [at EXCEPT ![j] = "over"]
  /\ UNCHANGED <<state, outcome, payload, queue, others>>

SetDone(j) ==
  /\ at[j] = "settling"
  /\ done' = done \cup {j}
  /\ at' = [at EXCEPT ![j] = "over"]
  /\ UNCHANGED <<state, outcome, payload, queue, others>>

Worker(j) ==
  \/ Pick(j) \/ CheckToken(j) \/ Start(j) \/ FinishWork(j)
  \/ StorePayload(j) \/ EndRun(j) \/ SetDone(j)

-----------------------------------------------------------------------------
(* The closing thread: JobManager.close. *)

Proceed(from, to) == closer = from /\ closer' = to

unclosing == <<jobVars, token, tracked, order, queue, half, early, released>>

BeginClose ==
  /\ closer = "idle" /\ closer' = "closing"
  /\ closes < MaxCloses /\ closes' = closes + 1
  /\ waits' \in WaitModes
  /\ closed' = TRUE
  /\ UNCHANGED <<unclosing, todo>>

SnapshotActive ==
  /\ Proceed("closing", "cancelling")
  /\ todo' = ActiveJobs
  /\ UNCHANGED <<unclosing, closed, waits, closes>>

CancelNext(j) ==
  /\ closer = "cancelling" /\ j \in todo
  /\ todo' = todo \ {j}
  /\ Cancelling({j})
  /\ UNCHANGED <<jobVars, tracked, order, queue, half, closed, closer, waits, closes, released>>

AllCancelled ==
  /\ todo = {} /\ Proceed("cancelling", "draining")
  /\ UNCHANGED <<unclosing, closed, waits, todo, closes>>

\* The pool's shutdown cancels what is still queued, one future at a time.
DrainNext ==
  /\ closer = "draining" /\ queue # <<>>
  /\ queue' = Tail(queue)
  /\ at' = [at EXCEPT ![Head(queue)] = "dropped"]
  /\ UNCHANGED <<state, outcome, payload, done, token, tracked, order, closeVars, early, released>>

Drained ==
  /\ queue = <<>> /\ Proceed("draining", "joining")
  /\ UNCHANGED <<unclosing, closed, waits, todo, closes>>

\* A mutant: the jobs that never started are left as they are.
SnapshotNothing ==
  /\ Proceed("joining", "sweeping")
  /\ waits => Busy = {}
  /\ todo' = {}
  /\ UNCHANGED <<unclosing, closed, waits, closes>>

SnapshotStuck ==
  /\ Proceed("joining", "sweeping")
  /\ waits => Busy = {}
  /\ todo' = ActiveJobs
  /\ UNCHANGED <<unclosing, closed, waits, closes>>

\* _transition(CANCELLED), first half; a job that ended meanwhile is left to
\* the worker that ended it.
SweepNext(j) ==
  /\ closer = "sweeping" /\ half = {} /\ j \in todo
  /\ todo' = todo \ {j}
  /\ Transition(j, "cancelled")
  /\ half' = IF IsTerminal(j) THEN {} ELSE {j}
  /\ UNCHANGED <<at, outcome, payload, done, token, tracked, order, queue,
                 closed, closer, waits, closes, early, released>>

\* ... and second half.
SweepDone ==
  /\ half # {}
  /\ done' = done \cup half
  /\ half' = {}
  /\ UNCHANGED <<state, at, outcome, payload, token, tracked, order, queue,
                 closed, closer, waits, todo, closes, early, released>>

CloseReturns ==
  /\ todo = {} /\ half = {} /\ Proceed("sweeping", "idle")
  /\ UNCHANGED <<unclosing, closed, waits, todo, closes>>

Closing ==
  \/ SnapshotActive \/ AllCancelled \/ DrainNext \/ Drained \/ SnapshotStuck \/ SweepDone
  \/ CloseReturns
  \/ \E j \in Jobs : CancelNext(j) \/ SweepNext(j)

-----------------------------------------------------------------------------
Next ==
  \/ \E j \in Jobs : Submit(j) \/ Cancel(j) \/ ReleaseResult(j) \/ Worker(j)
  \/ BeginClose
  \/ Closing

\* The threads run; every piece of work eventually returns or raises; nobody is
\* obliged to submit, cancel or close anything.
Fairness == WF_vars(Closing) /\ \A j \in Jobs : WF_vars(Worker(j))

Spec == Init /\ [][Next]_vars /\ Fairness

-----------------------------------------------------------------------------
(* Properties. *)

TypeOK ==
  /\ state   \in [Jobs -> {"new", "pending", "running"} \cup Terminal]
  /\ at      \in [Jobs -> {"nowhere", "queued", "dropped", "over"} \cup OnWorker]
  /\ outcome \in [Jobs -> {"none"} \cup Terminal]
  /\ payload \in [Jobs -> {"none", "result", "error"}]
  /\ done \subseteq Jobs /\ token \subseteq Jobs
  /\ todo \subseteq Jobs /\ half \subseteq Jobs
  /\ early \subseteq Jobs /\ released \subseteq Jobs
  /\ tracked \subseteq Jobs /\ queue \in Seq(Jobs)
  /\ order \in [Jobs -> Nat]
  /\ closed \in BOOLEAN /\ waits \in BOOLEAN
  /\ closer \in {"idle", "closing", "cancelling", "draining", "joining", "sweeping"}
  /\ closes \in 0..MaxCloses

\* Whoever is woken by a job's done event can call result(): the state is terminal,
\* and the result or the error that state stands for is there, unless the caller
\* has dropped it.
DoneHasAnswer ==
  \A j \in done :
    /\ IsTerminal(j)
    /\ state[j] = "succeeded" => payload[j] = "result" \/ j \in released
    /\ state[j] = "failed"    => payload[j] = "error"

\* The worker and the closing thread may both want to end a job: whoever comes
\* second changes nothing, and no late RUNNING reopens it.
TerminalIsFinal == [][\A j \in Jobs : IsTerminal(j) => state'[j] = state[j]]_state

\* Pruning never forgets a job that is still to end: active_jobs, cancel_all() and
\* the sweep of close() find every one of them.
LiveTracked == \A j \in Submitted : IsTerminal(j) \/ j \in tracked

\* When close() has returned, no job is left PENDING or RUNNING; if it waited, no
\* work runs any more and every waiter has been woken.
CloseSettles ==
  closed /\ closer = "idle" =>
    /\ \A j \in Submitted : IsTerminal(j)
    /\ waits => Busy = {} /\ Submitted = done

\* A job cancelled while it was queued never does any work.
CancelledNeverStarts ==
  \A j \in early : at[j] \notin {"starting", "working", "storing"}

\* A payload the caller released does not come back.  (It may after close(wait=False):
\* the README says how.)
ReleasedStaysReleased == \A j \in released : payload[j] # "result"

\* No waiter waits for ever, whatever is cancelled or closed in the meantime.
EveryJobEnds == \A j \in Jobs : (state[j] # "new") ~> (j \in done)

\* What whoever submits a job relies on: Job.wait() returns to an answer, the list of
\* active jobs is complete, cancelling a queued job is effective, and close() settles
\* every job whatever the workers are doing when it is called.
JobsSound ==
  TypeOK /\ DoneHasAnswer /\ LiveTracked /\ CancelledNeverStarts /\ CloseSettles
=============================================================================
