--------------------------- MODULE ApplicationProofs ---------------------------
(***************************************************************************)
(* Proofs about two components of the application layer that many callers  *)
(* share, for any values of their constants: the job manager (JobManager)  *)
(* and the block hierarchies of an artifact (HierarchyController), alone   *)
(* and under the shell that navigates them (ShellNavigation).              *)
(***************************************************************************)
EXTENDS JobManager, ShellNavigation, FiniteSetTheorems, WellFoundedInduction, TLAPS

-----------------------------------------------------------------------------
(* The job manager.                                                          *)
(*                                                                           *)
(* The properties are not inductive: each depends on what a job's closure    *)
(* may be doing while the job has a certain state, and on which jobs the     *)
(* closing thread can still have missed.  IInv says both.                    *)

\* A closure is in one place: a queued job is in the queue once, and nothing else
\* is in the queue.  A job that was never submitted is nowhere.
QueueExact ==
  /\ \A i \in 1..Len(queue) : at[queue[i]] = "queued"
  /\ \A i, k \in 1..Len(queue) : queue[i] = queue[k] => i = k
  /\ \A j \in Jobs : state[j] = "new" <=> at[j] = "nowhere"

\* What the worker has achieved at each point of Job._run.
RunConsistent ==
  \A j \in Jobs :
    /\ at[j] = "storing" => outcome[j] \in {"succeeded", "failed"}
    /\ at[j] = "ending" => outcome[j] \in Terminal
    /\ at[j] = "ending" /\ outcome[j] = "succeeded" => payload[j] = "result" \/ j \in released
    /\ at[j] = "ending" /\ outcome[j] = "failed" => payload[j] = "error"
    /\ at[j] = "settling" => IsTerminal(j)
    /\ state[j] \in {"succeeded", "failed"} => at[j] \in {"settling", "over"}

\* A terminal state and its payload, and who still has to set the done event.
AnswerReady ==
  \A j \in Jobs :
    /\ state[j] = "succeeded" => payload[j] = "result" \/ j \in released
    /\ state[j] = "failed" => payload[j] = "error"
    /\ j \in done \cup half => IsTerminal(j)
    /\ IsTerminal(j) => j \in done \/ j \in half \/ at[j] = "settling"

\* The closing thread: what it has ensured by the time it is at each of its steps.
ClosePhases ==
  /\ closer # "idle" => closed
  /\ closer # "sweeping" => half = {}
  /\ closer \in {"joining", "sweeping"} => queue = <<>>
  /\ closer = "sweeping" => \A j \in Submitted : IsTerminal(j) \/ j \in todo
  /\ closer = "sweeping" /\ waits => Busy = {}
  /\ closer = "idle" /\ closed =>
       /\ \A j \in Submitted : IsTerminal(j)
       /\ waits => Busy = {} /\ queue = <<>>

\* A job cancelled in the queue is stopped by its token.
EarlyStopped == \A j \in early : j \in token /\ at[j] \notin {"starting", "working", "storing"}

\* The manager knows of submitted jobs only, and so does the closing thread.
OnlySubmitted == tracked \cup todo \subseteq Submitted

IInv ==
  /\ TypeOK
  /\ QueueExact
  /\ RunConsistent
  /\ AnswerReady
  /\ ClosePhases
  /\ EarlyStopped
  /\ OnlySubmitted
  /\ LiveTracked

-----------------------------------------------------------------------------
(* Facts about the operators. *)

\* Pruning forgets ended jobs only (JobManager._prune_terminal_locked).
LEMMA PruningKeepsLive ==
  ASSUME NEW S, NEW j \in S, ~IsTerminal(j)
  PROVE  j \in Pruned(S)
  BY DEF Pruned

\* Pruning adds no job.
LEMMA PruningShrinks == \A S : Pruned(S) \subseteq S
  BY DEF Pruned

\* The job at the head of the queue leaves it for good.
LEMMA HeadLeaves ==
  ASSUME TypeOK, QueueExact, queue # <<>>
  PROVE  /\ Head(queue) \in Jobs /\ at[Head(queue)] = "queued"
         /\ Tail(queue) \in Seq(Jobs)
         /\ \A i \in 1..Len(Tail(queue)) : Tail(queue)[i] # Head(queue)
         /\ \A i \in 1..Len(Tail(queue)) :
              i + 1 \in 1..Len(queue) /\ Tail(queue)[i] = queue[i + 1]
  <1>1. queue \in Seq(Jobs) /\ Len(queue) > 0 /\ 1 \in 1..Len(queue)
    BY DEF TypeOK
  <1>2. Head(queue) = queue[1] /\ Head(queue) \in Jobs
    BY <1>1
  <1>3. /\ Tail(queue) \in Seq(Jobs)
        /\ \A i \in 1..Len(Tail(queue)) :
             i + 1 \in 1..Len(queue) /\ i + 1 # 1 /\ Tail(queue)[i] = queue[i + 1]
    BY <1>1
  <1> QED
    BY <1>1, <1>2, <1>3 DEF QueueExact

-----------------------------------------------------------------------------
(* The inductive invariant, one conjunct at a time. *)

\* Every step keeps every variable to its type.
LEMMA TypeStep == TypeOK /\ RunConsistent /\ [Next]_vars => TypeOK'
  <1> SUFFICES ASSUME TypeOK, RunConsistent, [Next]_vars PROVE TypeOK'
    OBVIOUS
  <1> USE DEF TypeOK, Terminal, OnWorker
  <1>1. ASSUME NEW j \in Jobs, Submit(j) PROVE TypeOK'
    <2>1. IsFiniteSet(Submitted) /\ Cardinality(Submitted) + 1 \in Nat
      BY JobAssumption, FS_Subset, FS_CardinalityType DEF Submitted
    <2>2. tracked' \subseteq Jobs
      BY <1>1, PruningShrinks DEF Submit
    <2> QED
      BY <1>1, <2>1, <2>2 DEF Submit, closeVars
  <1>2. ASSUME NEW j \in Jobs, Cancel(j) PROVE TypeOK'
    BY <1>2 DEF Cancel, Cancelling, jobVars, closeVars
  <1>3. ASSUME NEW j \in Jobs, ReleaseResult(j) PROVE TypeOK'
    BY <1>3 DEF ReleaseResult, closeVars
  <1>4. ASSUME NEW j \in Jobs, Worker(j) PROVE TypeOK'
    <2> USE DEF others, closeVars
    <2>1. CASE Pick(j)
      BY <2>1 DEF Pick
    <2>2. CASE CheckToken(j)
      BY <2>2 DEF CheckToken
    <2>3. CASE Start(j)
      BY <2>3 DEF Start, Transition
    <2>4. CASE FinishWork(j)
      BY <2>4 DEF FinishWork
    <2>5. CASE StorePayload(j)
      BY <2>5 DEF StorePayload
    <2>6. CASE EndRun(j)
      BY <2>6 DEF EndRun, Transition, RunConsistent
    <2>7. CASE SetDone(j)
      BY <2>7 DEF SetDone
    <2> QED
      BY <1>4, <2>1, <2>2, <2>3, <2>4, <2>5, <2>6, <2>7 DEF Worker
  <1>5. CASE BeginClose
    BY <1>5, JobAssumption DEF BeginClose, unclosing, jobVars
  <1>6. CASE Closing
    <2> USE DEF unclosing, jobVars, closeVars, Proceed
    <2>1. CASE SnapshotActive
      BY <2>1 DEF SnapshotActive, ActiveJobs
    <2>2. CASE AllCancelled
      BY <2>2 DEF AllCancelled
    <2>3. CASE DrainNext
      BY <2>3 DEF DrainNext
    <2>4. CASE Drained
      BY <2>4 DEF Drained
    <2>5. CASE SnapshotStuck
      BY <2>5 DEF SnapshotStuck, ActiveJobs
    <2>6. CASE SweepDone
      BY <2>6 DEF SweepDone
    <2>7. CASE CloseReturns
      BY <2>7 DEF CloseReturns
    <2>8. ASSUME NEW j \in Jobs, CancelNext(j) PROVE TypeOK'
      BY <2>8 DEF CancelNext, Cancelling
    <2>9. ASSUME NEW j \in Jobs, SweepNext(j) PROVE TypeOK'
      BY <2>9 DEF SweepNext, Transition
    <2> QED
      BY <1>6, <2>1, <2>2, <2>3, <2>4, <2>5, <2>6, <2>7, <2>8, <2>9 DEF Closing
  <1>7. CASE UNCHANGED vars
    BY <1>7 DEF vars, jobVars, closeVars
  <1> QED
    BY <1>1, <1>2, <1>3, <1>4, <1>5, <1>6, <1>7 DEF Next

\* Every step keeps the queue exact.
LEMMA QueueStep ==
  ASSUME TypeOK, QueueExact, RunConsistent, OnlySubmitted, [Next]_vars
  PROVE  QueueExact'
  <1> USE DEF jobVars, closeVars, others, unclosing, Proceed, QueueExact, Terminal, IsTerminal, TypeOK
  <1>1. ASSUME NEW j \in Jobs, Submit(j) PROVE QueueExact'
    BY <1>1 DEF Submit
  <1>2. ASSUME NEW j \in Jobs, Cancel(j) PROVE QueueExact'
    BY <1>2 DEF Cancel, Cancelling
  <1>3. ASSUME NEW j \in Jobs, ReleaseResult(j) PROVE QueueExact'
    BY <1>3 DEF ReleaseResult
  <1>4. ASSUME NEW j \in Jobs, Worker(j) PROVE QueueExact'
    <2>1. CASE Pick(j)
      BY <2>1, HeadLeaves DEF Pick
    <2>2. CASE CheckToken(j)
      BY <2>2 DEF CheckToken
    <2>3. CASE Start(j)
      BY <2>3 DEF Start, Transition
    <2>4. CASE FinishWork(j)
      BY <2>4 DEF FinishWork
    <2>5. CASE StorePayload(j)
      BY <2>5 DEF StorePayload
    <2>6. CASE EndRun(j)
      <3>1. /\ at[j] = "ending" /\ outcome[j] \in Terminal
            /\ at' = [at EXCEPT ![j] = IF IsTerminal(j) THEN "over" ELSE "settling"]
            /\ state' = IF IsTerminal(j) THEN state ELSE [state EXCEPT ![j] = outcome[j]]
            /\ queue' = queue
        BY <2>6 DEF EndRun, Transition, RunConsistent
      <3>2. \A i \in 1..Len(queue) : queue[i] \in Jobs /\ queue[i] # j
        BY <3>1
      <3>3. \A k \in Jobs : state'[k] = "new" <=> at'[k] = "nowhere"
        BY <3>1
      <3> QED
        BY <3>1, <3>2, <3>3
    <2>7. CASE SetDone(j)
      BY <2>7 DEF SetDone
    <2> QED
      BY <1>4, <2>1, <2>2, <2>3, <2>4, <2>5, <2>6, <2>7 DEF Worker
  <1>5. CASE BeginClose
    BY <1>5 DEF BeginClose
  <1>6. CASE Closing
    <2>1. CASE SnapshotActive
      BY <2>1 DEF SnapshotActive
    <2>2. CASE AllCancelled
      BY <2>2 DEF AllCancelled
    <2>3. CASE DrainNext
      BY <2>3, HeadLeaves DEF DrainNext
    <2>4. CASE Drained
      BY <2>4 DEF Drained
    <2>5. CASE SnapshotStuck
      BY <2>5 DEF SnapshotStuck
    <2>6. CASE SweepDone
      BY <2>6 DEF SweepDone
    <2>7. CASE CloseReturns
      BY <2>7 DEF CloseReturns
    <2>8. ASSUME NEW j \in Jobs, CancelNext(j) PROVE QueueExact'
      BY <2>8 DEF CancelNext, Cancelling
    <2>9. ASSUME NEW j \in Jobs, SweepNext(j) PROVE QueueExact'
      BY <2>9 DEF SweepNext, Transition, OnlySubmitted, Submitted
    <2> QED
      BY <1>6, <2>1, <2>2, <2>3, <2>4, <2>5, <2>6, <2>7, <2>8, <2>9 DEF Closing
  <1>7. CASE UNCHANGED vars
    BY <1>7 DEF vars
  <1> QED
    BY <1>1, <1>2, <1>3, <1>4, <1>5, <1>6, <1>7 DEF Next

\* Every step keeps the worker's record of a run consistent.
LEMMA RunStep ==
  ASSUME TypeOK, QueueExact, RunConsistent, AnswerReady, [Next]_vars
  PROVE  RunConsistent'
  <1> USE DEF jobVars, closeVars, others, unclosing, Proceed, RunConsistent, Terminal, IsTerminal, TypeOK
  <1>1. ASSUME NEW j \in Jobs, Submit(j) PROVE RunConsistent'
    BY <1>1 DEF Submit, QueueExact
  <1>2. ASSUME NEW j \in Jobs, Cancel(j) PROVE RunConsistent'
    BY <1>2 DEF Cancel, Cancelling
  <1>3. ASSUME NEW j \in Jobs, ReleaseResult(j) PROVE RunConsistent'
    BY <1>3 DEF ReleaseResult, AnswerReady
  <1>4. ASSUME NEW j \in Jobs, Worker(j) PROVE RunConsistent'
    <2>1. CASE Pick(j)
      BY <2>1, HeadLeaves DEF Pick
    <2>2. CASE CheckToken(j)
      BY <2>2 DEF CheckToken
    <2>3. CASE Start(j)
      BY <2>3 DEF Start, Transition
    <2>4. CASE FinishWork(j)
      BY <2>4 DEF FinishWork
    <2>5. CASE StorePayload(j)
      BY <2>5 DEF StorePayload
    <2>6. CASE EndRun(j)
      BY <2>6 DEF EndRun, Transition
    <2>7. CASE SetDone(j)
      BY <2>7 DEF SetDone
    <2> QED
      BY <1>4, <2>1, <2>2, <2>3, <2>4, <2>5, <2>6, <2>7 DEF Worker
  <1>5. CASE BeginClose
    BY <1>5 DEF BeginClose
  <1>6. CASE Closing
    <2>1. CASE SnapshotActive
      BY <2>1 DEF SnapshotActive
    <2>2. CASE AllCancelled
      BY <2>2 DEF AllCancelled
    <2>3. CASE DrainNext
      BY <2>3, HeadLeaves DEF DrainNext
    <2>4. CASE Drained
      BY <2>4 DEF Drained
    <2>5. CASE SnapshotStuck
      BY <2>5 DEF SnapshotStuck
    <2>6. CASE SweepDone
      BY <2>6 DEF SweepDone
    <2>7. CASE CloseReturns
      BY <2>7 DEF CloseReturns
    <2>8. ASSUME NEW j \in Jobs, CancelNext(j) PROVE RunConsistent'
      BY <2>8 DEF CancelNext, Cancelling
    <2>9. ASSUME NEW j \in Jobs, SweepNext(j) PROVE RunConsistent'
      BY <2>9 DEF SweepNext, Transition
    <2> QED
      BY <1>6, <2>1, <2>2, <2>3, <2>4, <2>5, <2>6, <2>7, <2>8, <2>9 DEF Closing
  <1>7. CASE UNCHANGED vars
    BY <1>7 DEF vars
  <1> QED
    BY <1>1, <1>2, <1>3, <1>4, <1>5, <1>6, <1>7 DEF Next

\* Every step keeps terminal states, payloads and done events together.
LEMMA AnswerStep ==
  ASSUME TypeOK, QueueExact, RunConsistent, AnswerReady, [Next]_vars
  PROVE  AnswerReady'
  <1> USE DEF jobVars, closeVars, others, unclosing, Proceed, AnswerReady, Terminal, IsTerminal, TypeOK
  <1>1. ASSUME NEW j \in Jobs, Submit(j) PROVE AnswerReady'
    BY <1>1 DEF Submit, QueueExact
  <1>2. ASSUME NEW j \in Jobs, Cancel(j) PROVE AnswerReady'
    BY <1>2 DEF Cancel, Cancelling
  <1>3. ASSUME NEW j \in Jobs, ReleaseResult(j) PROVE AnswerReady'
    BY <1>3 DEF ReleaseResult
  <1>4. ASSUME NEW j \in Jobs, Worker(j) PROVE AnswerReady'
    <2>1. CASE Pick(j)
      BY <2>1, HeadLeaves DEF Pick
    <2>2. CASE CheckToken(j)
      BY <2>2 DEF CheckToken
    <2>3. CASE Start(j)
      BY <2>3 DEF Start, Transition
    <2>4. CASE FinishWork(j)
      BY <2>4 DEF FinishWork
    <2>5. CASE StorePayload(j)
      BY <2>5 DEF StorePayload, RunConsistent
    <2>6. CASE EndRun(j)
      BY <2>6 DEF EndRun, Transition, RunConsistent
    <2>7. CASE SetDone(j)
      BY <2>7 DEF SetDone, RunConsistent
    <2> QED
      BY <1>4, <2>1, <2>2, <2>3, <2>4, <2>5, <2>6, <2>7 DEF Worker
  <1>5. CASE BeginClose
    BY <1>5 DEF BeginClose
  <1>6. CASE Closing
    <2>1. CASE SnapshotActive
      BY <2>1 DEF SnapshotActive
    <2>2. CASE AllCancelled
      BY <2>2 DEF AllCancelled
    <2>3. CASE DrainNext
      BY <2>3, HeadLeaves DEF DrainNext
    <2>4. CASE Drained
      BY <2>4 DEF Drained
    <2>5. CASE SnapshotStuck
      BY <2>5 DEF SnapshotStuck
    <2>6. CASE SweepDone
      BY <2>6 DEF SweepDone
    <2>7. CASE CloseReturns
      BY <2>7 DEF CloseReturns
    <2>8. ASSUME NEW j \in Jobs, CancelNext(j) PROVE AnswerReady'
      BY <2>8 DEF CancelNext, Cancelling
    <2>9. ASSUME NEW j \in Jobs, SweepNext(j) PROVE AnswerReady'
      BY <2>9 DEF SweepNext, Transition
    <2> QED
      BY <1>6, <2>1, <2>2, <2>3, <2>4, <2>5, <2>6, <2>7, <2>8, <2>9 DEF Closing
  <1>7. CASE UNCHANGED vars
    BY <1>7 DEF vars
  <1> QED
    BY <1>1, <1>2, <1>3, <1>4, <1>5, <1>6, <1>7 DEF Next

\* Every step keeps jobs cancelled in the queue from working.
LEMMA EarlyStep ==
  ASSUME TypeOK, QueueExact, EarlyStopped, [Next]_vars
  PROVE  EarlyStopped'
  <1> USE DEF jobVars, closeVars, others, unclosing, Proceed, EarlyStopped, TypeOK
  <1>1. ASSUME NEW j \in Jobs, Submit(j) PROVE EarlyStopped'
    BY <1>1 DEF Submit, QueueExact
  <1>2. ASSUME NEW j \in Jobs, Cancel(j) PROVE EarlyStopped'
    BY <1>2 DEF Cancel, Cancelling
  <1>3. ASSUME NEW j \in Jobs, ReleaseResult(j) PROVE EarlyStopped'
    BY <1>3 DEF ReleaseResult
  <1>4. ASSUME NEW j \in Jobs, Worker(j) PROVE EarlyStopped'
    <2>1. CASE Pick(j)
      BY <2>1, HeadLeaves DEF Pick
    <2>2. CASE CheckToken(j)
      BY <2>2 DEF CheckToken
    <2>3. CASE Start(j)
      BY <2>3 DEF Start, Transition
    <2>4. CASE FinishWork(j)
      BY <2>4 DEF FinishWork
    <2>5. CASE StorePayload(j)
      BY <2>5 DEF StorePayload
    <2>6. CASE EndRun(j)
      BY <2>6 DEF EndRun, Transition
    <2>7. CASE SetDone(j)
      BY <2>7 DEF SetDone
    <2> QED
      BY <1>4, <2>1, <2>2, <2>3, <2>4, <2>5, <2>6, <2>7 DEF Worker
  <1>5. CASE BeginClose
    BY <1>5 DEF BeginClose
  <1>6. CASE Closing
    <2>1. CASE SnapshotActive
      BY <2>1 DEF SnapshotActive
    <2>2. CASE AllCancelled
      BY <2>2 DEF AllCancelled
    <2>3. CASE DrainNext
      BY <2>3, HeadLeaves DEF DrainNext
    <2>4. CASE Drained
      BY <2>4 DEF Drained
    <2>5. CASE SnapshotStuck
      BY <2>5 DEF SnapshotStuck
    <2>6. CASE SweepDone
      BY <2>6 DEF SweepDone
    <2>7. CASE CloseReturns
      BY <2>7 DEF CloseReturns
    <2>8. ASSUME NEW j \in Jobs, CancelNext(j) PROVE EarlyStopped'
      BY <2>8 DEF CancelNext, Cancelling
    <2>9. ASSUME NEW j \in Jobs, SweepNext(j) PROVE EarlyStopped'
      BY <2>9 DEF SweepNext, Transition
    <2> QED
      BY <1>6, <2>1, <2>2, <2>3, <2>4, <2>5, <2>6, <2>7, <2>8, <2>9 DEF Closing
  <1>7. CASE UNCHANGED vars
    BY <1>7 DEF vars
  <1> QED
    BY <1>1, <1>2, <1>3, <1>4, <1>5, <1>6, <1>7 DEF Next

\* Every step keeps what the closing thread has ensured.
LEMMA CloseStep ==
  ASSUME TypeOK, QueueExact, RunConsistent, LiveTracked, ClosePhases, [Next]_vars
  PROVE  ClosePhases'
  <1> USE DEF jobVars, closeVars, others, unclosing, Proceed, ClosePhases, Terminal, IsTerminal, Submitted, Busy, OnWorker, TypeOK
  <1>1. ASSUME NEW j \in Jobs, Submit(j) PROVE ClosePhases'
    BY <1>1 DEF Submit
  <1>2. ASSUME NEW j \in Jobs, Cancel(j) PROVE ClosePhases'
    BY <1>2 DEF Cancel, Cancelling
  <1>3. ASSUME NEW j \in Jobs, ReleaseResult(j) PROVE ClosePhases'
    BY <1>3 DEF ReleaseResult
  <1>4. ASSUME NEW j \in Jobs, Worker(j) PROVE ClosePhases'
    <2>1. CASE Pick(j)
      BY <2>1, HeadLeaves DEF Pick
    <2>2. CASE CheckToken(j)
      BY <2>2 DEF CheckToken
    <2>3. CASE Start(j)
      BY <2>3 DEF Start, Transition, QueueExact
    <2>4. CASE FinishWork(j)
      BY <2>4 DEF FinishWork
    <2>5. CASE StorePayload(j)
      BY <2>5 DEF StorePayload
    <2>6. CASE EndRun(j)
      BY <2>6 DEF EndRun, Transition, RunConsistent
    <2>7. CASE SetDone(j)
      BY <2>7 DEF SetDone
    <2> QED
      BY <1>4, <2>1, <2>2, <2>3, <2>4, <2>5, <2>6, <2>7 DEF Worker
  <1>5. CASE BeginClose
    BY <1>5 DEF BeginClose
  <1>6. CASE Closing
    <2>1. CASE SnapshotActive
      BY <2>1 DEF SnapshotActive, LiveTracked, ActiveJobs
    <2>2. CASE AllCancelled
      BY <2>2 DEF AllCancelled
    <2>3. CASE DrainNext
      BY <2>3, HeadLeaves DEF DrainNext
    <2>4. CASE Drained
      BY <2>4 DEF Drained
    <2>5. CASE SnapshotStuck
      BY <2>5 DEF SnapshotStuck, LiveTracked, ActiveJobs
    <2>6. CASE SweepDone
      BY <2>6 DEF SweepDone
    <2>7. CASE CloseReturns
      BY <2>7 DEF CloseReturns
    <2>8. ASSUME NEW j \in Jobs, CancelNext(j) PROVE ClosePhases'
      BY <2>8 DEF CancelNext, Cancelling
    <2>9. ASSUME NEW j \in Jobs, SweepNext(j) PROVE ClosePhases'
      BY <2>9 DEF SweepNext, Transition
    <2> QED
      BY <1>6, <2>1, <2>2, <2>3, <2>4, <2>5, <2>6, <2>7, <2>8, <2>9 DEF Closing
  <1>7. CASE UNCHANGED vars
    BY <1>7 DEF vars
  <1> QED
    BY <1>1, <1>2, <1>3, <1>4, <1>5, <1>6, <1>7 DEF Next

\* Every step keeps the jobs that are still to end tracked.
LEMMA TrackedStep ==
  ASSUME TypeOK, QueueExact, RunConsistent, LiveTracked, [Next]_vars
  PROVE  LiveTracked'
  <1> USE DEF jobVars, closeVars, others, unclosing, Proceed, LiveTracked, Terminal, IsTerminal, Submitted, TypeOK
  <1>1. ASSUME NEW j \in Jobs, Submit(j) PROVE LiveTracked'
    BY <1>1, PruningKeepsLive DEF Submit
  <1>2. ASSUME NEW j \in Jobs, Cancel(j) PROVE LiveTracked'
    BY <1>2 DEF Cancel, Cancelling
  <1>3. ASSUME NEW j \in Jobs, ReleaseResult(j) PROVE LiveTracked'
    BY <1>3 DEF ReleaseResult
  <1>4. ASSUME NEW j \in Jobs, Worker(j) PROVE LiveTracked'
    <2>1. CASE Pick(j)
      BY <2>1 DEF Pick
    <2>2. CASE CheckToken(j)
      BY <2>2 DEF CheckToken
    <2>3. CASE Start(j)
      BY <2>3 DEF Start, Transition, QueueExact
    <2>4. CASE FinishWork(j)
      BY <2>4 DEF FinishWork
    <2>5. CASE StorePayload(j)
      BY <2>5 DEF StorePayload
    <2>6. CASE EndRun(j)
      BY <2>6 DEF EndRun, Transition, RunConsistent
    <2>7. CASE SetDone(j)
      BY <2>7 DEF SetDone
    <2> QED
      BY <1>4, <2>1, <2>2, <2>3, <2>4, <2>5, <2>6, <2>7 DEF Worker
  <1>5. CASE BeginClose
    BY <1>5 DEF BeginClose
  <1>6. CASE Closing
    <2>1. CASE SnapshotActive
      BY <2>1 DEF SnapshotActive
    <2>2. CASE AllCancelled
      BY <2>2 DEF AllCancelled
    <2>3. CASE DrainNext
      BY <2>3 DEF DrainNext
    <2>4. CASE Drained
      BY <2>4 DEF Drained
    <2>5. CASE SnapshotStuck
      BY <2>5 DEF SnapshotStuck
    <2>6. CASE SweepDone
      BY <2>6 DEF SweepDone
    <2>7. CASE CloseReturns
      BY <2>7 DEF CloseReturns
    <2>8. ASSUME NEW j \in Jobs, CancelNext(j) PROVE LiveTracked'
      BY <2>8 DEF CancelNext, Cancelling
    <2>9. ASSUME NEW j \in Jobs, SweepNext(j) PROVE LiveTracked'
      BY <2>9 DEF SweepNext, Transition
    <2> QED
      BY <1>6, <2>1, <2>2, <2>3, <2>4, <2>5, <2>6, <2>7, <2>8, <2>9 DEF Closing
  <1>7. CASE UNCHANGED vars
    BY <1>7 DEF vars
  <1> QED
    BY <1>1, <1>2, <1>3, <1>4, <1>5, <1>6, <1>7 DEF Next

\* Every step keeps the manager to submitted jobs.
LEMMA SubmittedStep ==
  ASSUME TypeOK, QueueExact, RunConsistent, OnlySubmitted, [Next]_vars
  PROVE  OnlySubmitted'
  <1> USE DEF jobVars, closeVars, others, unclosing, Proceed, OnlySubmitted, Terminal, IsTerminal, Submitted, TypeOK
  <1>1. ASSUME NEW j \in Jobs, Submit(j) PROVE OnlySubmitted'
    BY <1>1, PruningShrinks DEF Submit
  <1>2. ASSUME NEW j \in Jobs, Cancel(j) PROVE OnlySubmitted'
    BY <1>2 DEF Cancel, Cancelling
  <1>3. ASSUME NEW j \in Jobs, ReleaseResult(j) PROVE OnlySubmitted'
    BY <1>3 DEF ReleaseResult
  <1>4. ASSUME NEW j \in Jobs, Worker(j) PROVE OnlySubmitted'
    <2>1. CASE Pick(j)
      BY <2>1 DEF Pick
    <2>2. CASE CheckToken(j)
      BY <2>2 DEF CheckToken
    <2>3. CASE Start(j)
      BY <2>3 DEF Start, Transition
    <2>4. CASE FinishWork(j)
      BY <2>4 DEF FinishWork
    <2>5. CASE StorePayload(j)
      BY <2>5 DEF StorePayload
    <2>6. CASE EndRun(j)
      BY <2>6 DEF EndRun, Transition, RunConsistent
    <2>7. CASE SetDone(j)
      BY <2>7 DEF SetDone
    <2> QED
      BY <1>4, <2>1, <2>2, <2>3, <2>4, <2>5, <2>6, <2>7 DEF Worker
  <1>5. CASE BeginClose
    BY <1>5 DEF BeginClose
  <1>6. CASE Closing
    <2>1. CASE SnapshotActive
      BY <2>1 DEF SnapshotActive, ActiveJobs
    <2>2. CASE AllCancelled
      BY <2>2 DEF AllCancelled
    <2>3. CASE DrainNext
      BY <2>3 DEF DrainNext
    <2>4. CASE Drained
      BY <2>4 DEF Drained
    <2>5. CASE SnapshotStuck
      BY <2>5 DEF SnapshotStuck, ActiveJobs
    <2>6. CASE SweepDone
      BY <2>6 DEF SweepDone
    <2>7. CASE CloseReturns
      BY <2>7 DEF CloseReturns
    <2>8. ASSUME NEW j \in Jobs, CancelNext(j) PROVE OnlySubmitted'
      BY <2>8 DEF CancelNext, Cancelling
    <2>9. ASSUME NEW j \in Jobs, SweepNext(j) PROVE OnlySubmitted'
      BY <2>9 DEF SweepNext, Transition
    <2> QED
      BY <1>6, <2>1, <2>2, <2>3, <2>4, <2>5, <2>6, <2>7, <2>8, <2>9 DEF Closing
  <1>7. CASE UNCHANGED vars
    BY <1>7 DEF vars
  <1> QED
    BY <1>1, <1>2, <1>3, <1>4, <1>5, <1>6, <1>7 DEF Next
-----------------------------------------------------------------------------
(* Theorems. *)

\* The invariant holds at first.
LEMMA Initially == Init => IInv
  <1> SUFFICES ASSUME Init PROVE IInv
    OBVIOUS
  <1> USE DEF Init
  <1>1. TypeOK
    <2>1. closes \in 0..MaxCloses /\ queue \in Seq(Jobs)
      BY JobAssumption
    <2> QED
      BY <2>1 DEF TypeOK, Terminal, OnWorker
  <1>2. QueueExact /\ RunConsistent /\ AnswerReady
    BY DEF QueueExact, RunConsistent, AnswerReady, IsTerminal, Terminal
  <1>3. ClosePhases /\ EarlyStopped /\ OnlySubmitted /\ LiveTracked
    BY DEF ClosePhases, EarlyStopped, OnlySubmitted, LiveTracked, Submitted
  <1> QED
    BY <1>1, <1>2, <1>3 DEF IInv

\* Every step preserves it.
LEMMA Inductive == IInv /\ [Next]_vars => IInv'
  BY TypeStep, QueueStep, RunStep, AnswerStep, CloseStep, EarlyStep, SubmittedStep, TrackedStep
  DEF IInv

\* So it is an invariant.
LEMMA Invariance == Spec => []IInv
  BY Initially, Inductive, PTL DEF Spec

\* Every variable keeps to its type.
THEOREM TypeCorrect == Spec => []TypeOK
  <1>1. IInv => TypeOK
    BY DEF IInv
  <1> QED
    BY Invariance, <1>1, PTL

\* Whoever is woken by Job._done finds a terminal state and its result or error,
\* whichever of the worker and the closing thread ended the job.
THEOREM AnswersAreReady == Spec => []DoneHasAnswer
  <1>1. IInv => DoneHasAnswer
    BY DEF IInv, AnswerReady, DoneHasAnswer, TypeOK
  <1> QED
    BY Invariance, <1>1, PTL

\* Pruning never loses a job that is still to end.
THEOREM LiveJobsTracked == Spec => []LiveTracked
  <1>1. IInv => LiveTracked
    BY DEF IInv
  <1> QED
    BY Invariance, <1>1, PTL

\* A job cancelled in the queue never does any work.
THEOREM CancelledJobsNeverStart == Spec => []CancelledNeverStarts
  <1>1. IInv => CancelledNeverStarts
    BY DEF IInv, EarlyStopped, CancelledNeverStarts
  <1> QED
    BY Invariance, <1>1, PTL

\* JobManager.close() leaves no job open, and none unfinished if it waits.
THEOREM ClosingSettles == Spec => []CloseSettles
  <1>1. ASSUME IInv PROVE CloseSettles
    <2>1. ASSUME closed, closer = "idle", waits PROVE Submitted = done
      <3>1. Busy = {} /\ half = {} /\ \A j \in Submitted : IsTerminal(j)
        BY <1>1, <2>1 DEF IInv, ClosePhases
      <3>2. \A j \in Jobs : at[j] # "settling"
        BY <3>1 DEF Busy, OnWorker
      <3>3. Submitted \subseteq done
        BY <1>1, <3>1, <3>2 DEF IInv, AnswerReady, Submitted
      <3>4. done \subseteq Submitted
        BY <1>1 DEF IInv, AnswerReady, TypeOK, Submitted, IsTerminal, Terminal
      <3> QED
        BY <3>3, <3>4
    <2> QED
      BY <1>1, <2>1 DEF IInv, ClosePhases, CloseSettles
  <1> QED
    BY Invariance, <1>1, PTL

\* Job._transition: no thread takes a job out of a terminal state.
THEOREM TerminalStatesAreFinal == Spec => TerminalIsFinal
  <1>1. ASSUME IInv, [Next]_vars
        PROVE  [\A j \in Jobs : IsTerminal(j) => state'[j] = state[j]]_state
    <2> SUFFICES ASSUME Next, NEW k \in Jobs, IsTerminal(k) PROVE state'[k] = state[k]
      BY <1>1 DEF vars, jobVars
    <2> state \in [Jobs -> {"new", "pending", "running"} \cup Terminal]
      BY <1>1 DEF IInv, TypeOK
    <2> USE DEF jobVars, unclosing, others, Terminal, IsTerminal
    <2>1. ASSUME NEW j \in Jobs, Submit(j) \/ Cancel(j) \/ ReleaseResult(j)
          PROVE  state'[k] = state[k]
      BY <2>1 DEF Submit, Cancel, ReleaseResult
    <2>2. ASSUME NEW j \in Jobs, Worker(j) PROVE state'[k] = state[k]
      BY <2>2 DEF Worker, Pick, CheckToken, Start, FinishWork, StorePayload, EndRun, SetDone,
                  Transition
    <2>3. CASE BeginClose
      BY <2>3 DEF BeginClose
    <2>4. CASE Closing
      BY <2>4 DEF Closing, SnapshotActive, AllCancelled, DrainNext, Drained, SnapshotStuck,
                  SweepDone, CloseReturns, CancelNext, SweepNext, Transition
    <2> QED
      BY <2>1, <2>2, <2>3, <2>4 DEF Next
  <1> QED
    BY Invariance, <1>1, PTL DEF Spec, TerminalIsFinal

\* Together: what the callers of JobManager rely on holds for any jobs, workers and
\* retention, whenever and however often the manager is closed.
THEOREM JobsAreSound == Spec => []JobsSound
  <1>1. TypeOK /\ DoneHasAnswer /\ LiveTracked /\ CancelledNeverStarts /\ CloseSettles
          => JobsSound
    BY DEF JobsSound
  <1> QED
    BY <1>1, TypeCorrect, AnswersAreReady, LiveJobsTracked, CancelledJobsNeverStart,
       ClosingSettles, PTL

-----------------------------------------------------------------------------
(* Block hierarchies.                                                        *)
(*                                                                           *)
(* A forest is what the greedy choice makes of the candidates and of the     *)
(* user's corrections; the lemmas say what that choice guarantees whatever   *)
(* the detectors propose.  HierarchyInv then follows the corrections through *)
(* memory, the snapshot that is being saved and the sidecar.                 *)

\* Induction over numbers, with a set in the place of a predicate.
LEMMA InductiveSet ==
  ASSUME NEW S, 0 \in S, \A n \in Nat : n \in S => n + 1 \in S
  PROVE  Nat \subseteq S
  <1> SUFFICES ASSUME Nat \ S # {} PROVE FALSE
    OBVIOUS
  <1> DEFINE R == OpToRel(<, Nat)
             T == Nat \ S
  <1> HIDE DEF T
  <1>0. T \subseteq Nat /\ T # {}
    BY DEF T
  <1>1. \E n \in T : \A m \in T : ~(<<m, n>> \in R)
    BY <1>0, NatLessThanWellFounded, WFMin, Zenon
  <1> HIDE DEF R
  <1>2. PICK n \in T : \A m \in T : ~(<<m, n>> \in R)
    BY <1>1
  <1>3. \A m \in T : ~(m < n)
    BY <1>0, <1>2 DEF OpToRel, R
  <1>4. n # 0 /\ n - 1 \in Nat /\ n - 1 \notin T
    BY <1>0, <1>3 DEF T
  <1> QED
    BY <1>0, <1>4 DEF T

-----------------------------------------------------------------------------
(* The greedy choice. *)

Ranks(n) == [1..n -> Int]

\* Ranks are ordered strictly.
LEMMA RanksOrdered ==
  ASSUME NEW n \in Nat, NEW p \in Ranks(n), NEW q \in Ranks(n), NEW r \in Ranks(n)
  PROVE  /\ ~Before(p, p)
         /\ Before(p, q) /\ Before(q, r) => Before(p, r)
  <1>0. DOMAIN p = 1..n /\ DOMAIN q = 1..n /\ \A i \in 1..n : p[i] \in Int /\ q[i] \in Int /\ r[i] \in Int
    BY DEF Ranks
  <1>1. ~Before(p, p)
    BY <1>0 DEF Before
  <1>2. ASSUME Before(p, q), Before(q, r) PROVE Before(p, r)
    <2>1. PICK i \in 1..n : p[i] < q[i] /\ \A j \in 1..(i - 1) : p[j] = q[j]
      BY <1>0, <1>2 DEF Before
    <2>2. PICK k \in 1..n : q[k] < r[k] /\ \A j \in 1..(k - 1) : q[j] = r[j]
      BY <1>0, <1>2 DEF Before
    <2>3. CASE i < k
      <3>1. q[i] = r[i] /\ \A j \in 1..(i - 1) : q[j] = r[j]
        BY <2>2, <2>3
      <3>2. p[i] < r[i] /\ \A j \in 1..(i - 1) : p[j] = r[j]
        BY <2>1, <3>1
      <3> QED
        BY <1>0, <3>2 DEF Before
    <2>4. CASE k < i
      <3>1. p[k] = q[k] /\ \A j \in 1..(k - 1) : p[j] = q[j]
        BY <2>1, <2>4
      <3>2. p[k] < r[k] /\ \A j \in 1..(k - 1) : p[j] = r[j]
        BY <2>2, <3>1
      <3> QED
        BY <1>0, <3>2 DEF Before
    <2>5. CASE i = k
      <3>1. p[i] < r[i]
        BY <1>0, <2>1, <2>2, <2>5
      <3>2. \A j \in 1..(i - 1) : p[j] = r[j]
        BY <2>1, <2>2, <2>5
      <3> QED
        BY <1>0, <3>1, <3>2 DEF Before
    <2> QED
      BY <2>3, <2>4, <2>5
  <1> QED
    BY <1>1, <1>2

\* What is ranked: a finite set of entries whose ranks are equally long.
RankedSet(S, n) == IsFiniteSet(S) /\ \A x \in S : x.rank \in Ranks(n)

LEMMA RankedSubset ==
  ASSUME NEW n \in Nat, NEW S, RankedSet(S, n), NEW T \in SUBSET S
  PROVE  RankedSet(T, n)
  BY FS_Subset DEF RankedSet

\* The worst of some entries is one of them, and none is worse.
LEMMA WorstExists ==
  ASSUME NEW n \in Nat, NEW S, RankedSet(S, n), S # {}
  PROVE  Worst(S) \in S /\ \A y \in S : ~Before(y.rank, Worst(S).rank)
  <1> DEFINE Bad(T) == \E x \in T : \A y \in T : ~Before(y.rank, x.rank)
             I == {k \in Nat : \A T \in SUBSET S : T # {} /\ Cardinality(T) = k => Bad(T)}
  <1>0. IsFiniteSet(S)
    BY DEF RankedSet
  <1>1. 0 \in I
    <2>1. \A T \in SUBSET S : Cardinality(T) = 0 => T = {}
      BY <1>0, FS_Subset, FS_EmptySet
    <2> QED
      BY <2>1
  <1>2. ASSUME NEW k \in Nat, k \in I PROVE k + 1 \in I
    <2> SUFFICES ASSUME NEW T \in SUBSET S, T # {}, Cardinality(T) = k + 1 PROVE Bad(T)
      OBVIOUS
    <2>0. IsFiniteSet(T) /\ \A x \in T : x.rank \in Ranks(n)
      BY <1>0, FS_Subset DEF RankedSet
    <2>1. PICK x \in T : TRUE
      OBVIOUS
    <2>a. Cardinality(T \ {x}) = Cardinality(T) - 1
      BY <2>0, FS_RemoveElement
    <2>2. Cardinality(T \ {x}) = k
      BY <2>a
    <2>3. CASE T \ {x} = {}
      <3>1. \A y \in T : ~Before(y.rank, x.rank)
        BY <2>0, <2>3, RanksOrdered
      <3> QED
        BY <3>1
    <2>4. CASE T \ {x} # {}
      <3>1. PICK w \in T \ {x} : \A y \in T \ {x} : ~Before(y.rank, w.rank)
        BY <1>2, <2>2, <2>4
      <3>2. CASE Before(x.rank, w.rank)
        <4>1. \A y \in T : ~Before(y.rank, x.rank)
          BY <2>0, <3>1, <3>2, RanksOrdered
        <4> QED
          BY <4>1
      <3>3. CASE ~Before(x.rank, w.rank)
        BY <3>1, <3>3
      <3> QED
        BY <3>2, <3>3
    <2> QED
      BY <2>3, <2>4
  <1>3. Cardinality(S) \in I
    <2>1. Nat \subseteq I
      <3> HIDE DEF I
      <3> QED
        BY <1>1, <1>2, InductiveSet
    <2> QED
      BY <1>0, <2>1, FS_CardinalityType
  <1>4. Bad(S)
    BY <1>3
  <1> QED
    BY <1>4 DEF Worst

\* The recursion of Greedy, as a property of a function.
Takes(f, ranked) ==
  f = [left \in SUBSET ranked |->
         IF left = {} THEN {} ELSE Taking(f[left \ {Worst(left)}], Worst(left).group)]

\* There is such a function, and Greedy is its value.
LEMMA GreedyDefined ==
  ASSUME NEW n \in Nat, NEW ranked, RankedSet(ranked, n)
  PROVE  \E f : Takes(f, ranked) /\ Greedy(ranked) = f[ranked]
  <1> DEFINE Small(k) == {T \in SUBSET ranked : Cardinality(T) <= k}
             Value(f, T) == IF T = {} THEN {} ELSE Taking(f[T \ {Worst(T)}], Worst(T).group)
             Upto(f, k) == /\ f = [T \in Small(k) |-> f[T]]
                           /\ \A T \in Small(k) : f[T] = Value(f, T)
             I == {k \in Nat : \E f : Upto(f, k)}
  <1>0. IsFiniteSet(ranked) /\ \A T \in SUBSET ranked : IsFiniteSet(T) /\ Cardinality(T) \in Nat
    BY FS_Subset, FS_CardinalityType DEF RankedSet
  <1>a. \A T \in SUBSET ranked : T # {} => Worst(T) \in T
    BY RankedSubset, WorstExists
  <1>b. ASSUME NEW k \in Nat, NEW T \in Small(k + 1), T # {}
        PROVE  T \ {Worst(T)} \in Small(k)
    <2>1. Worst(T) \in T /\ IsFiniteSet(T)
      BY <1>0, <1>a, <1>b
    <2>2. Cardinality(T \ {Worst(T)}) = Cardinality(T) - 1 /\ Cardinality(T) \in Nat
      BY <1>0, <2>1, FS_RemoveElement
    <2> QED
      BY <2>2
  <1>1. 0 \in I
    <2> DEFINE z == [T \in Small(0) |-> {}]
    <2>1. \A T \in Small(0) : T = {}
      BY <1>0, FS_EmptySet
    <2>2. Upto(z, 0)
      BY <2>1
    <2> QED
      BY <2>2
  <1>2. ASSUME NEW k \in Nat, k \in I PROVE k + 1 \in I
    <2>1. PICK f : Upto(f, k)
      BY <1>2
    <2> DEFINE g == [T \in Small(k + 1) |-> IF T \in Small(k) THEN f[T] ELSE Value(f, T)]
    <2>2. Small(k) \subseteq Small(k + 1)
      BY <1>0
    <2>3. \A T \in Small(k) : g[T] = f[T]
      BY <2>2
    <2>4. \A T \in Small(k + 1) : g[T] = Value(f, T)
      BY <2>1
    <2>5. g = [T \in Small(k + 1) |-> g[T]]
      OBVIOUS
    <2> HIDE DEF g, Small
    <2>6. \A T \in Small(k + 1) : Value(g, T) = Value(f, T)
      BY <1>b, <2>3
    <2>7. Upto(g, k + 1)
      BY <2>4, <2>5, <2>6
    <2> HIDE DEF Upto
    <2> QED
      BY <2>7
  <1>3. Cardinality(ranked) \in I
    <2>1. Nat \subseteq I
      <3> HIDE DEF I
      <3> QED
        BY <1>1, <1>2, InductiveSet
    <2> QED
      BY <1>0, <2>1
  <1>4. PICK f : Upto(f, Cardinality(ranked))
    BY <1>3
  <1>5. Small(Cardinality(ranked)) = SUBSET ranked
    BY <1>0, FS_Subset
  <1>6. Takes(f, ranked)
    <2> HIDE DEF Small
    <2> QED
      BY <1>4, <1>5 DEF Takes
  <1> DEFINE taken == CHOOSE h : Takes(h, ranked)
  <1>7. Takes(taken, ranked)
    BY <1>6
  <1>8. Greedy(ranked) = taken[ranked]
    BY DEF Greedy, Takes
  <1> QED
    BY <1>7, <1>8

LEMMA PartialSymmetric == \A A, B : (Partial(A, B) <=> Partial(B, A)) /\ ~Partial(A, A)
  BY DEF Partial

\* What is chosen: groups of the entries, none of which overlaps another in part; one that
\* was left out overlaps one that is not worse.
Chosen(T, kept) ==
  /\ \A g \in kept : \E x \in T : g = x.group
  /\ \A g, h \in kept : ~Partial(g.members, h.members)
  /\ \A x \in T : \/ x.group \in kept
                  \/ \E y \in T : /\ y.group \in kept /\ ~Before(y.rank, x.rank)
                                  /\ Partial(x.group.members, y.group.members)

LEMMA TakingChosen ==
  ASSUME NEW T, NEW w \in T, \A y \in T : ~Before(y.rank, w.rank),
         NEW kept, Chosen(T \ {w}, kept)
  PROVE  Chosen(T, Taking(kept, w.group))
  <1>1. CASE \E o \in kept : Partial(w.group.members, o.members)
    <2>1. Taking(kept, w.group) = kept
      BY <1>1 DEF Taking
    <2>2. PICK o \in kept : Partial(w.group.members, o.members)
      BY <1>1
    <2>3. PICK y \in T \ {w} : o = y.group
      BY <2>2 DEF Chosen
    <2>4. y.group \in kept /\ ~Before(y.rank, w.rank) /\ Partial(w.group.members, y.group.members)
      BY <2>2, <2>3
    <2> QED
      BY <2>1, <2>4 DEF Chosen
  <1>2. CASE ~\E o \in kept : Partial(w.group.members, o.members)
    <2>1. Taking(kept, w.group) = kept \cup {w.group}
      BY <1>2 DEF Taking
    <2>2. \A g, h \in kept \cup {w.group} : ~Partial(g.members, h.members)
      BY <1>2, PartialSymmetric DEF Chosen
    <2> QED
      BY <2>1, <2>2 DEF Chosen
  <1> QED
    BY <1>1, <1>2

LEMMA GreedySound ==
  ASSUME NEW n \in Nat, NEW ranked, RankedSet(ranked, n)
  PROVE  Chosen(ranked, Greedy(ranked))
  <1>1. PICK f : Takes(f, ranked) /\ Greedy(ranked) = f[ranked]
    BY GreedyDefined
  <1>0. IsFiniteSet(ranked) /\ Cardinality(ranked) \in Nat
    BY FS_CardinalityType DEF RankedSet
  <1> DEFINE I == {k \in Nat : \A T \in SUBSET ranked : Cardinality(T) = k => Chosen(T, f[T])}
  <1>2. 0 \in I
    <2>1. ASSUME NEW T \in SUBSET ranked, Cardinality(T) = 0 PROVE Chosen(T, f[T])
      <3>1. T = {}
        BY <1>0, <2>1, FS_Subset, FS_EmptySet
      <3>2. f[T] = {}
        BY <1>1, <3>1 DEF Takes
      <3> QED
        BY <3>1, <3>2 DEF Chosen
    <2> QED
      BY <2>1
  <1>3. ASSUME NEW k \in Nat, k \in I PROVE k + 1 \in I
    <2> SUFFICES ASSUME NEW T \in SUBSET ranked, Cardinality(T) = k + 1 PROVE Chosen(T, f[T])
      OBVIOUS
    <2>1. IsFiniteSet(T) /\ T # {}
      BY <1>0, FS_Subset, FS_EmptySet
    <2>2. Worst(T) \in T /\ \A y \in T : ~Before(y.rank, Worst(T).rank)
      BY <2>1, RankedSubset, WorstExists
    <2>a. Cardinality(T \ {Worst(T)}) = Cardinality(T) - 1
      BY <2>1, <2>2, FS_RemoveElement
    <2>3. Cardinality(T \ {Worst(T)}) = k
      BY <2>a
    <2>4. Chosen(T \ {Worst(T)}, f[T \ {Worst(T)}])
      BY <1>3, <2>3
    <2>5. f[T] = Taking(f[T \ {Worst(T)}], Worst(T).group)
      BY <1>1, <2>1 DEF Takes
    <2> QED
      BY <2>2, <2>4, <2>5, TakingChosen
  <1>4. Nat \subseteq I
    <2> HIDE DEF I
    <2> QED
      BY <1>2, <1>3, InductiveSet
  <1> QED
    BY <1>0, <1>1, <1>4

-----------------------------------------------------------------------------
(* Candidates, corrections and the groups they make. *)

\* What the detectors return for one document.
Proposals(P) ==
  /\ IsFiniteSet(P)
  /\ \A c \in P : /\ c.id \in Nat /\ c.graph \in Graphs /\ c.conf \in Nat
                  /\ c.name \in Nat /\ KindPriority[c.kind] \in Nat
                  /\ c.members \subseteq Nodes /\ c.members # {}
  /\ \A c, d \in P : c.id = d.id => c = d

LEMMA DetectorsPropose ==
  ASSUME NEW a \in Artifacts, NEW gone \in SUBSET Removable
  PROVE  Proposals(Detections[a][Nodes \ gone])
  BY DetectionsAssumption DEF Proposals

LEMMA FiniteMembers ==
  \A M : M \subseteq Nodes => IsFiniteSet(M) /\ Cardinality(M) \in Nat
  BY HierarchyAssumption, FS_Subset, FS_CardinalityType

LEMMA CandidatesRanked ==
  ASSUME NEW P, Proposals(P), NEW c \in P
  PROVE  CandidateRank(c) \in Ranks(4)
  <1>1. c.conf \in Int /\ KindPriority[c.kind] \in Int /\ Cardinality(c.members) \in Int /\ c.id \in Int
    BY FiniteMembers DEF Proposals
  <1> QED
    BY <1>1 DEF CandidateRank, Ranks

\* Of candidates with the same members one is kept.
LEMMA PooledApart ==
  ASSUME NEW P, Proposals(P), NEW valid \in SUBSET P, NEW c \in Pooled(valid), NEW d \in Pooled(valid),
         c.members = d.members, c.graph = d.graph
  PROVE  c = d
  <1>1. c \in P /\ d \in P
    BY DEF Pooled
  <1>2. ~Before(CandidateRank(c), CandidateRank(d)) /\ ~Before(CandidateRank(d), CandidateRank(c))
    BY DEF Pooled
  <1> DEFINE p == CandidateRank(c)
             q == CandidateRank(d)
  <1>3. /\ p \in Ranks(4) /\ q \in Ranks(4) /\ p[4] = c.id /\ q[4] = d.id
    <2>1. p[4] = c.id /\ q[4] = d.id
      BY DEF CandidateRank
    <2> QED
      BY <1>1, <2>1, CandidatesRanked
  <1>4. ~Before(p, q) /\ ~Before(q, p)
    BY <1>2
  <1> HIDE DEF p, q
  <1>5. /\ DOMAIN p = 1..4 /\ DOMAIN q = 1..4
        /\ \A i \in 1..4 : p[i] \in Int /\ q[i] \in Int
    BY <1>3 DEF Ranks
  <1>6. p[1] = q[1]
    BY <1>4, <1>5 DEF Before
  <1>7. p[2] = q[2]
    <2>1. \A j \in 1..(2 - 1) : p[j] = q[j]
      BY <1>6
    <2> QED
      BY <1>4, <1>5, <2>1 DEF Before
  <1>8. p[3] = q[3]
    <2>1. \A j \in 1..(3 - 1) : p[j] = q[j]
      BY <1>6, <1>7
    <2> QED
      BY <1>4, <1>5, <2>1 DEF Before
  <1>9. p[4] = q[4]
    <2>1. \A j \in 1..(4 - 1) : p[j] = q[j]
      BY <1>6, <1>7, <1>8
    <2> QED
      BY <1>4, <1>5, <2>1 DEF Before
  <1> QED
    BY <1>1, <1>3, <1>9 DEF Proposals

\* The image of a finite set.
LEMMA ImageFinite ==
  ASSUME NEW S, IsFiniteSet(S), NEW f
  PROVE  IsFiniteSet({f[x] : x \in S})
  <1> DEFINE g == [x \in S |-> f[x]]
             T == {f[x] : x \in S}
  <1>1. g \in Surjection(S, T)
    BY DEF Surjection
  <1> QED
    BY <1>1, FS_Surjection

LEMMA ReconciledSound ==
  ASSUME NEW P, Proposals(P), NEW valid \in SUBSET P
  PROVE  Reconciled(valid) \subseteq Pooled(valid)
  <1> DEFINE f == [c \in Pooled(valid) |-> [rank |-> CandidateRank(c), group |-> c]]
             ranked == {[rank |-> CandidateRank(c), group |-> c] : c \in Pooled(valid)}
  <1>1. Pooled(valid) \subseteq P /\ IsFiniteSet(Pooled(valid))
    BY FS_Subset DEF Pooled, Proposals
  <1>2. ranked = {f[c] : c \in Pooled(valid)}
    OBVIOUS
  <1>3. IsFiniteSet(ranked)
    <2> HIDE DEF f, ranked
    <2> QED
      BY <1>1, <1>2, ImageFinite
  <1>4. \A x \in ranked : x.rank \in Ranks(4) /\ x.group \in Pooled(valid)
    BY <1>1, CandidatesRanked
  <1>5. Reconciled(valid) = Greedy(ranked)
    BY DEF Reconciled
  <1> HIDE DEF ranked
  <1>6. Chosen(ranked, Greedy(ranked))
    BY <1>3, <1>4, GreedySound DEF RankedSet
  <1> QED
    BY <1>4, <1>5, <1>6 DEF Chosen

\* A group of the user as it was drawn: named after its graph and its label.
ManualSound(m) ==
  /\ m = [id |-> m.id, graph |-> m.graph, label |-> m.label, members |-> m.members,
          locked |-> m.locked]
  /\ m.graph \in Graphs /\ m.label \in Nat \X Nat
  /\ m.members \subseteq Nodes /\ Cardinality(m.members) >= 2
  /\ m.id = UserId(m.graph, m.label)

ManualsSound(M) ==
  /\ IsFiniteSet(M)
  /\ \A m \in M : ManualSound(m)
  /\ \A m, n \in M : m.id = n.id => m = n

ModeSound(mode) == \E j \in DOMAIN Modes : mode = Modes[j]

\* Corrections: in memory, in the sidecar or on their way to it.
OverridesSound(o) ==
  /\ o = [manual |-> o.manual, rejected |-> o.rejected, renames |-> o.renames,
          locked |-> o.locked, mode |-> o.mode]
  /\ ManualsSound(o.manual)
  /\ \A r \in o.renames : r.label \in Nat \X Nat
  /\ ModeSound(o.mode)

\* A group of a forest.
GroupSound(g) ==
  /\ g.graph \in Graphs /\ g.label \in Nat \X Nat /\ g.conf \in Nat
  /\ g.members \subseteq Nodes /\ g.members # {}
  /\ \/ g.automatic /\ \E i \in Nat : g.id = <<"auto", i>>
     \/ ~g.automatic /\ g.id = UserId(g.graph, g.label) /\ Cardinality(g.members) >= 2

LEMMA AutomaticSound ==
  ASSUME NEW P, Proposals(P), NEW o, OverridesSound(o), NEW c \in P
  PROVE  /\ GroupSound(AsGroup(c, o)) /\ AsGroup(c, o).automatic
         /\ AsGroup(c, o).id = AutoId(c) /\ AsGroup(c, o).graph = c.graph
         /\ AsGroup(c, o).members = c.members
  <1> DEFINE g == AsGroup(c, o)
  <1>1. /\ g.graph = c.graph /\ g.members = c.members /\ g.conf = c.conf
        /\ g.automatic = TRUE /\ g.id = AutoId(c)
        /\ g.label = IF \E r \in o.renames : r.id = AutoId(c)
                     THEN (CHOOSE r \in o.renames : r.id = AutoId(c)).label
                     ELSE Label(c.name)
    BY DEF AsGroup
  <1> HIDE DEF g
  <1>2. g.label \in Nat \X Nat
    <2>1. CASE \E r \in o.renames : r.id = AutoId(c)
      BY <1>1, <2>1 DEF OverridesSound
    <2>2. CASE ~\E r \in o.renames : r.id = AutoId(c)
      BY <1>1, <2>2 DEF Label, Proposals
    <2> QED
      BY <2>1, <2>2
  <1>3. g.id = <<"auto", c.id>> /\ c.id \in Nat
    BY <1>1 DEF AutoId, Proposals
  <1>4. GroupSound(g)
    BY <1>1, <1>2, <1>3 DEF GroupSound, Proposals
  <1> QED
    BY <1>1, <1>4 DEF g

LEMMA ManualGroupSound ==
  ASSUME NEW m, ManualSound(m)
  PROVE  /\ GroupSound(ManualAsGroup(m)) /\ ~ManualAsGroup(m).automatic
         /\ ManualAsGroup(m).id = m.id /\ ManualAsGroup(m).graph = m.graph
         /\ ManualAsGroup(m).members = m.members
  <1> DEFINE g == ManualAsGroup(m)
  <1>1. /\ g.graph = m.graph /\ g.members = m.members /\ g.conf = 100 /\ g.label = m.label
        /\ g.automatic = FALSE /\ g.id = m.id
    BY DEF ManualAsGroup
  <1> HIDE DEF g
  <1>2. g.members # {}
    BY <1>1, FS_EmptySet DEF ManualSound
  <1>3. GroupSound(g)
    BY <1>1, <1>2 DEF GroupSound, ManualSound
  <1> QED
    BY <1>1, <1>3 DEF g

LEMMA GroupsRanked ==
  ASSUME NEW g, GroupSound(g)
  PROVE  GroupRank(g) \in Ranks(5)
  <1>1. IdOrder(g.id) \in Int
    <2>1. CASE \E i \in Nat : g.id = <<"auto", i>>
      BY <2>1 DEF IdOrder
    <2>2. CASE g.id = UserId(g.graph, g.label)
      <3>1. g.id[3] = g.label /\ g.label[1] \in Nat /\ g.label[2] \in Nat /\ g.id[1] = "user"
        BY <2>2 DEF GroupSound, UserId
      <3> QED
        BY <3>1 DEF IdOrder
    <2> QED
      BY <2>1, <2>2 DEF GroupSound
  <1>2. Flag(~g.automatic) \in Int /\ Flag(g.locked) \in Int
    BY DEF Flag
  <1>3. g.conf \in Int /\ Cardinality(g.members) \in Int
    BY FiniteMembers DEF GroupSound
  <1> HIDE DEF GroupSound
  <1> QED
    BY <1>1, <1>2, <1>3 DEF GroupRank, Ranks

\* Where the groups of a forest come from.
Origin(P, o, g) ==
  \/ \E c \in P : g = AsGroup(c, o)
  \/ \E m \in o.manual : g = ManualAsGroup(m)

\* Groups with the same members that a detector proposed are one.
Twins(v) ==
  \A g, h \in v : g.automatic /\ h.automatic /\ g.graph = h.graph /\ g.members = h.members => g = h

LEMMA ValidProposed ==
  ASSUME NEW P, NEW graph, NEW mode
  PROVE  Valid(P, graph, mode) \in SUBSET P
  BY DEF Valid

LEMMA KeptOrigin ==
  ASSUME NEW P, Proposals(P), NEW o, NEW graph, NEW g \in Kept(P, graph, o)
  PROVE  /\ Origin(P, o, g)
         /\ (\E c \in Pooled(Valid(P, graph, o.mode)) : g = AsGroup(c, o))
              \/ \E m \in o.manual : m.graph = graph /\ g = ManualAsGroup(m)
  <1> DEFINE valid == Valid(P, graph, o.mode)
  <1>1. valid \in SUBSET P
    BY ValidProposed
  <1>2. Reconciled(valid) \subseteq Pooled(valid) /\ Pooled(valid) \subseteq P
    BY <1>1, ReconciledSound DEF Pooled
  <1>3. UNION {Reconciled(w) : w \in {valid}} = Reconciled(valid)
    OBVIOUS
  <1> HIDE DEF valid
  <1>4. \/ \E c \in Reconciled(valid) : g = AsGroup(c, o)
        \/ \E m \in o.manual : m.graph = graph /\ g = ManualAsGroup(m)
    BY <1>3 DEF Kept, valid
  <1> QED
    BY <1>2, <1>4 DEF Origin, valid

LEMMA OriginSound ==
  ASSUME NEW P, Proposals(P), NEW o, OverridesSound(o), NEW g, Origin(P, o, g)
  PROVE  GroupSound(g)
  BY AutomaticSound, ManualGroupSound DEF Origin, OverridesSound, ManualsSound

\* Groups that have an origin have ids of their own.
LEMMA OriginsApart ==
  ASSUME NEW P, Proposals(P), NEW o, OverridesSound(o),
         NEW g, Origin(P, o, g), NEW h, Origin(P, o, h), g.id = h.id
  PROVE  g = h
  <1>0. \A m \in o.manual : ManualSound(m)
    BY DEF OverridesSound, ManualsSound
  <1>1. ASSUME NEW c \in P, NEW d \in P, g = AsGroup(c, o), h = AsGroup(d, o) PROVE g = h
    <2>1. AutoId(c) = AutoId(d)
      BY <1>1, AutomaticSound
    <2>2. c.id = d.id
      BY <2>1 DEF AutoId
    <2>3. c = d
      BY <2>2 DEF Proposals
    <2> QED
      BY <1>1, <2>3
  <1>2. ASSUME NEW m \in o.manual, NEW n \in o.manual, g = ManualAsGroup(m), h = ManualAsGroup(n)
        PROVE  g = h
    <2>1. m.id = n.id
      BY <1>0, <1>2, ManualGroupSound
    <2>2. m = n
      BY <2>1 DEF OverridesSound, ManualsSound
    <2> QED
      BY <1>2, <2>2
  <1>3. \A c \in P, m \in o.manual : AutoId(c) # m.id
    BY <1>0 DEF AutoId, UserId, ManualSound
  <1>4. \A c \in P, m \in o.manual : AsGroup(c, o).id # ManualAsGroup(m).id
    BY <1>0, <1>3, AutomaticSound, ManualGroupSound
  <1> QED
    BY <1>1, <1>2, <1>4 DEF Origin

LEMMA KeptFinite ==
  ASSUME NEW P, Proposals(P), NEW o, OverridesSound(o), NEW graph
  PROVE  IsFiniteSet(Kept(P, graph, o))
  <1> DEFINE C == {d \in UNION {Reconciled(valid) : valid \in {Valid(P, graph, o.mode)}} :
                     AutoId(d) \notin o.rejected}
             M == {n \in o.manual : n.graph = graph}
             a == [c \in C |-> AsGroup(c, o)]
             b == [m \in M |-> ManualAsGroup(m)]
  <1>1. C \subseteq P
    <2>1. Valid(P, graph, o.mode) \in SUBSET P
      BY ValidProposed
    <2>2. Reconciled(Valid(P, graph, o.mode)) \subseteq P
      BY <2>1, ReconciledSound DEF Pooled
    <2> QED
      BY <2>2
  <1>2. IsFiniteSet(C) /\ IsFiniteSet(M)
    <2>1. M \subseteq o.manual
      OBVIOUS
    <2> HIDE DEF C, M
    <2> QED
      BY <1>1, <2>1, FS_Subset DEF Proposals, OverridesSound, ManualsSound
  <1>3. Kept(P, graph, o) = {AsGroup(c, o) : c \in C} \cup {ManualAsGroup(m) : m \in M}
    BY DEF Kept
  <1> HIDE DEF C, M
  <1>4. {AsGroup(c, o) : c \in C} = {a[c] : c \in C} /\ {ManualAsGroup(m) : m \in M} = {b[m] : m \in M}
    OBVIOUS
  <1> HIDE DEF a, b
  <1>5. IsFiniteSet({a[c] : c \in C}) /\ IsFiniteSet({b[m] : m \in M})
    BY <1>2, ImageFinite
  <1> DEFINE A == {AsGroup(c, o) : c \in C}
             B == {ManualAsGroup(m) : m \in M}
  <1>6. IsFiniteSet(A) /\ IsFiniteSet(B) /\ Kept(P, graph, o) = A \cup B
    BY <1>3, <1>4, <1>5
  <1> HIDE DEF A, B
  <1> QED
    BY <1>6, FS_Union

\* What a forest is chosen from: groups with their ranks.
Contenders(kept) == {[rank |-> GroupRank(g), group |-> g] : g \in kept}

LEMMA NestChosen ==
  ASSUME NEW kept, IsFiniteSet(kept), \A g \in kept : GroupSound(g)
  PROVE  Chosen(Contenders(kept), Nest(kept))
  <1> DEFINE f == [g \in kept |-> [rank |-> GroupRank(g), group |-> g]]
  <1>1. Contenders(kept) = {f[g] : g \in kept}
    BY DEF Contenders
  <1>2. \A x \in Contenders(kept) : x.rank \in Ranks(5)
    BY GroupsRanked DEF Contenders
  <1> HIDE DEF f
  <1>3. IsFiniteSet(Contenders(kept))
    BY <1>1, ImageFinite
  <1>4. Nest(kept) = Greedy(Contenders(kept))
    BY DEF Nest, Contenders
  <1> QED
    BY <1>2, <1>3, <1>4, GreedySound DEF RankedSet

LEMMA NestWithin ==
  ASSUME NEW kept, IsFiniteSet(kept), \A g \in kept : GroupSound(g)
  PROVE  Nest(kept) \subseteq kept
  BY NestChosen DEF Chosen, Contenders

ViewSound(v) ==
  /\ \A g \in v : GroupSound(g)
  /\ Laminar(v)
  /\ \A g, h \in v : g.id = h.id => g = h
  /\ Twins(v)

LEMMA ForestMembers ==
  ASSUME NEW P, NEW o, NEW g
  PROVE  g \in Recomputed(P, o) <=> \E graph \in Graphs : g \in Nest(Kept(P, graph, o))
  <1>1. UNION {Nest(kept) : kept \in {Kept(P, graph, o) : graph \in Graphs}}
          = UNION {Nest(Kept(P, graph, o)) : graph \in Graphs}
    OBVIOUS
  <1> QED
    BY <1>1 DEF Recomputed

LEMMA KeptSound ==
  ASSUME NEW P, Proposals(P), NEW o, OverridesSound(o), NEW graph
  PROVE  /\ IsFiniteSet(Kept(P, graph, o))
         /\ \A g \in Kept(P, graph, o) : GroupSound(g) /\ g.graph = graph /\ Origin(P, o, g)
  <1>1. IsFiniteSet(Kept(P, graph, o))
    BY KeptFinite
  <1>2. ASSUME NEW g \in Kept(P, graph, o) PROVE GroupSound(g) /\ g.graph = graph /\ Origin(P, o, g)
    <2>1. Origin(P, o, g) /\ GroupSound(g)
      BY KeptOrigin, OriginSound
    <2>2. CASE \E c \in Pooled(Valid(P, graph, o.mode)) : g = AsGroup(c, o)
      <3>1. PICK c \in Pooled(Valid(P, graph, o.mode)) : g = AsGroup(c, o)
        BY <2>2
      <3>2. c \in P /\ c.graph = graph
        BY DEF Pooled, Valid
      <3> QED
        BY <2>1, <3>1, <3>2, AutomaticSound
    <2>3. CASE \E m \in o.manual : m.graph = graph /\ g = ManualAsGroup(m)
      BY <2>1, <2>3, ManualGroupSound DEF OverridesSound, ManualsSound
    <2> QED
      BY <2>2, <2>3, KeptOrigin
  <1> QED
    BY <1>1, <1>2

LEMMA KeptTwins ==
  ASSUME NEW P, Proposals(P), NEW o, OverridesSound(o), NEW graph
  PROVE  Twins(Kept(P, graph, o))
  <1> SUFFICES ASSUME NEW g \in Kept(P, graph, o), NEW h \in Kept(P, graph, o),
                      g.automatic, h.automatic, g.graph = h.graph, g.members = h.members
               PROVE  g = h
    BY DEF Twins
  <1>0. \A m \in o.manual : ~ManualAsGroup(m).automatic
    BY ManualGroupSound DEF OverridesSound, ManualsSound
  <1>1. PICK c \in Pooled(Valid(P, graph, o.mode)) : g = AsGroup(c, o)
    BY <1>0, KeptOrigin
  <1>2. PICK d \in Pooled(Valid(P, graph, o.mode)) : h = AsGroup(d, o)
    BY <1>0, KeptOrigin
  <1>3. c \in P /\ d \in P
    BY ValidProposed DEF Pooled
  <1>4. c.members = d.members /\ c.graph = d.graph
    BY <1>1, <1>2, <1>3, AutomaticSound
  <1>5. c = d
    BY <1>4, ValidProposed, PooledApart
  <1> QED
    BY <1>1, <1>2, <1>5

\* Every forest a controller derives is sound.
LEMMA RecomputedSound ==
  ASSUME NEW P, Proposals(P), NEW o, OverridesSound(o)
  PROVE  ViewSound(Recomputed(P, o))
  <1> DEFINE v == Recomputed(P, o)
  <1>1. ASSUME NEW g \in v
        PROVE  /\ g.graph \in Graphs /\ g \in Nest(Kept(P, g.graph, o)) /\ g \in Kept(P, g.graph, o)
               /\ GroupSound(g) /\ Origin(P, o, g)
    <2>1. PICK graph \in Graphs : g \in Nest(Kept(P, graph, o))
      BY ForestMembers
    <2>2. g \in Kept(P, graph, o)
      BY <2>1, KeptSound, NestWithin
    <2> QED
      BY <2>1, <2>2, KeptSound
  <1>2. ASSUME NEW g \in v, NEW h \in v, g.graph = h.graph
        PROVE  ~Partial(g.members, h.members) /\ g \in Kept(P, g.graph, o) /\ h \in Kept(P, g.graph, o)
    <2>1. g \in Nest(Kept(P, g.graph, o)) /\ h \in Nest(Kept(P, g.graph, o))
      BY <1>1, <1>2
    <2> QED
      BY <1>1, <1>2, <2>1, KeptSound, NestChosen DEF Chosen
  <1> HIDE DEF v
  <1>3. Laminar(v)
    BY <1>2 DEF Laminar
  <1>4. \A g, h \in v : g.id = h.id => g = h
    BY <1>1, OriginsApart
  <1>5. Twins(v)
    BY <1>2, KeptTwins DEF Twins
  <1> QED
    BY <1>1, <1>3, <1>4, <1>5 DEF ViewSound, v

\* In it, a group of the user is missing only if another group of the user overlaps it.
LEMMA UserDecides ==
  ASSUME NEW P, Proposals(P), NEW o, OverridesSound(o), NEW m \in o.manual
  PROVE  Has(Recomputed(P, o), m.id) \/ \E n \in o.manual : Partial(m.members, n.members)
  <1> DEFINE kept == Kept(P, m.graph, o)
             g == ManualAsGroup(m)
             x == [rank |-> GroupRank(g), group |-> g]
  <1>0. ManualSound(m) /\ \A n \in o.manual : ManualSound(n)
    BY DEF OverridesSound, ManualsSound
  <1>1. /\ ~g.automatic /\ g.id = m.id /\ g.members = m.members /\ m.graph \in Graphs
    BY <1>0, ManualGroupSound DEF ManualSound
  <1>2. g \in kept
    BY DEF Kept
  <1>3. Chosen(Contenders(kept), Nest(kept)) /\ Nest(kept) \subseteq kept
    BY KeptSound, NestChosen, NestWithin
  <1>4. x \in Contenders(kept) /\ x.group = g /\ x.rank = GroupRank(g)
    BY <1>2 DEF Contenders
  <1> HIDE DEF x
  <1>5. CASE g \in Nest(kept)
    <2>1. g \in Recomputed(P, o)
      BY <1>1, <1>5, ForestMembers
    <2> QED
      BY <1>1, <2>1 DEF Has
  <1>6. CASE g \notin Nest(kept)
    <2>1. PICK y \in Contenders(kept) : /\ y.group \in Nest(kept) /\ ~Before(y.rank, x.rank)
                                      /\ Partial(g.members, y.group.members)
      BY <1>3, <1>4, <1>6 DEF Chosen
    <2>2. y.rank = GroupRank(y.group) /\ y.group \in kept
      BY <2>1 DEF Contenders
    <2>3. ~y.group.automatic
      <3> SUFFICES ASSUME y.group.automatic PROVE FALSE
        OBVIOUS
      <3>1. y.rank[1] = 0 /\ x.rank[1] = 1 /\ DOMAIN y.rank = 1..5
        BY <1>1, <1>4, <2>2 DEF GroupRank, Flag
      <3>2. y.rank[1] < x.rank[1] /\ \A j \in 1..(1 - 1) : y.rank[j] = x.rank[j]
        BY <3>1
      <3>3. Before(y.rank, x.rank)
        BY <3>1, <3>2 DEF Before
      <3> QED
        BY <2>1, <3>3
    <2>4. \A c \in P : AsGroup(c, o).automatic
      BY AutomaticSound
    <2>5. PICK n \in o.manual : y.group = ManualAsGroup(n)
      BY <2>2, <2>3, <2>4, KeptOrigin DEF Origin
    <2>6. y.group.members = n.members
      BY <1>0, <2>5, ManualGroupSound
    <2> QED
      BY <1>1, <2>1, <2>6
  <1> QED
    BY <1>5, <1>6

-----------------------------------------------------------------------------
(* The inductive invariant. *)

\* Every session works on a document of the artifact, and has what the detectors say of it.
DocumentsSound ==
  /\ artifact \in Artifacts
  /\ present = [s \in Sessions |-> present[s]] /\ candidates = [s \in Sessions |-> candidates[s]]
  /\ \A s \in Sessions : /\ \E gone \in SUBSET Removable : present[s] = Nodes \ gone
                         /\ candidates[s] = Detections[artifact][present[s]]

ForestsSound ==
  /\ view = [s \in Sessions |-> view[s]]
  /\ \A s \in Sessions : ViewSound(view[s])

\* In memory, in the sidecar, and on the way from one to the other.
CorrectionsSound ==
  /\ OverridesSound(overrides)
  /\ OverridesSound(file)
  /\ \A x \in saver : OverridesSound(x.overrides)

\* A handler saves the correction it has made, or takes back a mode there is.
WindowSound(w) ==
  /\ w = [at |-> w.at, root |-> w.root, then |-> w.then, back |-> w.back]
  /\ w.at \in {"idle", "saving", "reverting"}
  /\ w.back = NoMode \/ ModeSound(w.back)
  /\ w.at = "reverting" => w.back # NoMode

WindowsSound ==
  /\ window = [s \in Sessions |-> window[s]]
  /\ \A s \in Sessions : WindowSound(window[s])

CountsSound ==
  /\ count = [made |-> count.made, resets |-> count.resets]
  /\ count.made \in Nat /\ count.resets \in Nat

\* One snapshot at most is being written.
SaverSound ==
  /\ \A x, y \in saver : x = y
  /\ \A x \in saver : x.by \in Sessions /\ window[x.by].at = "saving"

\* Memory has the corrections on their way to a report, and those reported unless the
\* program has started without them.  So has the snapshot; and what was reported and is
\* in it is in memory still, whether memory has the rest or not.
ReportsSound ==
  /\ change = [s \in Sessions |-> change[s]]
  /\ \A s \in Sessions : Agrees(change[s], overrides)
  /\ ~unread => Agrees(reported, overrides)
  /\ Agrees(reported, file)
  /\ \A x \in saver : /\ Agrees(change[x.by], x.overrides)
                      /\ ~unread => Agrees(reported, x.overrides)
                      /\ Agrees(Surviving(reported, x.overrides), overrides)

HierarchyInv ==
  /\ DocumentsSound
  /\ ForestsSound
  /\ CorrectionsSound
  /\ WindowsSound
  /\ CountsSound
  /\ SaverSound
  /\ ReportsSound

\* No change agrees with anything, what survives in some overrides agrees with them, and
\* two changes agree where both do.
LEMMA ChangesAgree ==
  /\ \A o : Agrees(NoChange, o)
  /\ \A d, o : Agrees(Surviving(d, o), o)
  /\ \A d, e, o : Agrees(d, o) /\ Agrees(e, o) => Agrees(And(d, e), o)
  BY DEF Agrees, NoChange, Surviving, And

\* What is left of a change after a correction agrees with the corrected overrides, if the
\* change agreed with them before, and with whatever else it agreed with.
LEMMA WithoutAgrees ==
  /\ \A o, n : Agrees(Difference(o, n), n)
  /\ \A d, o, n : Agrees(d, o) => Agrees(Without(d, Difference(o, n)), n)
  /\ \A d, e, p : Agrees(d, p) => Agrees(Without(d, e), p)
  /\ \A d, e, p : Surviving(Without(d, e), p) = Without(Surviving(d, p), e)
  <1>1. \A o, n : Agrees(Difference(o, n), n)
    BY DEF Agrees, Difference
  <1>2. \A d, o, n : Agrees(d, o) => Agrees(Without(d, Difference(o, n)), n)
    BY DEF Agrees, Difference, Without
  <1>3. \A d, e, p : Agrees(d, p) => Agrees(Without(d, e), p)
    BY DEF Agrees, Without
  <1>4. ASSUME NEW d, NEW e, NEW p
        PROVE  Surviving(Without(d, e), p) = Without(Surviving(d, p), e)
    <2>1. (d.kept \ e.gone) \cap Said(p) = (d.kept \cap Said(p)) \ e.gone
          /\ (d.gone \ e.kept) \ Said(p) = (d.gone \ Said(p)) \ e.kept
      OBVIOUS
    <2> QED
      BY <2>1 DEF Surviving, Without
  <1> QED
    BY <1>1, <1>2, <1>3, <1>4

\* A correction of a session that is not saving: what it contradicts is taken back.
LEMMA RecordedSound ==
  ASSUME HierarchyInv, NEW s \in Sessions, window[s].at # "saving", NEW o, overrides' = o,
         NEW returns, Recorded(s, o, returns), UNCHANGED <<saver, file>>
  PROVE  ReportsSound'
  <1> DEFINE d == Difference(overrides, o)
  <1>1. /\ change' = [t \in Sessions |-> IF t # s THEN Without(change[t], d)
                                         ELSE IF returns THEN d ELSE NoChange]
        /\ reported' = Without(reported, d) /\ unread' = unread
    BY DEF Recorded
  <1>2. /\ Agrees(d, o) /\ Agrees(NoChange, o)
        /\ \A e : Agrees(e, overrides) => Agrees(Without(e, d), o)
    BY ChangesAgree, WithoutAgrees
  <1> HIDE DEF d
  <1>3. \A t \in Sessions : Agrees(change'[t], o)
    BY <1>1, <1>2 DEF HierarchyInv, ReportsSound
  <1>4. ~unread => Agrees(reported', o)
    BY <1>1, <1>2 DEF HierarchyInv, ReportsSound
  <1>5. Agrees(reported', file)
    BY <1>1, WithoutAgrees DEF HierarchyInv, ReportsSound
  <1>6. ASSUME NEW x \in saver
        PROVE  /\ Agrees(change'[x.by], x.overrides)
               /\ ~unread => Agrees(reported', x.overrides)
               /\ Agrees(Surviving(reported', x.overrides), o)
    <2>1. x.by \in Sessions /\ x.by # s
      BY DEF HierarchyInv, SaverSound
    <2>2. change'[x.by] = Without(change[x.by], d)
      BY <1>1, <2>1
    <2>3. Surviving(reported', x.overrides) = Without(Surviving(reported, x.overrides), d)
      BY <1>1, WithoutAgrees
    <2> QED
      BY <1>1, <1>2, <2>2, <2>3, WithoutAgrees DEF HierarchyInv, ReportsSound
  <1> QED
    BY <1>1, <1>3, <1>4, <1>5, <1>6 DEF ReportsSound

LEMMA SessionProposals ==
  ASSUME DocumentsSound, NEW s \in Sessions
  PROVE  Proposals(candidates[s])
  <1>1. PICK gone \in SUBSET Removable : present[s] = Nodes \ gone
    BY DEF DocumentsSound
  <1>2. candidates[s] = Detections[artifact][Nodes \ gone] /\ artifact \in Artifacts
    BY <1>1 DEF DocumentsSound
  <1> QED
    BY <1>2, DetectorsPropose

LEMMA NothingCorrected ==
  /\ OverridesSound(Fresh)
  /\ IsFiniteSet({}) /\ Cardinality({}) = 0
  <1>1. 1 \in DOMAIN Modes
    BY HierarchyAssumption
  <1>2. ModeSound(Modes[1])
    BY <1>1 DEF ModeSound
  <1> QED
    BY <1>2, FS_EmptySet DEF OverridesSound, ManualsSound, Fresh

LEMMA HierarchyInitially == HierarchyInit => HierarchyInv
  <1> SUFFICES ASSUME HierarchyInit PROVE HierarchyInv
    OBVIOUS
  <1>1. DocumentsSound
    <2>1. Nodes = Nodes \ {} /\ {} \in SUBSET Removable
      OBVIOUS
    <2> QED
      BY <2>1, Zenon DEF DocumentsSound, HierarchyInit
  <1>2. \A s \in Sessions : view[s] = Recomputed(candidates[s], Fresh)
    BY DEF HierarchyInit
  <1>3. ForestsSound
    <2>1. view = [s \in Sessions |-> view[s]]
      BY DEF HierarchyInit
    <2> QED
      BY <1>1, <1>2, <2>1, SessionProposals, NothingCorrected, RecomputedSound DEF ForestsSound
  <1>4. CorrectionsSound
    BY NothingCorrected DEF HierarchyInit, CorrectionsSound
  <1>5. WindowsSound
    BY DEF HierarchyInit, WindowsSound, WindowSound, Idle
  <1>6. CountsSound /\ SaverSound
    BY DEF HierarchyInit, CountsSound, SaverSound
  <1>7. ReportsSound
    BY ChangesAgree DEF HierarchyInit, ReportsSound
  <1> QED
    BY <1>1, <1>3, <1>4, <1>5, <1>6, <1>7 DEF HierarchyInv

\* A correction whose overrides are sound keeps everything else sound.
LEMMA CorrectionStep ==
  ASSUME HierarchyInv, NEW s \in Sessions, Ready(s), NEW o, OverridesSound(o),
         NEW results, NEW root, NEW repairs, NEW back, back = NoMode \/ ModeSound(back),
         Correct(s, o, results, root, repairs, back),
         \/ count' = [count EXCEPT !.made = @ + 1]
         \/ count' = [count EXCEPT !.made = @ + 1, !.resets = @ + 1]
  PROVE  HierarchyInv' /\ overrides' = o
  <1> DEFINE v == Recomputed(candidates[s], o)
             w == IF \A id \in results : Has(v, id)
                  THEN [at |-> "saving", root |-> window[s].root, back |-> back,
                        then |-> IF repairs THEN Repaired(v, root) ELSE root]
                  ELSE [Idle EXCEPT !.root = window[s].root]
  <1>1. /\ overrides' = o
        /\ view' = [view EXCEPT ![s] = v]
        /\ window' = [window EXCEPT ![s] = w]
        /\ Recorded(s, o, \A id \in results : Has(v, id))
        /\ UNCHANGED <<artifact, present, candidates, saver, file>>
    BY DEF Correct
  <1>2. ViewSound(v)
    BY SessionProposals, RecomputedSound DEF HierarchyInv
  <1>3. count.made \in Nat /\ count.resets \in Nat
    BY DEF HierarchyInv, CountsSound
  <1>4. WindowSound(w)
    <2>1. CASE \A id \in results : Has(v, id)
      <3>1. w = [at |-> "saving", root |-> window[s].root, back |-> back,
                 then |-> IF repairs THEN Repaired(v, root) ELSE root]
        BY <2>1
      <3> HIDE DEF w
      <3> QED
        BY <3>1 DEF WindowSound
    <2>2. CASE ~\A id \in results : Has(v, id)
      <3>1. w = [Idle EXCEPT !.root = window[s].root]
        BY <2>2
      <3> HIDE DEF w
      <3> QED
        BY <3>1 DEF WindowSound, Idle
    <2> QED
      BY <2>1, <2>2
  <1> HIDE DEF v, w
  <1>5. CountsSound'
    <2>1. count = [made |-> count.made, resets |-> count.resets]
      BY DEF HierarchyInv, CountsSound
    <2>2. \/ count' = [made |-> count.made + 1, resets |-> count.resets]
          \/ count' = [made |-> count.made + 1, resets |-> count.resets + 1]
      BY <2>1
    <2> QED
      BY <1>3, <2>2 DEF CountsSound
  <1>6. DocumentsSound'
    BY <1>1 DEF HierarchyInv, DocumentsSound
  <1>7. ForestsSound'
    BY <1>1, <1>2 DEF HierarchyInv, ForestsSound
  <1>8. CorrectionsSound'
    BY <1>1 DEF HierarchyInv, CorrectionsSound
  <1>9. WindowsSound'
    <2>1. window' = [t \in Sessions |-> IF t = s THEN w ELSE window[t]]
      BY <1>1 DEF HierarchyInv, WindowsSound
    <2>2. \A t \in Sessions : WindowSound(window'[t])
      BY <1>4, <2>1 DEF HierarchyInv, WindowsSound
    <2> QED
      BY <2>1, <2>2 DEF WindowsSound
  <1>10. ReportsSound'
    BY <1>1, RecordedSound DEF Ready
  <1>11. SaverSound'
    <2>1. window[s].at = "idle"
      BY DEF Ready
    <2>2. \A x \in saver : x.by # s /\ x.by \in Sessions
      BY <2>1 DEF HierarchyInv, SaverSound
    <2>3. \A x \in saver : window'[x.by] = window[x.by]
      BY <1>1, <2>2 DEF HierarchyInv, WindowsSound
    <2> QED
      BY <1>1, <2>2, <2>3 DEF HierarchyInv, SaverSound
  <1> QED
    BY <1>1, <1>5, <1>6, <1>7, <1>8, <1>9, <1>10, <1>11 DEF HierarchyInv

-----------------------------------------------------------------------------
(* What the corrections do to the overrides. *)

LEMMA ManualsSubset ==
  ASSUME NEW M, ManualsSound(M), NEW N \in SUBSET M
  PROVE  ManualsSound(N)
  BY FS_Subset DEF ManualsSound

LEMMA ManualsAdd ==
  ASSUME NEW M, ManualsSound(M), NEW m, ManualSound(m), \A n \in M : n.id # m.id
  PROVE  ManualsSound(M \cup {m})
  <1>1. IsFiniteSet(M \cup {m})
    BY FS_AddElement DEF ManualsSound
  <1> QED
    BY <1>1 DEF ManualsSound

LEMMA NewManualSound ==
  ASSUME NEW graph \in Graphs, NEW label \in Nat \X Nat, NEW M \in SUBSET Nodes, Cardinality(M) >= 2,
         NEW m, m = NewManual(graph, label, M) \/ \E b : m = [NewManual(graph, label, M) EXCEPT !.locked = b]
  PROVE  /\ ManualSound(m)
         /\ m.id = UserId(graph, label) /\ m.graph = graph /\ m.members = M
  <1>1. PICK b : m = [id |-> UserId(graph, label), graph |-> graph, label |-> label,
                      members |-> M, locked |-> b]
    BY DEF NewManual
  <1> QED
    BY <1>1 DEF ManualSound

\* Overrides from sound parts.
LEMMA OverridesFrom ==
  ASSUME NEW M, ManualsSound(M), NEW R, NEW N, \A r \in N : r.label \in Nat \X Nat, NEW L,
         NEW mode, ModeSound(mode),
         NEW o, o = [manual |-> M, rejected |-> R, renames |-> N, locked |-> L, mode |-> mode]
  PROVE  OverridesSound(o) /\ o.manual = M
  BY DEF OverridesSound

LEMMA OverridesParts ==
  ASSUME NEW o, OverridesSound(o)
  PROVE  /\ o = [manual |-> o.manual, rejected |-> o.rejected, renames |-> o.renames,
                 locked |-> o.locked, mode |-> o.mode]
         /\ ManualsSound(o.manual) /\ (\A r \in o.renames : r.label \in Nat \X Nat) /\ ModeSound(o.mode)
  BY DEF OverridesSound

\* Other groups of the user.
LEMMA Redrawn ==
  ASSUME NEW o, OverridesSound(o), NEW M, ManualsSound(M)
  PROVE  OverridesSound([o EXCEPT !.manual = M]) /\ [o EXCEPT !.manual = M].manual = M
  <1>1. [o EXCEPT !.manual = M] = [manual |-> M, rejected |-> o.rejected, renames |-> o.renames,
                                   locked |-> o.locked, mode |-> o.mode]
    BY OverridesParts
  <1> QED
    BY <1>1, OverridesParts, OverridesFrom

LEMMA RemovedSound ==
  ASSUME NEW o, OverridesSound(o), NEW G
  PROVE  /\ OverridesSound(Removed(o, G))
         /\ Removed(o, G).manual \subseteq o.manual
         /\ \A m \in o.manual : (\A g \in G : g.id # m.id) => m \in Removed(o, G).manual
  <1> DEFINE ids == {g.id : g \in G}
             auto == {g.id : g \in {h \in G : h.automatic}}
             M == {m \in o.manual : m.id \notin ids \ auto}
             N == {r \in o.renames : r.id \notin auto}
  <1>1. Removed(o, G) = [manual |-> M, rejected |-> o.rejected \cup auto, renames |-> N,
                         locked |-> o.locked \ auto, mode |-> o.mode]
    <2>1. Removed(o, G) = [o EXCEPT !.manual = M, !.rejected = @ \cup auto, !.renames = N,
                                    !.locked = @ \ auto]
      BY DEF Removed
    <2> HIDE DEF M, N, auto
    <2> QED
      BY <2>1, OverridesParts
  <1>2. M \subseteq o.manual /\ N \subseteq o.renames
    OBVIOUS
  <1>3. \A m \in o.manual : (\A g \in G : g.id # m.id) => m \in M
    OBVIOUS
  <1> HIDE DEF M, N, auto
  <1>4. ManualsSound(M) /\ \A r \in N : r.label \in Nat \X Nat
    BY <1>2, OverridesParts, ManualsSubset
  <1>5. OverridesSound(Removed(o, G)) /\ Removed(o, G).manual = M
    BY <1>1, <1>4, OverridesParts, OverridesFrom
  <1> QED
    BY <1>2, <1>3, <1>5

\* At most one group of the user has an id.
LEMMA OneManual ==
  ASSUME NEW o, OverridesSound(o), NEW m \in o.manual
  PROVE  Manual(o, m.id) = {m}
  BY OverridesParts DEF ManualsSound, Manual

\* The part of LockedKept that a step has to show.
LockedStay ==
  \A m \in overrides.manual :
    (\A s \in Sessions : \E g \in view[s] : g.id = m.id /\ g.locked) =>
      \/ \E n \in overrides'.manual : n.graph = m.graph /\ n.members = m.members
      \/ count'.resets # count.resets
      \/ count'.made = count.made /\ overrides' \in {file, Fresh}

LEMMA GroupStep ==
  ASSUME HierarchyInv, NEW s \in Sessions, Group(s)
  PROVE  HierarchyInv' /\ LockedStay
  <1>1. PICK graph \in Graphs, name \in Names, M \in SUBSET present[s], b \in BOOLEAN :
          LET m == [NewManual(graph, Label(name), M) EXCEPT !.locked = b]
          IN  /\ Cardinality(M) >= 2
              /\ Manual(overrides, m.id) = {}
              /\ Correct(s, [overrides EXCEPT !.manual = @ \cup {m}], {m.id}, window[s].root, TRUE, NoMode)
    BY DEF Group
  <1> DEFINE m == [NewManual(graph, Label(name), M) EXCEPT !.locked = b]
             o == [overrides EXCEPT !.manual = overrides.manual \cup {m}]
  <1>2. /\ Cardinality(M) >= 2 /\ Manual(overrides, m.id) = {}
        /\ Correct(s, o, {m.id}, window[s].root, TRUE, NoMode)
    BY <1>1
  <1>3. M \subseteq Nodes
    BY DEF HierarchyInv, DocumentsSound
  <1>4. Label(name) \in Nat \X Nat
    BY HierarchyAssumption DEF Label
  <1>5. ManualSound(m)
    BY <1>2, <1>3, <1>4, NewManualSound
  <1> HIDE DEF m
  <1>6. OverridesSound(overrides)
    BY DEF HierarchyInv, CorrectionsSound
  <1>7. ManualsSound(overrides.manual \cup {m})
    BY <1>2, <1>5, <1>6, OverridesParts, ManualsAdd DEF Manual
  <1>8. OverridesSound(o) /\ o.manual = overrides.manual \cup {m}
    BY <1>6, <1>7, Redrawn
  <1> HIDE DEF o
  <1>9. HierarchyInv' /\ overrides' = o
    BY <1>2, <1>8, CorrectionStep DEF Group, Counted
  <1> QED
    BY <1>8, <1>9 DEF LockedStay

LEMMA SplitStep ==
  ASSUME HierarchyInv, NEW s \in Sessions, Split(s)
  PROVE  HierarchyInv' /\ LockedStay
  <1>g. PICK g \in view[s] :
          \E parts \in {<<>>} \cup {<<A, g.members \ A>> : A \in (SUBSET g.members) \ {{}, g.members}} :
          LET planned == {NewManual(g.graph, Derived(g.label, i), parts[i]) :
                            i \in {j \in DOMAIN parts : Cardinality(parts[j]) >= 2}}
          IN  /\ ~g.locked
              /\ \A m \in planned : Manual(overrides, m.id) = {}
              /\ Correct(s, [Removed(overrides, {g}) EXCEPT !.manual = @ \cup planned],
                         {m.id : m \in planned},
                         IF window[s].root = g.id THEN NoRoot ELSE window[s].root, FALSE, NoMode)
    BY DEF Split
  <1>1. PICK parts \in {<<>>} \cup {<<A, g.members \ A>> : A \in (SUBSET g.members) \ {{}, g.members}} :
          LET planned == {NewManual(g.graph, Derived(g.label, i), parts[i]) :
                            i \in {j \in DOMAIN parts : Cardinality(parts[j]) >= 2}}
          IN  /\ ~g.locked
              /\ \A m \in planned : Manual(overrides, m.id) = {}
              /\ Correct(s, [Removed(overrides, {g}) EXCEPT !.manual = @ \cup planned],
                         {m.id : m \in planned},
                         IF window[s].root = g.id THEN NoRoot ELSE window[s].root, FALSE, NoMode)
    BY <1>g
  <1> DEFINE large == {j \in DOMAIN parts : Cardinality(parts[j]) >= 2}
             f == [i \in large |-> NewManual(g.graph, Derived(g.label, i), parts[i])]
             planned == {NewManual(g.graph, Derived(g.label, i), parts[i]) : i \in large}
             r == Removed(overrides, {g})
             o == [r EXCEPT !.manual = r.manual \cup planned]
  <1>2. /\ ~g.locked
        /\ \A m \in planned : Manual(overrides, m.id) = {}
        /\ \E root : Correct(s, o, {m.id : m \in planned}, root, FALSE, NoMode)
    BY <1>1
  <1>3. /\ OverridesSound(overrides) /\ GroupSound(g)
        /\ \A h \in view[s] : g.id = h.id => g = h
    BY DEF HierarchyInv, CorrectionsSound, ForestsSound, ViewSound
  <1>4. /\ OverridesSound(r) /\ r.manual \subseteq overrides.manual
        /\ \A m \in overrides.manual : g.id # m.id => m \in r.manual
    BY <1>3, RemovedSound
  <1>5. large \subseteq {1, 2} /\ \A i \in large : parts[i] \subseteq Nodes
    BY <1>3 DEF GroupSound
  <1>6. \A i \in large : Derived(g.label, i) \in Nat \X Nat /\ Derived(g.label, i)[2] = i
    BY <1>3, <1>5 DEF GroupSound, Derived
  <1>7. ASSUME NEW i \in large
        PROVE  /\ ManualSound(NewManual(g.graph, Derived(g.label, i), parts[i]))
               /\ NewManual(g.graph, Derived(g.label, i), parts[i]).id = UserId(g.graph, Derived(g.label, i))
    <2>1. Cardinality(parts[i]) >= 2 /\ parts[i] \in SUBSET Nodes /\ g.graph \in Graphs
      BY <1>3, <1>5 DEF GroupSound
    <2> QED
      BY <1>6, <2>1, NewManualSound
  <1>8. ManualsSound(planned)
    <2>1. IsFiniteSet(large)
      <3> HIDE DEF large
      <3>0. large \subseteq {1} \cup {2}
        BY <1>5
      <3>1. IsFiniteSet({1} \cup {2})
        BY FS_Singleton, FS_AddElement
      <3> QED
        BY <3>0, <3>1, FS_Subset
    <2>2. planned = {f[i] : i \in large}
      OBVIOUS
    <2>3. IsFiniteSet(planned)
      <3> HIDE DEF f, planned, large
      <3> QED
        BY <2>1, <2>2, ImageFinite
    <2>4. \A m \in planned : ManualSound(m)
      BY <1>7
    <2>5. ASSUME NEW m \in planned, NEW n \in planned, m.id = n.id PROVE m = n
      <3> HIDE DEF large
      <3>1. PICK i \in large : m = NewManual(g.graph, Derived(g.label, i), parts[i])
        OBVIOUS
      <3>2. PICK k \in large : n = NewManual(g.graph, Derived(g.label, k), parts[k])
        OBVIOUS
      <3>3. UserId(g.graph, Derived(g.label, i)) = UserId(g.graph, Derived(g.label, k))
        BY <1>7, <2>5, <3>1, <3>2
      <3>4. Derived(g.label, i) = Derived(g.label, k)
        BY <3>3 DEF UserId
      <3>5. i = k
        BY <1>6, <3>4
      <3> QED
        BY <3>1, <3>2, <3>5
    <2> HIDE DEF planned
    <2> QED
      BY <2>3, <2>4, <2>5 DEF ManualsSound
  <1> HIDE DEF planned, r, large
  <1>9. ManualsSound(r.manual \cup planned)
    <2>1. ManualsSound(r.manual)
      BY <1>4, OverridesParts
    <2>2. IsFiniteSet(r.manual \cup planned)
      BY <1>8, <2>1, FS_Union DEF ManualsSound
    <2>3. \A m \in planned, n \in r.manual : m.id # n.id
      BY <1>2, <1>4 DEF Manual
    <2> QED
      BY <1>8, <2>1, <2>2, <2>3 DEF ManualsSound
  <1>10. OverridesSound(o) /\ o.manual = r.manual \cup planned
    BY <1>4, <1>9, Redrawn
  <1> HIDE DEF o
  <1>11. PICK root : Correct(s, o, {m.id : m \in planned}, root, FALSE, NoMode)
    BY <1>2
  <1>12. HierarchyInv' /\ overrides' = o
    BY <1>10, <1>11, CorrectionStep DEF Split, Counted
  <1>13. ASSUME NEW m \in overrides.manual, \E h \in view[s] : h.id = m.id /\ h.locked
         PROVE  m \in overrides'.manual
    BY <1>2, <1>3, <1>4, <1>10, <1>12, <1>13
  <1> QED
    BY <1>12, <1>13 DEF LockedStay

LEMMA TwoElements ==
  /\ \A G : Cardinality(G) >= 2 => \E g, h \in G : g # h
  /\ \A U : IsFiniteSet(U) => \A x, y \in U : x # y => Cardinality(U) >= 2
  <1>1. ASSUME NEW G, Cardinality(G) >= 2 PROVE \E g, h \in G : g # h
    <2> SUFFICES ASSUME \A g, h \in G : g = h PROVE FALSE
      OBVIOUS
    <2>1. G = {} \/ \E g : G = {g}
      OBVIOUS
    <2>2. Cardinality(G) = 0 \/ Cardinality(G) = 1
      BY <2>1, FS_EmptySet, FS_Singleton
    <2> QED
      BY <1>1, <2>2
  <1>2. ASSUME NEW U, IsFiniteSet(U), NEW x \in U, NEW y \in U, x # y PROVE Cardinality(U) >= 2
    <2>1. IsFiniteSet({x}) /\ Cardinality({x}) = 1 /\ y \notin {x}
      BY <1>2, FS_Singleton
    <2>2. IsFiniteSet({x} \cup {y}) /\ Cardinality({x} \cup {y}) = 2
      BY <2>1, FS_AddElement
    <2>3. Cardinality({x} \cup {y}) <= Cardinality(U) /\ Cardinality(U) \in Nat
      <3>1. {x} \cup {y} \in SUBSET U
        OBVIOUS
      <3> QED
        BY <1>2, <3>1, FS_Subset, FS_CardinalityType
    <2> QED
      BY <2>2, <2>3
  <1> QED
    BY <1>1, <1>2

\* Two groups of one forest have two nodes between them.
LEMMA MergedLarge ==
  ASSUME NEW v, ViewSound(v), NEW graph, NEW G \in SUBSET {g \in v : g.graph = graph},
         Cardinality(G) >= 2
  PROVE  /\ UNION {g.members : g \in G} \subseteq Nodes
         /\ Cardinality(UNION {g.members : g \in G}) >= 2
  <1> DEFINE U == UNION {g.members : g \in G}
  <1>1. \A g \in G : GroupSound(g) /\ g.graph = graph /\ g \in v
    BY DEF ViewSound
  <1>2. U \subseteq Nodes /\ \A g \in G : g.members \subseteq U
    BY <1>1 DEF GroupSound
  <1> HIDE DEF U
  <1>3. IsFiniteSet(U) /\ Cardinality(U) \in Nat
    BY <1>2, FiniteMembers
  <1>4. PICK g \in G, h \in G : g # h
    BY TwoElements
  <1>5. \A a \in G : Cardinality(a.members) >= 2 => Cardinality(U) >= 2
    <2> SUFFICES ASSUME NEW a \in G, Cardinality(a.members) >= 2 PROVE Cardinality(U) >= 2
      OBVIOUS
    <2>1. a.members \in SUBSET U /\ Cardinality(a.members) \in Nat
      BY <1>1, <1>2, FiniteMembers DEF GroupSound
    <2>2. Cardinality(a.members) <= Cardinality(U)
      BY <1>3, <2>1, FS_Subset
    <2> QED
      BY <1>3, <2>1, <2>2
  <1>6. CASE g.automatic /\ h.automatic
    <2>1. g.members # h.members
      BY <1>1, <1>4, <1>6 DEF ViewSound, Twins
    <2>2. g.members # {} /\ h.members # {}
      BY <1>1 DEF GroupSound
    <2>3. \E x, y \in g.members \cup h.members : x # y
      BY <2>1, <2>2
    <2>4. \E x, y \in U : x # y
      BY <1>2, <2>3
    <2>5. Cardinality(U) >= 2
      BY <1>3, <2>4, TwoElements
    <2> QED
      BY <1>2, <2>5 DEF U
  <1>7. CASE ~(g.automatic /\ h.automatic)
    <2>1. Cardinality(g.members) >= 2 \/ Cardinality(h.members) >= 2
      BY <1>1, <1>7 DEF GroupSound
    <2>2. Cardinality(U) >= 2
      BY <1>5, <2>1
    <2> QED
      BY <1>2, <2>2 DEF U
  <1> QED
    BY <1>6, <1>7

LEMMA MergeStep ==
  ASSUME HierarchyInv, NEW s \in Sessions, Merge(s)
  PROVE  HierarchyInv' /\ LockedStay
  <1>1. PICK graph, name, G :
          LET m == NewManual(graph, Label(name), UNION {g.members : g \in G})
          IN  /\ graph \in Graphs /\ name \in Names
              /\ G \in SUBSET {g \in view[s] : g.graph = graph}
              /\ Cardinality(G) >= 2
              /\ \A g \in G : ~g.locked
              /\ Manual(overrides, m.id) = {} \/ \E g \in G : g.id = m.id
              /\ \E root : Correct(s, [Removed(overrides, G) EXCEPT !.manual = {n \in @ : n.id # m.id} \cup {m}],
                                   {m.id}, root, TRUE, NoMode)
    BY DEF Merge
  <1> DEFINE m == NewManual(graph, Label(name), UNION {g.members : g \in G})
             r == Removed(overrides, G)
             M == {n \in r.manual : n.id # m.id}
             o == [r EXCEPT !.manual = M \cup {m}]
  <1>2. /\ graph \in Graphs /\ name \in Names
        /\ G \in SUBSET {g \in view[s] : g.graph = graph}
        /\ Cardinality(G) >= 2 /\ \A g \in G : ~g.locked
        /\ Manual(overrides, m.id) = {} \/ \E g \in G : g.id = m.id
        /\ \E root : Correct(s, o, {m.id}, root, TRUE, NoMode)
    BY <1>1
  <1>3. OverridesSound(overrides) /\ ViewSound(view[s])
    BY DEF HierarchyInv, CorrectionsSound, ForestsSound
  <1>4. /\ UNION {g.members : g \in G} \in SUBSET Nodes
        /\ Cardinality(UNION {g.members : g \in G}) >= 2
    BY <1>2, <1>3, MergedLarge
  <1>5. Label(name) \in Nat \X Nat
    BY <1>2, HierarchyAssumption DEF Label
  <1>6. ManualSound(m)
    BY <1>2, <1>4, <1>5, NewManualSound
  <1> HIDE DEF m
  <1>7. /\ OverridesSound(r) /\ r.manual \subseteq overrides.manual
        /\ \A n \in overrides.manual : (\A g \in G : g.id # n.id) => n \in r.manual
    BY <1>3, RemovedSound
  <1> HIDE DEF r
  <1>8. ManualsSound(M)
    <2>1. M \in SUBSET r.manual
      OBVIOUS
    <2> HIDE DEF M
    <2> QED
      BY <1>7, <2>1, OverridesParts, ManualsSubset
  <1>9. ManualsSound(M \cup {m})
    <2>1. \A n \in M : n.id # m.id
      OBVIOUS
    <2> HIDE DEF M
    <2> QED
      BY <1>6, <1>8, <2>1, ManualsAdd
  <1>10. OverridesSound(o) /\ o.manual = M \cup {m}
    BY <1>7, <1>9, Redrawn
  <1> HIDE DEF o
  <1>11. PICK root : Correct(s, o, {m.id}, root, TRUE, NoMode)
    BY <1>2
  <1>12. HierarchyInv' /\ overrides' = o
    BY <1>10, <1>11, CorrectionStep DEF Merge, Counted
  <1>13. ASSUME NEW n \in overrides.manual, \E h \in view[s] : h.id = n.id /\ h.locked
         PROVE  n \in overrides'.manual
    <2>1. \A g \in G : g.id # n.id
      BY <1>2, <1>3, <1>13 DEF ViewSound
    <2>2. n \in r.manual
      BY <1>7, <2>1
    <2>3. n.id # m.id
      BY <1>2, <2>1 DEF Manual
    <2>4. n \in M
      BY <2>2, <2>3
    <2> HIDE DEF M
    <2> QED
      BY <1>10, <1>12, <2>4
  <1> QED
    BY <1>12, <1>13 DEF LockedStay

LEMMA RedrawnUnlocked ==
  ASSUME NEW o, OverridesSound(o), NEW M, NEW L
  PROVE  [o EXCEPT !.manual = M, !.locked = L] =
           [manual |-> M, rejected |-> o.rejected, renames |-> o.renames, locked |-> L, mode |-> o.mode]
  <1> DEFINE p == [o EXCEPT !.manual = M]
  <1>1. p = [manual |-> M, rejected |-> o.rejected, renames |-> o.renames, locked |-> o.locked,
             mode |-> o.mode]
    BY OverridesParts
  <1>2. [o EXCEPT !.manual = M, !.locked = L] = [p EXCEPT !.locked = L]
    BY Zenon
  <1> HIDE DEF p
  <1>3. [p EXCEPT !.locked = L] = [manual |-> M, rejected |-> o.rejected, renames |-> o.renames,
                                   locked |-> L, mode |-> o.mode]
    BY <1>1
  <1> QED
    BY <1>2, <1>3

LEMMA RenameStep ==
  ASSUME HierarchyInv, NEW s \in Sessions, Rename(s)
  PROVE  HierarchyInv' /\ LockedStay
  <1>0. OverridesSound(overrides)
    BY DEF HierarchyInv, CorrectionsSound
  <1>r. Ready(s) /\ Counted
    BY Zenon DEF Rename
  <1>1. PICK g \in view[s], name \in Names :
       \/ \E m \in Manual(overrides, g.id) :
            LET n == [m EXCEPT !.id = UserId(m.graph, Label(name)), !.label = Label(name)]
                o == [overrides EXCEPT !.manual = (@ \ {m}) \cup {n}, !.locked = @ \ {g.id}]
            IN  /\ n.id = g.id \/ Manual(overrides, n.id) = {}
                /\ Correct(s, o, {n.id}, IF window[s].root = g.id THEN n.id ELSE window[s].root, FALSE, NoMode)
       \/ LET o == [overrides EXCEPT !.renames = {r \in @ : r.id # g.id}
                                        \cup {[id |-> g.id, label |-> Label(name)]}]
          IN  /\ Manual(overrides, g.id) = {} /\ g.automatic
              /\ Correct(s, o, {g.id}, window[s].root, FALSE, NoMode)
    BY Zenon DEF Rename
  <1>2. Label(name) \in Nat \X Nat
    BY HierarchyAssumption DEF Label
  <1>3. ASSUME NEW m \in Manual(overrides, g.id), NEW n,
               n = [m EXCEPT !.id = UserId(m.graph, Label(name)), !.label = Label(name)],
               n.id = g.id \/ Manual(overrides, n.id) = {},
               NEW root,
               Correct(s, [overrides EXCEPT !.manual = (@ \ {m}) \cup {n}, !.locked = @ \ {g.id}],
                       {n.id}, root, FALSE, NoMode)
        PROVE  HierarchyInv' /\ LockedStay
    <2> DEFINE M == overrides.manual \ {m}
               o == [manual |-> M \cup {n}, rejected |-> overrides.rejected,
                     renames |-> overrides.renames, locked |-> overrides.locked \ {g.id},
                     mode |-> overrides.mode]
    <2>1. m \in overrides.manual /\ m.id = g.id /\ ManualSound(m)
      BY <1>0 DEF Manual, OverridesSound, ManualsSound
    <2>2. /\ ManualSound(n) /\ n.graph = m.graph /\ n.members = m.members
      <3>1. m = [id |-> m.id, graph |-> m.graph, label |-> m.label, members |-> m.members,
                 locked |-> m.locked]
        BY <2>1 DEF ManualSound
      <3>2. n = [id |-> UserId(m.graph, Label(name)), graph |-> m.graph, label |-> Label(name),
                 members |-> m.members, locked |-> m.locked]
        BY <1>3, <3>1
      <3> QED
        BY <1>2, <2>1, <3>2 DEF ManualSound
    <2>3. ManualsSound(M) /\ \A k \in M : k.id # n.id
      <3>1. ManualsSound(overrides.manual)
        BY <1>0, OverridesParts
      <3>2. ManualsSound(M)
        BY <3>1, ManualsSubset
      <3>3. \A k \in M : k.id # m.id
        BY <2>1, <3>1 DEF ManualsSound
      <3> QED
        BY <1>3, <2>1, <3>2, <3>3 DEF Manual
    <2>4. ManualsSound(M \cup {n})
      BY <2>2, <2>3, ManualsAdd
    <2> DEFINE L == overrides.locked \ {g.id}
    <2>a. [overrides EXCEPT !.manual = (@ \ {m}) \cup {n}, !.locked = @ \ {g.id}]
            = [overrides EXCEPT !.manual = M \cup {n}, !.locked = L]
      OBVIOUS
    <2> HIDE DEF L
    <2>b. [overrides EXCEPT !.manual = M \cup {n}, !.locked = L] =
            [manual |-> M \cup {n}, rejected |-> overrides.rejected, renames |-> overrides.renames,
             locked |-> L, mode |-> overrides.mode]
      <3> HIDE DEF M
      <3> DEFINE K == M \cup {n}
      <3> HIDE DEF K
      <3>1. [overrides EXCEPT !.manual = K, !.locked = L] =
              [manual |-> K, rejected |-> overrides.rejected, renames |-> overrides.renames,
               locked |-> L, mode |-> overrides.mode]
        BY <1>0, RedrawnUnlocked, Zenon
      <3> QED
        BY <3>1 DEF K
    <2>5. [overrides EXCEPT !.manual = (@ \ {m}) \cup {n}, !.locked = @ \ {g.id}] = o
      BY <2>a, <2>b DEF L
    <2> HIDE DEF M
    <2>6. OverridesSound(o) /\ o.manual = M \cup {n}
      BY <1>0, <2>4, OverridesParts, OverridesFrom
    <2> HIDE DEF o
    <2>7. Correct(s, o, {n.id}, root, FALSE, NoMode)
      BY <1>3, <2>5
    <2>8. HierarchyInv' /\ overrides' = o
      BY <1>r, <2>6, <2>7, CorrectionStep DEF Counted
    <2>9. \A k \in overrides.manual : \E l \in overrides'.manual : l.graph = k.graph /\ l.members = k.members
      BY <2>2, <2>6, <2>8 DEF M
    <2> QED
      BY <2>8, <2>9 DEF LockedStay
  <1>4. ASSUME NEW root,
               Correct(s, [overrides EXCEPT !.renames = {r \in @ : r.id # g.id}
                                              \cup {[id |-> g.id, label |-> Label(name)]}],
                       {g.id}, root, FALSE, NoMode)
        PROVE  HierarchyInv' /\ LockedStay
    <2> DEFINE N == {r \in overrides.renames : r.id # g.id} \cup {[id |-> g.id, label |-> Label(name)]}
               o == [manual |-> overrides.manual, rejected |-> overrides.rejected,
                     renames |-> N, locked |-> overrides.locked, mode |-> overrides.mode]
    <2>1. \A r \in N : r.label \in Nat \X Nat
      BY <1>0, <1>2, OverridesParts
    <2>2. [overrides EXCEPT !.renames = N] = o
      BY <1>0, OverridesParts
    <2>3. Correct(s, o, {g.id}, root, FALSE, NoMode)
      BY <1>4, <2>2
    <2> HIDE DEF N
    <2>4. OverridesSound(o) /\ o.manual = overrides.manual
      BY <1>0, <2>1, OverridesParts, OverridesFrom
    <2> HIDE DEF o
    <2>5. HierarchyInv' /\ overrides' = o
      BY <1>r, <2>3, <2>4, CorrectionStep DEF Counted
    <2> QED
      BY <2>4, <2>5 DEF LockedStay
  <1>5. CASE \E m \in Manual(overrides, g.id) :
            LET n == [m EXCEPT !.id = UserId(m.graph, Label(name)), !.label = Label(name)]
                o == [overrides EXCEPT !.manual = (@ \ {m}) \cup {n}, !.locked = @ \ {g.id}]
            IN  /\ n.id = g.id \/ Manual(overrides, n.id) = {}
                /\ Correct(s, o, {n.id}, IF window[s].root = g.id THEN n.id ELSE window[s].root, FALSE, NoMode)
    <2>1. PICK m \in Manual(overrides, g.id) :
            LET n == [m EXCEPT !.id = UserId(m.graph, Label(name)), !.label = Label(name)]
                o == [overrides EXCEPT !.manual = (@ \ {m}) \cup {n}, !.locked = @ \ {g.id}]
            IN  /\ n.id = g.id \/ Manual(overrides, n.id) = {}
                /\ Correct(s, o, {n.id}, IF window[s].root = g.id THEN n.id ELSE window[s].root, FALSE, NoMode)
      BY <1>5, Zenon
    <2> QED
      BY <1>3, <2>1, Zenon
  <1> QED
    BY <1>1, <1>4, <1>5, Zenon

LEMMA LockStep ==
  ASSUME HierarchyInv, NEW s \in Sessions, Lock(s)
  PROVE  HierarchyInv' /\ LockedStay
  <1>0. OverridesSound(overrides)
    BY DEF HierarchyInv, CorrectionsSound
  <1>r. Ready(s) /\ Counted
    BY DEF Lock
  <1>1. PICK g \in view[s] :
          LET own == Manual(overrides, g.id)
              o == IF own # {}
                   THEN [overrides EXCEPT !.manual =
                           (@ \ own) \cup {[m EXCEPT !.locked = ~g.locked] : m \in own}]
                   ELSE [overrides EXCEPT !.locked = IF g.locked THEN @ \ {g.id} ELSE @ \cup {g.id}]
          IN  Correct(s, o, {g.id}, window[s].root, FALSE, NoMode)
    BY DEF Lock
  <1>2. ASSUME NEW m \in overrides.manual, m.id = g.id PROVE HierarchyInv' /\ LockedStay
    <2> DEFINE n == [m EXCEPT !.locked = ~g.locked]
               M == overrides.manual \ {m}
               o == [overrides EXCEPT !.manual = M \cup {n}]
    <2>1. Manual(overrides, g.id) = {m}
      BY <1>0, <1>2, OneManual
    <2>2. Correct(s, o, {g.id}, window[s].root, FALSE, NoMode)
      <3>1. {[k EXCEPT !.locked = ~g.locked] : k \in {m}} = {n}
        OBVIOUS
      <3> QED
        BY <1>1, <2>1, <3>1
    <2>3. ManualSound(m)
      BY <1>0 DEF OverridesSound, ManualsSound
    <2>4. ManualSound(n) /\ n.id = m.id /\ n.graph = m.graph /\ n.members = m.members
      <3>1. m = [id |-> m.id, graph |-> m.graph, label |-> m.label, members |-> m.members,
                 locked |-> m.locked]
        BY <2>3 DEF ManualSound
      <3>2. n = [id |-> m.id, graph |-> m.graph, label |-> m.label, members |-> m.members,
                 locked |-> ~g.locked]
        BY <3>1
      <3> HIDE DEF n
      <3> QED
        BY <2>3, <3>2 DEF ManualSound
    <2> HIDE DEF n
    <2>5. ManualsSound(M) /\ \A k \in M : k.id # n.id
      <3>1. ManualsSound(overrides.manual)
        BY <1>0, OverridesParts
      <3> QED
        BY <2>4, <3>1, ManualsSubset DEF ManualsSound
    <2>6. OverridesSound(o) /\ o.manual = M \cup {n}
      <3>1. ManualsSound(M \cup {n})
        BY <2>4, <2>5, ManualsAdd
      <3> HIDE DEF M
      <3> QED
        BY <1>0, <3>1, Redrawn
    <2> HIDE DEF o
    <2>7. HierarchyInv' /\ overrides' = o
      BY <1>r, <2>2, <2>6, CorrectionStep DEF Counted
    <2>8. \A k \in overrides.manual : \E l \in overrides'.manual : l.graph = k.graph /\ l.members = k.members
      BY <2>4, <2>6, <2>7
    <2> QED
      BY <2>7, <2>8 DEF LockedStay
  <1>3. CASE Manual(overrides, g.id) = {}
    <2> DEFINE L == IF g.locked THEN overrides.locked \ {g.id} ELSE overrides.locked \cup {g.id}
               o == [overrides EXCEPT !.locked = L]
    <2>1. Correct(s, o, {g.id}, window[s].root, FALSE, NoMode)
      BY <1>1, <1>3
    <2> HIDE DEF L
    <2>2. o = [manual |-> overrides.manual, rejected |-> overrides.rejected, renames |-> overrides.renames,
               locked |-> L, mode |-> overrides.mode]
      BY <1>0, OverridesParts
    <2> HIDE DEF o
    <2>3. OverridesSound(o) /\ o.manual = overrides.manual
      BY <1>0, <2>2, OverridesParts, OverridesFrom
    <2>4. HierarchyInv' /\ overrides' = o
      BY <1>r, <2>1, <2>3, CorrectionStep DEF Counted
    <2> QED
      BY <2>3, <2>4 DEF LockedStay
  <1> QED
    BY <1>2, <1>3 DEF Manual

LEMMA RejectStep ==
  ASSUME HierarchyInv, NEW s \in Sessions, Reject(s)
  PROVE  HierarchyInv' /\ LockedStay
  <1>0. OverridesSound(overrides) /\ ViewSound(view[s])
    BY DEF HierarchyInv, CorrectionsSound, ForestsSound
  <1>r. Ready(s) /\ Counted
    BY DEF Reject
  <1>1. PICK g \in view[s] :
          ~g.locked /\ \E root : Correct(s, Removed(overrides, {g}), {}, root, FALSE, NoMode)
    BY DEF Reject
  <1> DEFINE o == Removed(overrides, {g})
  <1>2. OverridesSound(o) /\ \A m \in overrides.manual : g.id # m.id => m \in o.manual
    BY <1>0, RemovedSound
  <1>3. PICK root : Correct(s, o, {}, root, FALSE, NoMode)
    BY <1>1
  <1> HIDE DEF o
  <1>4. HierarchyInv' /\ overrides' = o
    BY <1>r, <1>2, <1>3, CorrectionStep DEF Counted
  <1>5. ASSUME NEW m \in overrides.manual, \E h \in view[s] : h.id = m.id /\ h.locked
        PROVE  m \in overrides'.manual
    BY <1>0, <1>1, <1>2, <1>4, <1>5 DEF ViewSound
  <1> QED
    BY <1>4, <1>5 DEF LockedStay

Redone(o, M, R, N, L) == [o EXCEPT !.manual = M, !.rejected = R, !.renames = N, !.locked = L]

LEMMA RedoneSound ==
  ASSUME NEW o, OverridesSound(o), NEW M, ManualsSound(M), NEW R,
         NEW N, \A r \in N : r.label \in Nat \X Nat, NEW L
  PROVE  OverridesSound(Redone(o, M, R, N, L))
  <1> DEFINE p == [o EXCEPT !.manual = M]
             q == [p EXCEPT !.rejected = R]
             r == [q EXCEPT !.renames = N]
  <1>1. p = [manual |-> M, rejected |-> o.rejected, renames |-> o.renames, locked |-> o.locked,
             mode |-> o.mode]
    BY OverridesParts
  <1> HIDE DEF p
  <1>2. q = [manual |-> M, rejected |-> R, renames |-> o.renames, locked |-> o.locked, mode |-> o.mode]
    BY <1>1
  <1> HIDE DEF q
  <1>3. r = [manual |-> M, rejected |-> R, renames |-> N, locked |-> o.locked, mode |-> o.mode]
    BY <1>2
  <1> HIDE DEF r
  <1>4. [r EXCEPT !.locked = L] = [manual |-> M, rejected |-> R, renames |-> N, locked |-> L, mode |-> o.mode]
    BY <1>3
  <1>5. Redone(o, M, R, N, L) = [r EXCEPT !.locked = L]
    BY Zenon DEF p, q, r, Redone
  <1> QED
    BY <1>4, <1>5, OverridesParts, OverridesFrom

LEMMA ResetStep ==
  ASSUME HierarchyInv, NEW s \in Sessions, Reset(s)
  PROVE  HierarchyInv' /\ LockedStay
  <1>0. OverridesSound(overrides)
    BY DEF HierarchyInv, CorrectionsSound
  <1>r. Ready(s) /\ count' = [count EXCEPT !.made = @ + 1, !.resets = @ + 1]
    BY DEF Reset
  <1>1. PICK graph \in Graphs :
       LET auto == {AutoId(c) : c \in {d \in candidates[s] : d.graph = graph}}
           o == [overrides EXCEPT !.manual = {m \in @ : m.graph # graph},
                                  !.rejected = @ \ auto,
                                  !.renames = {r \in @ : r.id \notin auto},
                                  !.locked = @ \ auto]
       IN  Correct(s, o, {}, NoRoot, FALSE, NoMode)
    BY Zenon DEF Reset
  <1> DEFINE auto == {AutoId(c) : c \in {d \in candidates[s] : d.graph = graph}}
             M == {m \in overrides.manual : m.graph # graph}
             N == {r \in overrides.renames : r.id \notin auto}
             R == overrides.rejected \ auto
             L == overrides.locked \ auto
             o == [overrides EXCEPT !.manual = M, !.rejected = R, !.renames = N, !.locked = L]
  <1>2. Correct(s, o, {}, NoRoot, FALSE, NoMode)
    BY <1>1
  <1>3. M \subseteq overrides.manual /\ N \subseteq overrides.renames
    OBVIOUS
  <1> HIDE DEF M, N, R, L, auto
  <1>4. ManualsSound(M)
    BY <1>0, <1>3, OverridesParts, ManualsSubset
  <1>5. \A r \in N : r.label \in Nat \X Nat
    BY <1>0, <1>3, OverridesParts
  <1>6. OverridesSound(o)
    <2>1. o = Redone(overrides, M, R, N, L)
      BY Zenon DEF Redone
    <2> HIDE DEF o
    <2> QED
      BY <1>0, <1>4, <1>5, <2>1, RedoneSound
  <1> HIDE DEF o
  <1>7. HierarchyInv' /\ overrides' = o
    BY <1>r, <1>2, <1>6, CorrectionStep
  <1>8. count'.resets # count.resets
    BY <1>r DEF HierarchyInv, CountsSound
  <1> QED
    BY <1>7, <1>8 DEF LockedStay

LEMMA OtherMode ==
  ASSUME NEW o, OverridesSound(o), NEW mode, ModeSound(mode)
  PROVE  /\ OverridesSound([o EXCEPT !.mode = mode])
         /\ [o EXCEPT !.mode = mode].manual = o.manual
  <1>1. [o EXCEPT !.mode = mode] = [manual |-> o.manual, rejected |-> o.rejected, renames |-> o.renames,
                                    locked |-> o.locked, mode |-> mode]
    BY OverridesParts
  <1> QED
    BY <1>1, OverridesParts, OverridesFrom

LEMMA CycleModeStep ==
  ASSUME HierarchyInv, NEW s \in Sessions, CycleMode(s)
  PROVE  HierarchyInv' /\ LockedStay
  <1>0. OverridesSound(overrides)
    BY DEF HierarchyInv, CorrectionsSound
  <1>r. Ready(s) /\ Counted
    BY DEF CycleMode
  <1> DEFINE i == CHOOSE j \in DOMAIN Modes : Modes[j] = overrides.mode
             mode == Modes[(i % Len(Modes)) + 1]
             o == [overrides EXCEPT !.mode = mode]
  <1>1. PICK repairs, back : /\ back = NoMode \/ back = overrides.mode
                             /\ Correct(s, o, {}, window[s].root, repairs, back)
    BY DEF CycleMode
  <1>2. ModeSound(mode)
    <2>1. DOMAIN Modes = 1..Len(Modes) /\ Len(Modes) \in Nat /\ Len(Modes) > 0
      BY HierarchyAssumption
    <2>2. i \in 1..Len(Modes)
      BY <1>0, <2>1 DEF OverridesSound, ModeSound
    <2> HIDE DEF i
    <2>3. (i % Len(Modes)) + 1 \in 1..Len(Modes)
      BY <2>1, <2>2
    <2> QED
      BY <2>1, <2>3 DEF ModeSound
  <1> HIDE DEF i, mode
  <1>3. OverridesSound(o) /\ o.manual = overrides.manual
    BY <1>0, <1>2, OtherMode
  <1> HIDE DEF o
  <1>4. back = NoMode \/ ModeSound(back)
    BY <1>0, <1>1, OverridesParts
  <1>5. HierarchyInv' /\ overrides' = o
    BY <1>r, <1>1, <1>3, <1>4, CorrectionStep DEF Counted
  <1> QED
    BY <1>3, <1>5 DEF LockedStay

LEMMA TakeModeBackStep ==
  ASSUME HierarchyInv, NEW s \in Sessions, TakeModeBack(s)
  PROVE  HierarchyInv' /\ LockedStay
  <1> DEFINE w == window[s]
             o == [overrides EXCEPT !.mode = w.back]
             u == [w EXCEPT !.at = "saving", !.back = NoMode]
  <1>1. /\ w.at = "reverting" /\ overrides' = o
        /\ view' = IF o = overrides THEN view ELSE [view EXCEPT ![s] = Recomputed(candidates[s], o)]
        /\ Counted /\ Recorded(s, o, TRUE)
        /\ window' = [window EXCEPT ![s] = u]
        /\ UNCHANGED <<artifact, present, candidates, saver, file>>
    BY DEF TakeModeBack
  <1>2. OverridesSound(overrides)
    BY DEF HierarchyInv, CorrectionsSound
  <1>3. WindowSound(w) /\ count.made \in Nat /\ count.resets \in Nat
    BY DEF HierarchyInv, WindowsSound, CountsSound
  <1>4. ModeSound(w.back)
    BY <1>1, <1>3 DEF WindowSound
  <1>5. OverridesSound(o) /\ o.manual = overrides.manual
    BY <1>2, <1>4, OtherMode
  <1>6. WindowSound(u)
    <2>1. w = [at |-> w.at, root |-> w.root, then |-> w.then, back |-> w.back]
      BY <1>3 DEF WindowSound
    <2>2. u = [at |-> "saving", root |-> w.root, then |-> w.then, back |-> NoMode]
      <3> DEFINE q == [w EXCEPT !.at = "saving"]
      <3> HIDE DEF w
      <3>1. q = [at |-> "saving", root |-> w.root, then |-> w.then, back |-> w.back]
        BY <2>1
      <3> HIDE DEF q
      <3>2. [q EXCEPT !.back = NoMode] =
              [at |-> "saving", root |-> w.root, then |-> w.then, back |-> NoMode]
        BY <3>1
      <3>3. u = [q EXCEPT !.back = NoMode]
        BY Zenon DEF q
      <3> QED
        BY <3>2, <3>3
    <2> HIDE DEF u
    <2> QED
      BY <2>2 DEF WindowSound
  <1> HIDE DEF u, o
  <1>7. count' = [made |-> count.made + 1, resets |-> count.resets]
    BY <1>1 DEF Counted, HierarchyInv, CountsSound
  <1>8. DocumentsSound'
    BY <1>1 DEF HierarchyInv, DocumentsSound
  <1>9. ForestsSound'
    <2>1. ViewSound(Recomputed(candidates[s], o))
      BY <1>5, SessionProposals, RecomputedSound DEF HierarchyInv
    <2> QED
      BY <1>1, <2>1 DEF HierarchyInv, ForestsSound
  <1>10. CorrectionsSound'
    BY <1>1, <1>5 DEF HierarchyInv, CorrectionsSound
  <1>11. WindowsSound'
    <2>1. window' = [t \in Sessions |-> IF t = s THEN u ELSE window[t]]
      BY <1>1 DEF HierarchyInv, WindowsSound
    <2>2. \A t \in Sessions : WindowSound(window'[t])
      BY <1>6, <2>1 DEF HierarchyInv, WindowsSound
    <2> QED
      BY <2>1, <2>2 DEF WindowsSound
  <1>12. CountsSound' /\ ReportsSound'
    <2>1. ReportsSound'
      BY <1>1, RecordedSound
    <2> QED
      BY <1>3, <1>7, <2>1 DEF CountsSound
  <1>13. SaverSound'
    <2>1. \A x \in saver : x.by # s /\ x.by \in Sessions
      BY <1>1 DEF HierarchyInv, SaverSound
    <2>2. \A x \in saver : window'[x.by] = window[x.by]
      BY <1>1, <2>1 DEF HierarchyInv, WindowsSound
    <2> QED
      BY <1>1, <2>1, <2>2 DEF HierarchyInv, SaverSound
  <1>14. HierarchyInv'
    BY <1>8, <1>9, <1>10, <1>11, <1>12, <1>13 DEF HierarchyInv
  <1> QED
    BY <1>1, <1>5, <1>14 DEF LockedStay

-----------------------------------------------------------------------------
(* Saving, and the rest of a window's life. *)

LEMMA TakeStoreStep ==
  ASSUME HierarchyInv, NEW s \in Sessions, TakeStore(s)
  PROVE  HierarchyInv' /\ LockedStay
  <1>1. /\ saver' = {[by |-> s, overrides |-> overrides]}
        /\ window[s].at = "saving"
        /\ UNCHANGED <<artifact, overrides, present, candidates, view, window, file>>
        /\ UNCHANGED <<count, change, reported, unread>>
    BY DEF TakeStore, Snapshot, account
  <1>2. DocumentsSound' /\ ForestsSound'
    BY <1>1 DEF HierarchyInv, DocumentsSound, ForestsSound
  <1>3. CorrectionsSound'
    BY <1>1 DEF HierarchyInv, CorrectionsSound
  <1>4. WindowsSound' /\ CountsSound'
    BY <1>1 DEF HierarchyInv, WindowsSound, CountsSound
  <1>5. SaverSound'
    BY <1>1 DEF SaverSound
  <1>6. ReportsSound'
    BY <1>1, ChangesAgree DEF HierarchyInv, ReportsSound
  <1> QED
    BY <1>1, <1>2, <1>3, <1>4, <1>5, <1>6 DEF HierarchyInv, LockedStay

\* The end of a handler, whether its save succeeded or not, or of the window's use of a group.
LEMMA IdleSound ==
  ASSUME NEW root
  PROVE  WindowSound([Idle EXCEPT !.root = root]) /\ WindowSound(Idle)
  <1>1. [Idle EXCEPT !.root = root] = [at |-> "idle", root |-> root, then |-> NoRoot, back |-> NoMode]
    BY DEF Idle
  <1> QED
    BY <1>1 DEF WindowSound, Idle

LEMMA WindowChanged ==
  ASSUME WindowsSound, NEW s \in Sessions, NEW w, WindowSound(w),
         window' = [window EXCEPT ![s] = w]
  PROVE  WindowsSound'
  <1>1. window' = [t \in Sessions |-> IF t = s THEN w ELSE window[t]]
    BY DEF WindowsSound
  <1> QED
    BY <1>1 DEF WindowsSound

LEMMA ReplaceFileStep ==
  ASSUME HierarchyInv, NEW s \in Sessions, ReplaceFile(s)
  PROVE  HierarchyInv' /\ LockedStay
  <1> DEFINE w == window[s]
             u == IF w.back # NoMode THEN [w EXCEPT !.at = "reverting"] ELSE [Idle EXCEPT !.root = w.then]
  <1>1. PICK x \in saver :
          /\ x.by = s
          /\ saver' = saver \ {x}
          /\ file' = x.overrides
          /\ window' = [window EXCEPT ![s] = u]
          /\ reported' = And(IF unread THEN Surviving(reported, x.overrides) ELSE reported, change[s])
          /\ change' = [change EXCEPT ![s] = NoChange] /\ unread' = FALSE
          /\ UNCHANGED <<artifact, overrides, present, candidates, view, count>>
    BY DEF ReplaceFile
  <1>2. saver' = {}
    BY <1>1 DEF HierarchyInv, SaverSound
  <1>3. WindowSound(w)
    BY DEF HierarchyInv, WindowsSound
  <1>4. WindowSound(u)
    <2>1. CASE w.back # NoMode
      <3>1. u = [at |-> "reverting", root |-> w.root, then |-> w.then, back |-> w.back]
        BY <1>3, <2>1 DEF WindowSound
      <3> HIDE DEF u
      <3> QED
        BY <1>3, <2>1, <3>1 DEF WindowSound
    <2>2. CASE w.back = NoMode
      BY <2>2, IdleSound
    <2> QED
      BY <2>1, <2>2
  <1> HIDE DEF u, w
  <1>5. ReportsSound'
    <2> DEFINE before == IF unread THEN Surviving(reported, x.overrides) ELSE reported
    <2>1. Agrees(before, x.overrides) /\ Agrees(before, overrides)
      BY ChangesAgree DEF HierarchyInv, ReportsSound
    <2>2. Agrees(change[s], x.overrides) /\ Agrees(change[s], overrides)
      BY <1>1 DEF HierarchyInv, ReportsSound
    <2>3. reported' = And(before, change[s])
      BY <1>1
    <2> HIDE DEF before
    <2>4. Agrees(reported', x.overrides) /\ Agrees(reported', overrides)
      BY <2>1, <2>2, <2>3, ChangesAgree
    <2>5. /\ change' = [t \in Sessions |-> change'[t]]
          /\ \A t \in Sessions : Agrees(change'[t], overrides)
      BY <1>1, ChangesAgree DEF HierarchyInv, ReportsSound
    <2> QED
      BY <1>1, <1>2, <2>4, <2>5 DEF ReportsSound
  <1>6. DocumentsSound' /\ ForestsSound'
    BY <1>1 DEF HierarchyInv, DocumentsSound, ForestsSound
  <1>7. CorrectionsSound'
    BY <1>1, <1>2 DEF HierarchyInv, CorrectionsSound
  <1>8. WindowsSound'
    BY <1>1, <1>4, WindowChanged DEF HierarchyInv
  <1>9. CountsSound'
    BY <1>1 DEF HierarchyInv, CountsSound
  <1>10. SaverSound'
    BY <1>2 DEF SaverSound
  <1> QED
    BY <1>1, <1>5, <1>6, <1>7, <1>8, <1>9, <1>10 DEF HierarchyInv, LockedStay

LEMMA SaveFailsStep ==
  ASSUME HierarchyInv, NEW s \in Sessions, SaveFails(s)
  PROVE  HierarchyInv' /\ LockedStay
  <1>1. PICK x \in saver :
          /\ x.by = s
          /\ saver' = saver \ {x}
          /\ window' = [window EXCEPT ![s] = [Idle EXCEPT !.root = window[s].root]]
          /\ change' = [change EXCEPT ![s] = NoChange]
          /\ UNCHANGED <<artifact, overrides, present, candidates, view, file, count, reported, unread>>
    BY DEF SaveFails
  <1>2. saver' = {}
    BY <1>1 DEF HierarchyInv, SaverSound
  <1>3. DocumentsSound' /\ ForestsSound'
    BY <1>1 DEF HierarchyInv, DocumentsSound, ForestsSound
  <1>4. CorrectionsSound' /\ CountsSound'
    BY <1>1, <1>2 DEF HierarchyInv, CorrectionsSound, CountsSound
  <1>5. WindowsSound'
    BY <1>1, IdleSound, WindowChanged DEF HierarchyInv
  <1>6. SaverSound'
    BY <1>2 DEF SaverSound
  <1>7. ReportsSound'
    <2>1. /\ change' = [t \in Sessions |-> change'[t]]
          /\ \A t \in Sessions : Agrees(change'[t], overrides)
      BY <1>1, ChangesAgree DEF HierarchyInv, ReportsSound
    <2> QED
      BY <1>1, <1>2, <2>1 DEF HierarchyInv, ReportsSound
  <1> QED
    BY <1>1, <1>3, <1>4, <1>5, <1>6, <1>7 DEF HierarchyInv, LockedStay

\* Steps that correct, save and report nothing.
LEMMA ReportsStay ==
  ASSUME HierarchyInv, UNCHANGED <<overrides, saver, file, account>>
  PROVE  ReportsSound'
  <1>1. UNCHANGED <<overrides, saver, file, change, reported, unread>>
    BY DEF account
  <1> QED
    BY <1>1 DEF HierarchyInv, ReportsSound

\* The window of a session that waits for no save may change.
LEMMA SaverElsewhere ==
  ASSUME HierarchyInv, NEW s \in Sessions, window[s].at = "idle", NEW w,
         window' = [window EXCEPT ![s] = w], UNCHANGED saver
  PROVE  SaverSound'
  <1>1. \A x \in saver : x.by # s /\ x.by \in Sessions
    BY DEF HierarchyInv, SaverSound
  <1>2. \A x \in saver : window'[x.by] = window[x.by]
    BY <1>1 DEF HierarchyInv, WindowsSound
  <1> QED
    BY <1>1, <1>2 DEF HierarchyInv, SaverSound

\* The window of the shell turns to another root, whatever it is.
Turns ==
  /\ window[Shown].at = "idle"
  /\ \E root : window' = [window EXCEPT ![Shown].root = root]
  /\ UNCHANGED <<artifact, overrides, present, candidates, view, saver, file, account>>

LEMMA TurnsStep ==
  ASSUME HierarchyInv, Turns
  PROVE  HierarchyInv' /\ LockedStay
  <1>0. Shown \in Sessions
    BY HierarchyAssumption
  <1>1. PICK root : window' = [window EXCEPT ![Shown].root = root]
    BY DEF Turns
  <1>2. /\ window[Shown].at = "idle"
        /\ UNCHANGED <<artifact, overrides, present, candidates, view, saver, file, account>>
    BY DEF Turns
  <1> DEFINE w == window[Shown]
             u == [w EXCEPT !.root = root]
  <1>3. window' = [window EXCEPT ![Shown] = u]
    BY <1>1
  <1>4. WindowSound(w)
    BY <1>0 DEF HierarchyInv, WindowsSound
  <1>5. WindowSound(u)
    <2>1. u = [at |-> w.at, root |-> root, then |-> w.then, back |-> w.back]
      BY <1>4 DEF WindowSound
    <2> HIDE DEF u
    <2> QED
      BY <1>4, <2>1 DEF WindowSound
  <1> HIDE DEF u
  <1>6. DocumentsSound' /\ ForestsSound'
    BY <1>2 DEF HierarchyInv, DocumentsSound, ForestsSound
  <1>7. CorrectionsSound' /\ CountsSound' /\ ReportsSound'
    BY <1>2, ReportsStay DEF HierarchyInv, CorrectionsSound, CountsSound, account
  <1>8. WindowsSound'
    BY <1>0, <1>2, <1>3, <1>5, WindowChanged DEF HierarchyInv
  <1>9. SaverSound'
    BY <1>0, <1>2, <1>3, SaverElsewhere
  <1> QED
    BY <1>2, <1>6, <1>7, <1>8, <1>9 DEF HierarchyInv, LockedStay

LEMMA EditGraphStep ==
  ASSUME HierarchyInv, NEW s \in Sessions, EditGraph(s)
  PROVE  HierarchyInv' /\ LockedStay
  <1>1. PICK n \in Removable :
          LET here == IF n \in present[s] THEN present[s] \ {n} ELSE present[s] \cup {n} IN
          /\ present' = [present EXCEPT ![s] = here]
          /\ candidates' = [candidates EXCEPT ![s] = Detections[artifact][here]]
          /\ view' = [view EXCEPT ![s] = Recomputed(candidates'[s], overrides)]
    BY DEF EditGraph
  <1> DEFINE here == IF n \in present[s] THEN present[s] \ {n} ELSE present[s] \cup {n}
             found == Detections[artifact][here]
  <1>2. /\ present' = [present EXCEPT ![s] = here]
        /\ candidates' = [candidates EXCEPT ![s] = found]
        /\ view' = [view EXCEPT ![s] = Recomputed(candidates'[s], overrides)]
        /\ window[s].at = "idle" /\ window' = [window EXCEPT ![s] = Idle]
        /\ UNCHANGED <<artifact, overrides, saver, file, account>>
    BY <1>1 DEF EditGraph
  <1>3. PICK gone \in SUBSET Removable : present[s] = Nodes \ gone
    BY DEF HierarchyInv, DocumentsSound
  <1>4. \E left \in SUBSET Removable : here = Nodes \ left
    <2>1. n \in Nodes
      BY HierarchyAssumption
    <2>2. CASE n \in present[s]
      <3>1. gone \cup {n} \in SUBSET Removable /\ here = Nodes \ (gone \cup {n})
        BY <1>3, <2>2
      <3> QED
        BY <3>1
    <2>3. CASE n \notin present[s]
      <3>1. gone \ {n} \in SUBSET Removable /\ here = Nodes \ (gone \ {n})
        BY <1>3, <2>1, <2>3
      <3> QED
        BY <3>1
    <2> QED
      BY <2>2, <2>3
  <1> HIDE DEF here, found
  <1>5. DocumentsSound'
    BY <1>2, <1>4 DEF HierarchyInv, DocumentsSound, found
  <1>6. candidates'[s] = found /\ Proposals(found)
    <2>1. candidates'[s] = found /\ artifact \in Artifacts
      BY <1>2 DEF HierarchyInv, DocumentsSound
    <2> QED
      BY <1>4, <2>1, DetectorsPropose DEF found
  <1>7. ForestsSound'
    <2>1. ViewSound(Recomputed(found, overrides))
      BY <1>6, RecomputedSound DEF HierarchyInv, CorrectionsSound
    <2> QED
      BY <1>2, <1>6, <2>1 DEF HierarchyInv, ForestsSound
  <1>8. CorrectionsSound' /\ CountsSound' /\ ReportsSound'
    BY <1>2, ReportsStay DEF HierarchyInv, CorrectionsSound, CountsSound, account
  <1>9. WindowsSound'
    BY <1>2, IdleSound, WindowChanged DEF HierarchyInv
  <1>10. SaverSound'
    BY <1>2, SaverElsewhere
  <1> QED
    BY <1>2, <1>5, <1>7, <1>8, <1>9, <1>10 DEF HierarchyInv, LockedStay

LEMMA RestartStep ==
  ASSUME HierarchyInv, Restart
  PROVE  HierarchyInv' /\ LockedStay
  <1>1. /\ overrides' \in {file, Fresh}
        /\ view' = [s \in Sessions |-> Recomputed(candidates[s], overrides')]
        /\ window' = [s \in Sessions |-> Idle]
        /\ saver' = {}
        /\ change' = [s \in Sessions |-> NoChange] /\ unread' = (overrides' # file)
        /\ UNCHANGED <<artifact, present, candidates, file, count, reported>>
    BY DEF Restart
  <1>2. DocumentsSound'
    BY <1>1 DEF HierarchyInv, DocumentsSound
  <1>3. OverridesSound(overrides')
    BY <1>1, NothingCorrected DEF HierarchyInv, CorrectionsSound
  <1>4. ForestsSound'
    <2>1. \A s \in Sessions : ViewSound(Recomputed(candidates[s], overrides'))
      BY <1>3, SessionProposals, RecomputedSound DEF HierarchyInv
    <2> QED
      BY <1>1, <2>1 DEF ForestsSound
  <1>5. CorrectionsSound' /\ CountsSound' /\ SaverSound'
    BY <1>1, <1>3 DEF HierarchyInv, CorrectionsSound, CountsSound, SaverSound
  <1>6. WindowsSound'
    BY <1>1, IdleSound DEF WindowsSound
  <1>7. ReportsSound'
    BY <1>1, ChangesAgree DEF HierarchyInv, ReportsSound
  <1> QED
    BY <1>1, <1>2, <1>4, <1>5, <1>6, <1>7 DEF HierarchyInv, LockedStay

LEMMA UnchangedStep ==
  ASSUME HierarchyInv, UNCHANGED hierarchy
  PROVE  HierarchyInv' /\ LockedStay
  <1> USE DEF hierarchy, account
  <1>1. DocumentsSound' /\ ForestsSound' /\ CorrectionsSound'
    BY DEF HierarchyInv, DocumentsSound, ForestsSound, CorrectionsSound
  <1>2. WindowsSound' /\ CountsSound' /\ SaverSound'
    BY DEF HierarchyInv, WindowsSound, CountsSound, SaverSound
  <1>3. ReportsSound'
    BY ReportsStay
  <1> QED
    BY <1>1, <1>2, <1>3 DEF HierarchyInv, LockedStay

LEMMA HierarchyStep == HierarchyInv /\ [HierarchyNext]_hierarchy => HierarchyInv' /\ LockedStay
  <1> SUFFICES ASSUME HierarchyInv, [HierarchyNext]_hierarchy PROVE HierarchyInv' /\ LockedStay
    OBVIOUS
  <1>1. CASE Navigate
    BY <1>1, TurnsStep DEF Navigate, Turns
  <1>2. CASE Restart
    BY <1>2, RestartStep
  <1>3. ASSUME NEW s \in Sessions,
               \/ Group(s) \/ Split(s) \/ Merge(s) \/ Rename(s) \/ Lock(s) \/ Reject(s) \/ Reset(s)
        PROVE  HierarchyInv' /\ LockedStay
    BY <1>3, GroupStep, SplitStep, MergeStep, RenameStep, LockStep, RejectStep, ResetStep
  <1>4. ASSUME NEW s \in Sessions, CycleMode(s) \/ TakeModeBack(s)
        PROVE  HierarchyInv' /\ LockedStay
    BY <1>4, CycleModeStep, TakeModeBackStep
  <1>5. ASSUME NEW s \in Sessions, TakeStore(s) \/ ReplaceFile(s) \/ SaveFails(s) \/ EditGraph(s)
        PROVE  HierarchyInv' /\ LockedStay
    BY <1>5, TakeStoreStep, ReplaceFileStep, SaveFailsStep, EditGraphStep
  <1>6. CASE UNCHANGED hierarchy
    BY <1>6, UnchangedStep
  <1> QED
    BY <1>1, <1>2, <1>3, <1>4, <1>5, <1>6 DEF HierarchyNext

LEMMA HierarchyInvariance == HierarchySpec => []HierarchyInv
  BY HierarchyInitially, HierarchyStep, PTL DEF HierarchySpec

\* What the user drew is decided by nobody else, and is in the sidecar once reported.
LEMMA HierarchyInvImplies == HierarchyInv => CorrectionsKept
  <1> SUFFICES ASSUME HierarchyInv PROVE CorrectionsKept
    OBVIOUS
  <1>1. \A o \in {overrides, file} : OverridesSound(o)
    BY DEF HierarchyInv, CorrectionsSound
  <1>2. \A o \in {overrides, file} :
          /\ \A m \in o.manual : m.graph \in Graphs /\ m.members \subseteq Nodes /\ Cardinality(m.members) >= 2
          /\ \A m, n \in o.manual : m.id = n.id => m = n
          /\ \E j \in DOMAIN Modes : o.mode = Modes[j]
    BY <1>1 DEF OverridesSound, ManualsSound, ManualSound, ModeSound
  <1>3. Cardinality(saver) <= 1
    <2>1. saver = {} \/ \E x \in saver : saver = {x}
      <3>1. \A x, y \in saver : x = y
        BY DEF HierarchyInv, SaverSound
      <3> QED
        BY <3>1
    <2>2. Cardinality(saver) = 0 \/ Cardinality(saver) = 1
      BY <2>1, FS_EmptySet, FS_Singleton
    <2> QED
      BY <2>2
  <1>4. \A s \in Sessions : window[s].at \in {"idle", "saving", "reverting"}
    BY DEF HierarchyInv, WindowsSound, WindowSound
  <1>5. \A s \in Sessions : Laminar(view[s]) /\ \A g, h \in view[s] : g.id = h.id => g = h
    BY DEF HierarchyInv, ForestsSound, ViewSound
  <1>6. ReportedOnDisk
    BY DEF HierarchyInv, ReportsSound, ReportedOnDisk
  <1>7. HierarchyTypeOK
    BY <1>2, <1>3, <1>4, <1>5 DEF HierarchyTypeOK
  <1>8. UserWins
    <2> SUFFICES ASSUME NEW s \in Sessions, view[s] = Recomputed(candidates[s], overrides),
                        NEW m \in overrides.manual
                 PROVE  Has(view[s], m.id) \/ \E n \in overrides.manual : Partial(m.members, n.members)
      BY DEF UserWins
    <2>1. Proposals(candidates[s])
      BY SessionProposals DEF HierarchyInv
    <2> QED
      BY <1>1, <2>1, UserDecides
  <1> QED
    BY <1>6, <1>7, <1>8 DEF CorrectionsKept

\* Whatever the detectors propose and whichever sessions correct and save at the same
\* time: forests are nested and their groups have ids of their own, a group of the user
\* gives way to another group of the user only, and what was reported is in the sidecar,
\* through failing saves, restarts and starts without the sidecar, until the first save
\* after one of those.
THEOREM CorrectionsAreKept == HierarchySpec => []CorrectionsKept
  BY HierarchyInvariance, HierarchyInvImplies, PTL

\* Nothing but a reset and a restart takes a group apart that every session sees locked.
THEOREM LockedGroupsStay == HierarchySpec => LockedKept
  <1>1. HierarchyInv /\ [HierarchyNext]_hierarchy =>
          [\A m \in overrides.manual :
             (\A s \in Sessions : \E g \in view[s] : g.id = m.id /\ g.locked) =>
               \/ \E n \in overrides'.manual : n.graph = m.graph /\ n.members = m.members
               \/ count'.resets # count.resets
               \/ count'.made = count.made /\ overrides' \in {file, Fresh}]_hierarchy
    BY HierarchyStep DEF LockedStay
  <1> QED
    BY <1>1, HierarchyInvariance, PTL DEF HierarchySpec, LockedKept

-----------------------------------------------------------------------------
(* The same in the shell: its handlers only turn the window to other roots or   *)
(* run the corrections and the edits.                                           *)

LEMMA HandledTurns ==
  ASSUME NEW outcomes, Handled(outcomes)
  PROVE  Turns
  BY DEF Handled, Turns

LEMMA MovesTurn == Moves => Turns
  <1>1. Zoom => Turns
    BY HandledTurns DEF Zoom
  <1>2. ChooseDetail => Turns
    BY HandledTurns, Zenon DEF ChooseDetail
  <1>3. OpenSelected => Turns
    BY HandledTurns, Zenon DEF OpenSelected
  <1>4. BackToParent => Turns
    BY HandledTurns, Zenon DEF BackToParent
  <1>5. ClickPane => Turns
    BY HandledTurns DEF ClickPane
  <1>6. Tap => Turns
    BY HandledTurns, Zenon DEF Tap
  <1>7. SwitchGraph => Turns
    BY HandledTurns DEF SwitchGraph
  <1> QED
    BY <1>1, <1>2, <1>3, <1>4, <1>5, <1>6, <1>7 DEF Moves

LEMMA SearchTurns == Search \/ Jump => Turns
  <1>1. Search => Turns
    BY HandledTurns, Zenon DEF Search
  <1>2. Jump => Turns
    BY HandledTurns, Zenon DEF Jump
  <1> QED
    BY <1>1, <1>2

LEMMA ShellStep == HierarchyInv /\ [NavNext]_nvars => HierarchyInv' /\ LockedStay
  <1> SUFFICES ASSUME HierarchyInv, [NavNext]_nvars PROVE HierarchyInv' /\ LockedStay
    OBVIOUS
  <1>1. CASE UNCHANGED hierarchy
    BY <1>1, UnchangedStep
  <1>2. CASE Present
    BY <1>1, <1>2, Zenon DEF Present
  <1>3. CASE Moves \/ Search \/ Jump
    BY <1>3, MovesTurn, SearchTurns, TurnsStep
  <1>4. CASE ServeOther \/ WarmCapture \/ WarmLevel
    BY <1>1, <1>4, Zenon DEF ServeOther, WarmCapture, WarmLevel
  <1>5. CASE Reopen
    BY <1>5, RestartStep, Zenon DEF Reopen
  <1>6. ASSUME NEW s \in Sessions, Correction(s) PROVE HierarchyInv' /\ LockedStay
    BY <1>6, SplitStep, MergeStep, RenameStep, LockStep, RejectStep, ResetStep, CycleModeStep
       DEF Correction, Begins
  <1>7. ASSUME NEW s \in Sessions, Grouping(s) PROVE HierarchyInv' /\ LockedStay
    BY <1>7, GroupStep, Zenon DEF Grouping
  <1>8. ASSUME NEW s \in Sessions, ModeBack(s) PROVE HierarchyInv' /\ LockedStay
    BY <1>8, TakeModeBackStep, Zenon DEF ModeBack
  <1>9. ASSUME NEW s \in Sessions, Saving(s) PROVE HierarchyInv' /\ LockedStay
    BY <1>9, TakeStoreStep, Zenon DEF Saving
  <1>10. ASSUME NEW s \in Sessions, Saved(s) PROVE HierarchyInv' /\ LockedStay
    BY <1>10, ReplaceFileStep, Zenon DEF Saved
  <1>11. ASSUME NEW s \in Sessions, NotSaved(s) PROVE HierarchyInv' /\ LockedStay
    BY <1>11, SaveFailsStep, Zenon DEF NotSaved
  <1>12. ASSUME NEW s \in Sessions, Edited(s) PROVE HierarchyInv' /\ LockedStay
    BY <1>12, EditGraphStep, Zenon DEF Edited
  <1>13. CASE Shows
    BY <1>3, <1>4, <1>5, <1>6, <1>7, <1>8, <1>9, <1>10, <1>11, <1>12, <1>13 DEF Shows
  <1>14. CASE UNCHANGED nvars
    BY <1>1, <1>14 DEF nvars
  <1> QED
    BY <1>2, <1>13, <1>14 DEF NavNext

LEMMA ShellInvariance == NavSpec => []HierarchyInv
  <1>1. NavInit => HierarchyInv
    BY HierarchyInitially, Zenon DEF NavInit
  <1> QED
    BY <1>1, ShellStep, PTL DEF NavSpec

\* In the shell, whatever it shows, searches and warms meanwhile.
THEOREM ShellKeepsCorrections == NavSpec => []CorrectionsKept
  BY ShellInvariance, HierarchyInvImplies, PTL

\* And no handler of the shell but the reset takes a locked group apart.
THEOREM ShellKeepsLocked == NavSpec => LockedKept
  <1>1. HierarchyInv /\ [NavNext]_nvars =>
          [\A m \in overrides.manual :
             (\A s \in Sessions : \E g \in view[s] : g.id = m.id /\ g.locked) =>
               \/ \E n \in overrides'.manual : n.graph = m.graph /\ n.members = m.members
               \/ count'.resets # count.resets
               \/ count'.made = count.made /\ overrides' \in {file, Fresh}]_hierarchy
    BY ShellStep DEF LockedStay
  <1> QED
    BY <1>1, ShellInvariance, PTL DEF NavSpec, LockedKept
=============================================================================
