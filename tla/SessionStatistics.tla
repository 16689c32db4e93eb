-------------------------- MODULE SessionStatistics --------------------------
(***************************************************************************)
(* Tensor statistics of one session (application/session.py) streamed by   *)
(* background passes over a revision chain that keeps changing, and their  *)
(* sidecar (application/statistics_store.py), which every session of the   *)
(* same bytes reads once and replaces as a whole.                          *)
(*                                                                         *)
(* A pass captures the revision under the session's locks, then reads its  *)
(* tensor chunk by chunk with the controller's lock held for one read at a *)
(* time, then publishes under the session's lock.  Statistics are          *)
(* abstracted to what they were computed from: the payload each chunk was  *)
(* read from.                                                              *)
(***************************************************************************)
EXTENDS RevisionChain

CONSTANTS
  Passes,         \* statistics jobs
  Reads,          \* chunk reads of one pass
  Sessions,       \* sessions of the same artifact, in this process or in others
  Own,            \* the one among them whose passes are modelled
  CacheSize,      \* entries the session's cache of edited statistics holds
  MaxRevisions,   \* bound: longest chain
  Days            \* for each behaviour: what the user does to the chain while passes run,
                  \* and the sessions he has

ASSUME StatisticsAssumption ==
  /\ Tensors # {} /\ Own \in Sessions
  /\ Reads \in Nat \ {0} /\ CacheSize \in Nat \ {0} /\ MaxRevisions \in Nat
  /\ \A d \in Days :
       d.moves \subseteq {"commit", "undo", "redo", "discard"} /\ Own \in d.sessions

VARIABLES
  chain,        \* the session's revision chain
  pass,         \* per job: what it captured and what it has read
  editedStats,  \* the session's statistics of edited tensors, by revision and tensor
  loaded,       \* sessions that have read the sidecar
  known,        \* each session's statistics of the source artifact, by tensor
  sidecar,      \* the statistics file of the artifact
  missed,       \* history: per session, statistics its load did not return or that
                \* another session has saved since
  day,          \* bound: which moves and sessions this behaviour has
  reported      \* history: tensors whose statistics were reported as computed and saved,
                \* less those dropped since by the save of a session that missed them

stored == <<loaded, known, sidecar, missed, reported>>
vars == <<chain, pass, editedStats, stored, day>>

None == <<>>
NoStatistics == [t \in Tensors |-> None]
Summary == UNION {[1..n -> Values] : n \in 0..Reads}
IdlePass == [busy |-> FALSE, tensor |-> CHOOSE t \in Tensors : TRUE,
             rev |-> BASE_PARENT, edited |-> FALSE, seen |-> None, back |-> FALSE]

Init ==
  /\ chain = EmptyChain
  /\ pass = [p \in Passes |-> IdlePass]
  /\ editedStats = {}
  /\ loaded = {}
  /\ known = [s \in Sessions |-> NoStatistics]
  /\ sidecar = NoStatistics
  /\ missed = [s \in Sessions |-> {}] /\ reported = {}
  /\ day \in Days

-----------------------------------------------------------------------------
(* The user, under the controller's lock. *)

\* `back', a history field: the chain has come back to the revision a pass captured.
Changed(c) ==
  /\ chain' = c
  /\ pass' = [p \in Passes |->
       [pass[p] EXCEPT !.back = @ \/ (pass[p].edited /\ CurrentRevisionId(c) = pass[p].rev)]]
  /\ UNCHANGED <<editedStats, stored>>

Commit ==
  /\ "commit" \in day.moves /\ Len(chain.revs) < MaxRevisions
  /\ \E t \in Tensors : \E v \in Values :
       /\ v # Read(chain, t)
       /\ Changed(Extend(chain, <<[tensor |-> t, before |-> Read(chain, t), after |-> v]>>))

Undo    == "undo" \in day.moves /\ CanUndo(chain) /\ Changed(StepBack(chain))
Redo    == "redo" \in day.moves /\ CanRedo(chain) /\ Changed(StepForward(chain))
Discard == "discard" \in day.moves /\ chain # EmptyChain /\ Changed(EmptyChain)

-----------------------------------------------------------------------------
(* A pass: compute_statistics. *)

ServesEditedBytes(t) == Writes(chain.revs, chain.cursor, t) # {}

Cached(t) ==
  IF ServesEditedBytes(t)
  THEN \E e \in editedStats : e.rev = CurrentRevisionId(chain) /\ e.tensor = t
  ELSE known[Own][t] # None

\* The revision, whether the tensor's bytes come from the chain, and the cache
\* are looked at in one critical section; the cache of source statistics is what
\* the session has loaded, and a pass over the source has no use for the revision.
BeginPass(p, t) ==
  /\ ~pass[p].busy
  /\ ~ServesEditedBytes(t) => Own \in loaded
  /\ ~Cached(t)
  /\ pass' = [pass EXCEPT ![p] =
       [busy |-> TRUE, tensor |-> t, edited |-> ServesEditedBytes(t),
        rev |-> IF ServesEditedBytes(t) THEN CurrentRevisionId(chain) ELSE BASE_PARENT,
        seen |-> None, back |-> FALSE]]
  /\ UNCHANGED <<chain, editedStats, stored>>

\* The chain serves whatever is current at this read; the store serves the
\* source artifact.
ReadChunk(p) ==
  /\ pass[p].busy /\ Len(pass[p].seen) < Reads
  /\ pass' = [pass EXCEPT ![p].seen =
       Append(@, IF pass[p].edited THEN Read(chain, pass[p].tensor) ELSE BaseValue)]
  /\ UNCHANGED <<chain, editedStats, stored>>

Finished(p) == pass[p].busy /\ Len(pass[p].seen) = Reads

Entry(p) == [rev  |-> pass[p].rev, tensor |-> pass[p].tensor,
             seen |-> pass[p].seen, back |-> pass[p].back]

\* The cache keeps CacheSize entries; which ones an eviction leaves is not modelled.
Put(S, e) ==
  LET others == {d \in S : d.rev # e.rev \/ d.tensor # e.tensor}
  IN  {K \cup {e} : K \in {L \in SUBSET others :
        Cardinality(L) = IF Cardinality(others) < CacheSize THEN Cardinality(others)
                         ELSE CacheSize - 1}}

\* A mutant: the revision is not looked at again.
PublishEditedUnchecked(p) ==
  /\ Finished(p) /\ pass[p].edited
  /\ pass' = [pass EXCEPT ![p] = IdlePass]
  /\ editedStats' \in Put(editedStats, Entry(p))
  /\ UNCHANGED <<chain, stored>>

\* A pass whose revision is no longer current raises and publishes nothing.
PublishEdited(p) ==
  /\ Finished(p) /\ pass[p].edited
  /\ pass' = [pass EXCEPT ![p] = IdlePass]
  /\ IF CurrentRevisionId(chain) = pass[p].rev
     THEN editedStats' \in Put(editedStats, Entry(p))
     ELSE UNCHANGED editedStats
  /\ UNCHANGED <<chain, stored>>

Entries(statistics) == {t \in Tensors : statistics[t] # None}

\* What q has missed when s has saved these entries.
Misses(q, s, entries) ==
  IF q = s \/ q \notin loaded THEN {} ELSE missed[q] \cup (entries \ Entries(known[q]))

\* A mutant: the file gets the one new entry.
KeepAlone(s, t, seen) ==
  /\ known' = [known EXCEPT ![s][t] = seen]
  /\ sidecar' = [NoStatistics EXCEPT ![t] = seen]
  /\ reported' = (reported \cup {t}) \ (missed[s] \ Entries(known'[s]))
  /\ missed' = [q \in Sessions |-> Misses(q, s, Entries(known'[s]))]
  /\ UNCHANGED loaded

\* Under the statistics lock the entry joins the session's dictionary and the
\* whole dictionary replaces the file.  When the save fails the entry stays in
\* memory and the job fails.
Keep(s, t, seen) ==
  /\ known' = [known EXCEPT ![s][t] = seen]
  /\ \/ /\ sidecar' = known'[s]
        /\ reported' = (reported \cup {t}) \ (missed[s] \ Entries(sidecar'))
        /\ missed' = [q \in Sessions |-> Misses(q, s, Entries(sidecar'))]
     \/ UNCHANGED <<sidecar, reported, missed>>
  /\ UNCHANGED loaded

PublishBase(p) ==
  /\ Finished(p) /\ ~pass[p].edited
  /\ pass' = [pass EXCEPT ![p] = IdlePass]
  /\ Keep(Own, pass[p].tensor, pass[p].seen)
  /\ UNCHANGED <<chain, editedStats>>

\* Cancelled at a checkpoint, or a read failed.
AbandonPass(p) ==
  /\ pass[p].busy
  /\ pass' = [pass EXCEPT ![p] = IdlePass]
  /\ UNCHANGED <<chain, editedStats, stored>>

Pass(p) ==
  \/ \E t \in Tensors : BeginPass(p, t)
  \/ ReadChunk(p) \/ PublishEdited(p) \/ PublishBase(p) \/ AbandonPass(p)

-----------------------------------------------------------------------------
(* The sidecar, as every session of the artifact uses it. *)

\* The first question for statistics reads the file.  A file that cannot be read or is
\* of another version is as good as none, an entry that does not parse is left out.
Load(s) ==
  /\ s \notin loaded
  /\ loaded' = loaded \cup {s}
  /\ \E K \in SUBSET Entries(sidecar) :
       /\ known' = [known EXCEPT ![s] = [t \in Tensors |-> IF t \in K THEN sidecar[t] ELSE None]]
       /\ missed' = [missed EXCEPT ![s] = Entries(sidecar) \ K]
  /\ UNCHANGED <<chain, pass, editedStats, sidecar, reported>>

\* Another session has finished a pass over the same source bytes.
PublishElsewhere(s, t) ==
  /\ s \in loaded \ {Own} /\ known[s][t] = None
  /\ Keep(s, t, [i \in 1..Reads |-> BaseValue])
  /\ UNCHANGED <<chain, pass, editedStats>>

\* A session ends, at any point; the one that takes its place recovers the chain and
\* has not looked at the file.
Reopen(s) ==
  /\ loaded' = loaded \ {s}
  /\ known' = [known EXCEPT ![s] = NoStatistics]
  /\ missed' = [missed EXCEPT ![s] = {}]
  /\ IF s = Own THEN pass' = [p \in Passes |-> IdlePass] /\ editedStats' = {}
     ELSE UNCHANGED <<pass, editedStats>>
  /\ UNCHANGED <<chain, sidecar, reported>>

Session(s) == Load(s) \/ Reopen(s) \/ \E t \in Tensors : PublishElsewhere(s, t)

-----------------------------------------------------------------------------
Next ==
  /\ \/ Commit \/ Undo \/ Redo \/ Discard
     \/ \E p \in Passes : Pass(p)
     \/ \E s \in Sessions : s \in day.sessions /\ Session(s)
  /\ UNCHANGED day

Spec == Init /\ [][Next]_vars

-----------------------------------------------------------------------------
(* Properties. *)

TypeOK ==
  /\ chain \in Chain
  /\ pass \in [Passes -> [busy : BOOLEAN, tensor : Tensors, rev : RevId,
                          edited : BOOLEAN, seen : Summary, back : BOOLEAN]]
  /\ \A e \in editedStats : e \in [rev : RevId, tensor : Tensors, seen : Summary, back : BOOLEAN]
  /\ loaded \subseteq Sessions /\ known \in [Sessions -> [Tensors -> Summary]]
  /\ sidecar \in [Tensors -> Summary] /\ reported \subseteq Tensors
  /\ missed \in [Sessions -> SUBSET Tensors]

\* The check of the revision id at the end of a pass catches every change of the chain
\* but one: only a history that left the captured revision and came back to it while
\* the pass was running can leave chunks of another revision in the cache.
OnlyReturnsTear ==
  \A e \in editedStats :
    ~e.back => \A i \in DOMAIN e.seen : e.seen[i] = PayloadAt(e.rev, e.tensor)

\* Statistics cached under a revision describe that revision: every chunk they were
\* computed from was read from the payload the tensor has there, however the chain
\* moved while the pass was running.
StatisticsFaithful ==
  \A e \in editedStats : \A i \in DOMAIN e.seen : e.seen[i] = PayloadAt(e.rev, e.tensor)

\* The statistics shared by content hash never come from an edit, in memory or on disk,
\* even when an edit is committed while the pass over the source bytes runs.
SharedStatisticsPure ==
  \A t \in Tensors : \A summary \in {known[s][t] : s \in Sessions} \cup {sidecar[t]} :
    \A i \in DOMAIN summary : summary[i] = BaseValue

\* Statistics that were reported as computed are on disk, however passes and sessions
\* interleave, fail to save, or are cut short.  The one way they are dropped is by the
\* save of a session that missed them: its load did not return them, or another session
\* saved them later.
ReportedStatisticsKept == reported \subseteq Entries(sidecar)

\* What the caches of compute_statistics() may hold: statistics of one revision, except
\* for a revision that was left and came back, and source statistics free of any edit.
StatisticsSound == TypeOK /\ OnlyReturnsTear /\ SharedStatisticsPure
==============================================================================
