-------------------------- MODULE EditingController --------------------------
(***************************************************************************)
(* The editing surface of the open sessions of one artifact                *)
(* (application/editing.py) over their shared revision sidecar             *)
(* (application/edits_store.py).                                           *)
(*                                                                         *)
(* Every controller operation runs under the controller's lock from its    *)
(* first check to the end of the sidecar save, so an operation is two or   *)
(* three steps of one session: the chain changes in memory ("saving"),     *)
(* a uniquely named partial file is written ("writing"), and os.replace    *)
(* makes it the sidecar.  The process may die between any two of them.     *)
(* Sessions share the file, and a lock of the store orders their writes.   *)
(***************************************************************************)
EXTENDS RevisionChain

CONSTANTS
  Sessions,        \* sessions that may hold this artifact open
  MaxRevisions,    \* bound: longest chain
  MaxBatch,        \* bound: commands in one revision
  MaxFaults,       \* bound: environment faults in a behaviour
  Faults           \* which faults the environment may cause

FaultKinds == {"save", "unlink", "damage", "mismatch", "rename", "transient"}

ASSUME EditingAssumption ==
  /\ MaxRevisions \in Nat /\ MaxBatch \in Nat \ {0} /\ MaxFaults \in Nat
  /\ Faults \subseteq FaultKinds

VARIABLES
  status,    \* per session: closed, idle, saving or writing
  chain,     \* per session: the chain in memory
  pending,   \* per session: the prepared transaction the caller holds, if any
  sidecar,   \* the revision file of the artifact
  corrupt,   \* the file quarantine renames the sidecar to
  faults,    \* faults so far
  acked,     \* history: the chain of the last operation reported as persisted
  basis,     \* history, per session: the file content its chain descends from
  skipped    \* history: sessions that began at the base in front of a file left in place

vars == <<status, chain, pending, sidecar, corrupt, faults, acked, basis, skipped>>

-----------------------------------------------------------------------------
(* Files.  A damaged sidecar still holds its chain, in a form load() rejects. *)

Absent == [state |-> "absent", chain |-> EmptyChain]
Good(c) == [state |-> "good", chain |-> c]
File == [state : {"absent", "good", "damaged"}, chain : Chain]

\* A transaction whose validation found errors is refused by commit() for good,
\* and so is no transaction.
NoTx == [base |-> BASE_PARENT, commands |-> <<>>]
Batches == UNION {[1..n -> Command] : n \in 1..MaxBatch}
Transaction == [base : RevId, commands : Batches \cup {<<>>}]

Fault(kind) == kind \in Faults /\ faults < MaxFaults /\ faults' = faults + 1

Idle(s) == status[s] = "idle"

Init ==
  /\ status  = [s \in Sessions |-> "closed"]
  /\ chain   = [s \in Sessions |-> EmptyChain]
  /\ pending = [s \in Sessions |-> NoTx]
  /\ sidecar = Absent
  /\ corrupt = Absent
  /\ faults  = 0
  /\ acked   = EmptyChain
  /\ basis   = [s \in Sessions |-> EmptyChain]
  /\ skipped = {}

-----------------------------------------------------------------------------
(* Opening: sidecar.load, then chain.restore. *)

Started(s, c) ==
  /\ status[s] = "closed"
  /\ status' = [status EXCEPT ![s] = "idle"]
  /\ chain'  = [chain EXCEPT ![s] = c]
  /\ UNCHANGED <<pending, acked>>

OpenFresh(s) ==
  /\ sidecar.state = "absent"
  /\ Started(s, EmptyChain)
  /\ basis' = [basis EXCEPT ![s] = EmptyChain]
  /\ UNCHANGED <<sidecar, corrupt, faults>>
  /\ skipped' = skipped \ {s}

\* A mutant: the quarantine forgets to move the file.
OpenLeaving(s) ==
  /\ sidecar.state = "damaged"
  /\ Started(s, EmptyChain)
  /\ basis' = [basis EXCEPT ![s] = EmptyChain]
  /\ UNCHANGED <<sidecar, corrupt, faults>>
  /\ skipped' = skipped \ {s}

OpenRecover(s) ==
  /\ sidecar.state = "good" /\ Restorable(sidecar.chain)
  /\ Started(s, sidecar.chain)
  /\ basis' = [basis EXCEPT ![s] = sidecar.chain]
  /\ UNCHANGED <<sidecar, corrupt, faults>>
  /\ skipped' = skipped \ {s}

\* load() cannot parse the file, or restore() finds that it does not replay
\* on the artifact (for a chain that would, only after the artifact's data
\* changed underneath).  The file is renamed, replacing an earlier one.
Rejected == \/ sidecar.state = "damaged" /\ UNCHANGED faults
            \/ sidecar.state = "good" /\ ~Restorable(sidecar.chain) /\ UNCHANGED faults
            \/ sidecar.state = "good" /\ Restorable(sidecar.chain) /\ Fault("mismatch")

OpenQuarantine(s) ==
  /\ Rejected
  /\ Started(s, EmptyChain)
  /\ corrupt' = sidecar
  /\ sidecar' = Absent
  /\ basis'   = [basis EXCEPT ![s] = EmptyChain]
  /\ skipped' = skipped \ {s}

\* Both renames of the quarantine fail: nothing is raised, the file stays.
OpenQuarantineFails(s) ==
  /\ sidecar.state = "damaged" \/ (sidecar.state = "good" /\ ~Restorable(sidecar.chain))
  /\ Fault("rename")
  /\ Started(s, EmptyChain)
  /\ basis' = [basis EXCEPT ![s] = EmptyChain]
  /\ UNCHANGED <<sidecar, corrupt>>
  /\ skipped' = skipped \cup {s}

\* The file cannot be read right now, or the source artifact cannot: the
\* session starts at the base and the file is left in place.
OpenTransient(s) ==
  /\ sidecar.state # "absent"
  /\ Fault("transient")
  /\ Started(s, EmptyChain)
  /\ basis' = [basis EXCEPT ![s] = EmptyChain]
  /\ UNCHANGED <<sidecar, corrupt>>
  /\ skipped' = skipped \cup {s}

Open(s) ==
  \/ OpenFresh(s) \/ OpenRecover(s) \/ OpenQuarantine(s)
  \/ OpenQuarantineFails(s) \/ OpenTransient(s)

-----------------------------------------------------------------------------
(* Prepared transactions. *)

\* The batch a request turns into: each write's `before' is what the batch
\* itself has made of its tensor by then.
BatchFor(c, writes) ==
  [i \in DOMAIN writes |->
     [tensor |-> writes[i].tensor, before |-> BatchView(c, writes, i), after |-> writes[i].after]]

Writing == [tensor : Tensors, after : Values]

\* Validation never mutates the chain.  A request that changes nothing is one of
\* its errors.
Prepare(s) ==
  /\ Idle(s)
  /\ \/ pending' = [pending EXCEPT ![s] = NoTx]
     \/ \E n \in 1..MaxBatch : \E writes \in [1..n -> Writing] :
          LET batch == BatchFor(chain[s], writes) IN
          /\ \A i \in 1..n : batch[i].after # batch[i].before
          /\ pending' = [pending EXCEPT ![s] = [base     |-> CurrentRevisionId(chain[s]),
                                                commands |-> batch]]
  /\ UNCHANGED <<status, chain, sidecar, corrupt, faults, acked, basis, skipped>>

-----------------------------------------------------------------------------
(* Mutations.  Each leaves the session "saving": _persist always follows. *)

Mutated(s, c) ==
  /\ status' = [status EXCEPT ![s] = "saving"]
  /\ chain'  = [chain EXCEPT ![s] = c]
  /\ UNCHANGED <<sidecar, corrupt, faults, acked, basis, skipped>>

\* A mutant: neither the base revision nor the bytes are looked at again.
CommitUnchecked(s) ==
  LET tx == pending[s] IN
  /\ Idle(s) /\ Len(chain[s].revs) < MaxRevisions
  /\ tx.commands # <<>>
  /\ Mutated(s, Extend(chain[s], tx.commands))
  /\ UNCHANGED pending

\* commit() and commit_transformation(): the caller keeps its transaction and
\* may present it again.
Commit(s) ==
  LET tx == pending[s] IN
  /\ Idle(s) /\ Len(chain[s].revs) < MaxRevisions
  /\ tx.base = CurrentRevisionId(chain[s])
  /\ tx.commands # <<>>
  /\ PreconditionsHold(chain[s], tx.commands)
  /\ Mutated(s, Extend(chain[s], tx.commands))
  /\ UNCHANGED pending

ReplaceBytes(s) ==
  /\ Idle(s) /\ Len(chain[s].revs) < MaxRevisions
  /\ \E t \in Tensors : \E v \in Values :
       /\ v # Read(chain[s], t)
       /\ Mutated(s, Extend(chain[s],
                            <<[tensor |-> t, before |-> Read(chain[s], t), after |-> v]>>))
  /\ UNCHANGED pending

Undo(s) ==
  /\ Idle(s) /\ CanUndo(chain[s])
  /\ Mutated(s, StepBack(chain[s]))
  /\ UNCHANGED pending

Redo(s) ==
  /\ Idle(s) /\ CanRedo(chain[s])
  /\ Mutated(s, StepForward(chain[s]))
  /\ UNCHANGED pending

\* The chain is replaced before the sidecar is unlinked.
DiscardAll(s) ==
  /\ Idle(s)
  /\ chain' = [chain EXCEPT ![s] = EmptyChain]
  /\ \/ /\ sidecar' = Absent
        /\ acked' = EmptyChain
        /\ basis' = [basis EXCEPT ![s] = EmptyChain]
        /\ skipped' = skipped \ {s}
        /\ UNCHANGED faults
     \/ /\ sidecar.state # "absent" /\ Fault("unlink")
        /\ UNCHANGED <<sidecar, acked, basis, skipped>>
  /\ UNCHANGED <<status, pending, corrupt>>

-----------------------------------------------------------------------------
(* Persistence. *)

\* A mutant: the sidecar itself is opened for writing.
BeginWriteInPlace(s) ==
  /\ status[s] = "saving"
  /\ \A r \in Sessions : status[r] # "writing"
  /\ status' = [status EXCEPT ![s] = "writing"]
  /\ sidecar' = [state |-> "damaged", chain |-> EmptyChain]
  /\ UNCHANGED <<chain, pending, corrupt, faults, acked, basis, skipped>>

BeginWrite(s) ==
  /\ status[s] = "saving"
  /\ \A r \in Sessions : status[r] # "writing"
  /\ status' = [status EXCEPT ![s] = "writing"]
  /\ UNCHANGED <<chain, pending, sidecar, corrupt, faults, acked, basis, skipped>>

\* A mutant: only the revisions in effect are written.
ReplaceFileAppliedOnly(s) ==
  /\ status[s] = "writing"
  /\ status'  = [status EXCEPT ![s] = "idle"]
  /\ sidecar' = Good([revs |-> AppliedRevisions(chain[s]), cursor |-> chain[s].cursor])
  /\ acked'   = chain[s]
  /\ basis'   = [basis EXCEPT ![s] = chain[s]]
  /\ UNCHANGED <<chain, pending, corrupt, faults>>
  /\ skipped' = skipped \ {s}

ReplaceFile(s) ==
  /\ status[s] = "writing"
  /\ status'  = [status EXCEPT ![s] = "idle"]
  /\ sidecar' = Good(chain[s])
  /\ acked'   = chain[s]
  /\ basis'   = [basis EXCEPT ![s] = chain[s]]
  /\ UNCHANGED <<chain, pending, corrupt, faults>>
  /\ skipped' = skipped \ {s}

\* SidecarPersistenceError: the mutation stays, the caller is warned.
SaveFails(s) ==
  /\ status[s] = "writing"
  /\ Fault("save")
  /\ status' = [status EXCEPT ![s] = "idle"]
  /\ UNCHANGED <<chain, pending, sidecar, corrupt, acked, basis, skipped>>

-----------------------------------------------------------------------------
(* Ends. *)

Ended(S) ==
  /\ status'  = [s \in Sessions |-> IF s \in S THEN "closed" ELSE status[s]]
  /\ chain'   = [s \in Sessions |-> IF s \in S THEN EmptyChain ELSE chain[s]]
  /\ pending' = [s \in Sessions |-> IF s \in S THEN NoTx ELSE pending[s]]
  /\ UNCHANGED <<sidecar, corrupt, acked, basis, skipped>>

Close(s) == Idle(s) /\ Ended({s}) /\ UNCHANGED faults

\* The process dies, wherever its sessions are.
Crash == (\E s \in Sessions : status[s] # "closed") /\ Ended(Sessions) /\ UNCHANGED faults

\* Between runs the sidecar is truncated, or written by another version.
Damage ==
  /\ \A s \in Sessions : status[s] = "closed"
  /\ sidecar.state = "good" /\ Fault("damage")
  /\ sidecar' = [sidecar EXCEPT !.state = "damaged"]
  /\ UNCHANGED <<status, chain, pending, corrupt, acked, basis, skipped>>

Next ==
  \/ \E s \in Sessions :
       \/ Open(s) \/ Prepare(s) \/ Commit(s) \/ ReplaceBytes(s) \/ Undo(s) \/ Redo(s)
       \/ DiscardAll(s) \/ BeginWrite(s) \/ ReplaceFile(s) \/ SaveFails(s) \/ Close(s)
  \/ Crash
  \/ Damage

Spec == Init /\ [][Next]_vars

-----------------------------------------------------------------------------
(* Properties. *)

TypeOK ==
  /\ status  \in [Sessions -> {"closed", "idle", "saving", "writing"}]
  /\ chain   \in [Sessions -> Chain]
  /\ pending \in [Sessions -> Transaction]
  /\ sidecar \in File /\ corrupt \in File
  /\ faults  \in 0..MaxFaults
  /\ acked   \in Chain
  /\ basis   \in [Sessions -> Chain]
  /\ skipped \subseteq Sessions

\* Every chain there is: in memory, in the files, in the history variables.
Chains == {chain[s] : s \in Sessions} \cup {sidecar.chain, corrupt.chain}

\* Whatever is opened, committed, undone, redone, discarded, saved, lost or
\* quarantined, in any number of sessions over one file: the cursor stays inside
\* the chain, each revision's parent is the id of the one before it and each id
\* is the hash of its own content, so restore() finds no broken link.
ChainsLinked == \A c \in Chains : WellLinked(c)

\* A chain the controller accepted is one restore() accepts: each command's
\* `before' is what its tensor held just before that command's revision.
HistoryReplays == \A c \in Chains : Replays(c.revs)

\* A revision id names one state of the artifact, across sessions, redo tails and
\* files: scene caches, prepared transactions and the statistics cache are all
\* keyed by it.
IdDeterminesContents ==
  \A c, d \in Chains : \A i \in DOMAIN c.revs : \A j \in DOMAIN d.revs :
    c.revs[i].id = d.revs[j].id =>
      \A t \in Tensors : ReadAt(c.revs, i, t) = ReadAt(d.revs, j, t)

\* The base-revision check of commit() is enough: however far the chain moved
\* since a transaction was prepared, if it is back at that revision, every byte
\* the transaction expects is there.
BaseCheckSuffices ==
  \A s \in Sessions :
    pending[s].base = CurrentRevisionId(chain[s])
      => PreconditionsHold(chain[s], pending[s].commands)

\* A process crash at any moment, in the middle of a save too, leaves the last
\* history that was reported as persisted on disk: as the sidecar, or set aside.
AckedOnDisk ==
  acked # EmptyChain => acked \in {sidecar.chain, corrupt.chain}

\* A save only ever replaces a file that its own session loaded or wrote: no
\* committed history disappears behind one that never contained it.  (Not so: the
\* README says when.)
NoForeignOverwrite ==
  \A s \in Sessions : status[s] = "writing" => sidecar.chain = basis[s]

\* The only way a save comes to replace a file that its own session neither loaded
\* nor wrote is that the file could not be read, or not be moved aside, when the
\* session began: nothing else ever lets committed history disappear.
OnlySkippedReplaced ==
  \A s \in Sessions \ skipped : status[s] = "writing" => sidecar.chain = basis[s]

\* A sidecar that was quarantined is preserved for inspection.  (Not if a second one
\* is quarantined after it.)
QuarantinePreserved == [][corrupt = Absent]_corrupt

\* What an edit session stands on: its chains and the chains on disk are linked, named by
\* their content and accepted again by restore(), and the comparison of the base revision
\* in commit() is enough to know that every byte the transaction expects is there.
ChainsSound ==
  TypeOK /\ ChainsLinked /\ IdDeterminesContents /\ HistoryReplays /\ BaseCheckSuffices
=============================================================================
