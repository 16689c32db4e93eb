---------------------------- MODULE EditingProofs ----------------------------
(***************************************************************************)
(* The editing surface's safety, for any number of sessions, any bounds    *)
(* and any faults of the environment.                                      *)
(*                                                                         *)
(* ChainsLinked alone is not inductive: that ids are prefixes of one       *)
(* history has to be said of every revision of a chain at once (Spelled),  *)
(* and what a held transaction expects has to be tied to the revision it   *)
(* was prepared at (PendingExact).                                         *)
(*                                                                         *)
(* For one session, every step is then a step of DurableHistory or leaves  *)
(* it alone: the operations on chains are operations on the sequences of   *)
(* edits in effect and undone, and a file that was damaged or cannot be    *)
(* replayed is there only where the environment damages files.             *)
(***************************************************************************)
EXTENDS EditingRefinement, RevisionChainTheorems

\* All chains, in memory and in files, are well typed and spelled.
AllSound ==
  /\ \A s \in Sessions : Sound(chain[s])
  /\ Sound(sidecar.chain)
  /\ Sound(corrupt.chain)

\* A batch expects what the artifact holds at revision rev and the batch itself has
\* made of it.
ExactAt(rev, commands) ==
  \A i \in 1..Len(commands) :
    commands[i].before =
      LET ws == BatchWrites(1, commands, i - 1, commands[i].tensor)
      IN  IF ws = {} THEN PayloadAt(rev, commands[i].tensor) ELSE LastOf(ws)[3]

PendingExact == \A s \in Sessions : ExactAt(pending[s].base, pending[s].commands)

\* The acknowledged history is the sidecar, until a quarantine has moved it.
AckedKept ==
  acked = EmptyChain \/ acked = sidecar.chain \/ (sidecar = Absent /\ acked = corrupt.chain)

\* All chains are ones restore() accepts.
AllReplay ==
  /\ \A s \in Sessions : Replays(chain[s].revs)
  /\ Replays(sidecar.chain.revs)
  /\ Replays(corrupt.chain.revs)

IInv == TypeOK /\ AllSound /\ PendingExact /\ AckedKept

-----------------------------------------------------------------------------
(* Types. *)

\* A sound chain is a chain.
LEMMA SoundIsChain == \A c : Sound(c) => c \in Chain
  BY DEF Sound

\* The empty chain is a chain.
LEMMA EmptyIsChain == EmptyChain \in Chain
  BY EmptySound, SoundIsChain

\* The empty chain replays.
LEMMA EmptyReplays == Replays(EmptyChain.revs)
  BY DEF Replays, EmptyChain

\* No transaction is a transaction.
LEMMA NoTxTyped == NoTx \in Transaction
  BY DEF NoTx, Transaction, BASE_PARENT, RevId

\* No transaction expects nothing.
LEMMA NoTxExact == NoTx.commands = <<>> /\ \A rev : ExactAt(rev, <<>>)
  BY DEF NoTx, ExactAt

\* A sound chain reads as payloads.
LEMMA ReadOfSound == ASSUME NEW c, Sound(c), NEW t PROVE Read(c, t) \in Values
  BY ReadTyped DEF Sound, Chain, WellLinked, Read

\* A batch of bounded size is a batch.
LEMMA BatchesAreBatches == \A b \in Batches : b \in Batch
  <1> SUFFICES ASSUME NEW n \in 1..MaxBatch, NEW b \in [1..n -> Command] PROVE b \in Batch
    BY DEF Batches
  <1> n \in Nat \ {0}
    BY EditingAssumption
  <1> QED
    BY DEF Batch

\* What the earlier writes of a request leave in a tensor is a payload.
LEMMA BatchViewTyped ==
  ASSUME NEW c, Sound(c), NEW n \in Nat, NEW writes \in [1..n -> Writing], NEW i \in 1..n
  PROVE  BatchView(c, writes, i) \in Values
  <1> DEFINE ws == BatchWrites(1, writes, i - 1, writes[i].tensor)
  <1>1. \A w \in ws : w[1] = 1 /\ w[2] \in 1..(i - 1) /\ w[3] \in Values
    BY DEF BatchWrites, Writing
  <1>2. CASE ws = {}
    BY <1>2, ReadOfSound DEF BatchView
  <1>3. CASE ws # {}
    <2> HIDE DEF ws
    <2>1. i \in Nat /\ i - 1 \in Nat
      OBVIOUS
    <2>2. \A w \in ws : w[1] \in 0..1 /\ w[2] \in Nat
      BY <1>1, <2>1
    <2>3. \A k \in 0..1 : \E m \in Nat : \A w \in ws : w[1] = k => w[2] \in 0..m
      BY <1>1, <2>1
    <2>4. LastOf(ws) \in ws
      BY <1>3, <2>2, <2>3, LastIsMember
    <2> QED
      BY <1>1, <1>3, <2>4 DEF BatchView, ws
  <1> QED
    BY <1>2, <1>3

\* A prepared batch is a batch.
LEMMA BatchForTyped ==
  ASSUME NEW c, Sound(c), NEW n \in 1..MaxBatch, NEW writes \in [1..n -> Writing]
  PROVE  BatchFor(c, writes) \in Batches
  <1> n \in Nat
    BY EditingAssumption
  <1>1. \A i \in 1..n : BatchView(c, writes, i) \in Values
    BY BatchViewTyped
  <1>2. BatchFor(c, writes) \in [1..n -> Command]
    BY <1>1 DEF BatchFor, Command, Writing
  <1> QED
    BY <1>2 DEF Batches

\* A batch prepared at a chain's current revision expects what that revision holds.
LEMMA BatchForExact ==
  ASSUME NEW c, Sound(c), NEW n \in Nat, NEW writes \in [1..n -> Writing]
  PROVE  ExactAt(CurrentRevisionId(c), BatchFor(c, writes))
  <1> DEFINE batch == BatchFor(c, writes)
  <1>1. /\ Len(batch) = n
        /\ \A i \in 1..n : /\ batch[i].tensor = writes[i].tensor
                           /\ batch[i].after = writes[i].after
                           /\ batch[i].before = BatchView(c, writes, i)
    BY DEF BatchFor
  <1> HIDE DEF batch
  <1> SUFFICES ASSUME NEW i \in 1..n
               PROVE  batch[i].before =
                        LET ws == BatchWrites(1, batch, i - 1, batch[i].tensor)
                        IN  IF ws = {} THEN PayloadAt(CurrentRevisionId(c), batch[i].tensor)
                            ELSE LastOf(ws)[3]
    BY <1>1 DEF ExactAt, batch
  <1>2. BatchWrites(1, batch, i - 1, batch[i].tensor) = BatchWrites(1, writes, i - 1, writes[i].tensor)
    BY <1>1 DEF BatchWrites
  <1>3. Read(c, writes[i].tensor) = PayloadAt(CurrentRevisionId(c), batch[i].tensor)
    BY <1>1, CurrentIdTellsContents
  <1> QED
    BY <1>1, <1>2, <1>3 DEF BatchView

-----------------------------------------------------------------------------
(* The inductive invariant, one conjunct at a time. *)

\* Every operation makes sound chains of sound chains.
LEMMA SoundStep ==
  ASSUME TypeOK, AllSound, [Next]_vars
  PROVE  AllSound'
  <1> USE DEF AllSound, TypeOK
  <1>1. ASSUME NEW s \in Sessions, Open(s) PROVE AllSound'
    <2>1. CASE OpenFresh(s)
      BY <2>1, EmptySound DEF OpenFresh, Started
    <2>2. CASE OpenRecover(s)
      BY <2>2 DEF OpenRecover, Started
    <2>3. CASE OpenQuarantine(s)
      BY <2>3, EmptySound DEF OpenQuarantine, Started, Rejected, Fault, Absent
    <2>4. CASE OpenQuarantineFails(s)
      BY <2>4, EmptySound DEF OpenQuarantineFails, Started, Fault
    <2>5. CASE OpenTransient(s)
      BY <2>5, EmptySound DEF OpenTransient, Started, Fault
    <2> QED
      BY <1>1, <2>1, <2>2, <2>3, <2>4, <2>5 DEF Open
  <1>2. ASSUME NEW s \in Sessions, Prepare(s) PROVE AllSound'
    BY <1>2 DEF Prepare
  <1>3. ASSUME NEW s \in Sessions, Commit(s) PROVE AllSound'
    <2>1. pending[s].commands \in Batch
      BY <1>3, BatchesAreBatches DEF Commit, Transaction
    <2>2. Sound(chain'[s])
      BY <1>3, <2>1, ExtendSound DEF Commit, Mutated
    <2> QED
      BY <1>3, <2>2 DEF Commit, Mutated
  <1>4. ASSUME NEW s \in Sessions, ReplaceBytes(s) PROVE AllSound'
    <2>1. PICK t \in Tensors, v \in Values :
            chain' = [chain EXCEPT ![s] = Extend(chain[s],
                        <<[tensor |-> t, before |-> Read(chain[s], t), after |-> v]>>)]
      BY <1>4 DEF ReplaceBytes, Mutated
    <2>2. Read(chain[s], t) \in Values
      BY ReadOfSound
    <2>3. <<[tensor |-> t, before |-> Read(chain[s], t), after |-> v]>> \in Batch
      BY <2>2 DEF Batch, Command
    <2>4. Sound(chain'[s])
      BY <2>1, <2>3, ExtendSound
    <2> QED
      BY <1>4, <2>1, <2>4 DEF ReplaceBytes, Mutated
  <1>5. ASSUME NEW s \in Sessions, Undo(s) PROVE AllSound'
    BY <1>5, StepsSound DEF Undo, Mutated
  <1>6. ASSUME NEW s \in Sessions, Redo(s) PROVE AllSound'
    BY <1>6, StepsSound DEF Redo, Mutated
  <1>7. ASSUME NEW s \in Sessions, DiscardAll(s) PROVE AllSound'
    BY <1>7, EmptySound DEF DiscardAll, Fault, Absent
  <1>8. ASSUME NEW s \in Sessions, BeginWrite(s) PROVE AllSound'
    BY <1>8 DEF BeginWrite
  <1>9. ASSUME NEW s \in Sessions, ReplaceFile(s) PROVE AllSound'
    BY <1>9 DEF ReplaceFile, Good
  <1>10. ASSUME NEW s \in Sessions, SaveFails(s) PROVE AllSound'
    BY <1>10 DEF SaveFails, Fault
  <1>11. ASSUME NEW s \in Sessions, Close(s) PROVE AllSound'
    BY <1>11, EmptySound DEF Close, Ended
  <1>12. CASE Crash
    BY <1>12, EmptySound DEF Crash, Ended
  <1>13. CASE Damage
    BY <1>13 DEF Damage, Fault
  <1>14. CASE UNCHANGED vars
    BY <1>14 DEF vars
  <1> QED
    BY <1>1, <1>2, <1>3, <1>4, <1>5, <1>6, <1>7, <1>8, <1>9, <1>10, <1>11, <1>12, <1>13, <1>14 DEF Next

\* Every operation keeps every variable to its type.
LEMMA TypeStep ==
  ASSUME TypeOK, AllSound, AllSound', [Next]_vars
  PROVE  TypeOK'
  <1> USE DEF TypeOK
  <1>1. ASSUME NEW s \in Sessions, Open(s) PROVE TypeOK'
    <2>1. CASE OpenFresh(s)
      BY <2>1, EmptyIsChain, SoundIsChain DEF OpenFresh, Started, AllSound
    <2>2. CASE OpenRecover(s)
      BY <2>2, SoundIsChain DEF OpenRecover, Started, AllSound
    <2>3. CASE OpenQuarantine(s)
      BY <2>3, EditingAssumption, EmptyIsChain, SoundIsChain DEF OpenQuarantine, Started, Rejected, Fault, AllSound, Absent, File
    <2>4. CASE OpenQuarantineFails(s)
      BY <2>4, EditingAssumption, EmptyIsChain, SoundIsChain DEF OpenQuarantineFails, Started, Fault, AllSound
    <2>5. CASE OpenTransient(s)
      BY <2>5, EditingAssumption, EmptyIsChain, SoundIsChain DEF OpenTransient, Started, Fault, AllSound
    <2> QED
      BY <1>1, <2>1, <2>2, <2>3, <2>4, <2>5 DEF Open
  <1>2. ASSUME NEW s \in Sessions, Prepare(s) PROVE TypeOK'
    <2>1. CASE pending' = [pending EXCEPT ![s] = NoTx]
      BY <1>2, <2>1, NoTxTyped DEF Prepare
    <2>2. ASSUME NEW n \in 1..MaxBatch, NEW writes \in [1..n -> Writing],
                 pending' = [pending EXCEPT ![s] = [base |-> CurrentRevisionId(chain[s]),
                                                    commands |-> BatchFor(chain[s], writes)]]
          PROVE  TypeOK'
      <3>1. CurrentRevisionId(chain[s]) \in RevId
        BY CurrentIdSpelled DEF AllSound
      <3>2. BatchFor(chain[s], writes) \in Batches
        BY BatchForTyped DEF AllSound
      <3>3. [base |-> CurrentRevisionId(chain[s]), commands |-> BatchFor(chain[s], writes)]
              \in Transaction
        BY <3>1, <3>2 DEF Transaction
      <3> QED
        BY <1>2, <2>2, <3>3 DEF Prepare
    <2> QED
      BY <1>2, <2>1, <2>2 DEF Prepare
  <1>3. ASSUME NEW s \in Sessions, Commit(s) PROVE TypeOK'
    BY <1>3, EditingAssumption, SoundIsChain DEF Commit, Mutated, AllSound
  <1>4. ASSUME NEW s \in Sessions, ReplaceBytes(s) PROVE TypeOK'
    BY <1>4, EditingAssumption, SoundIsChain DEF ReplaceBytes, Mutated, AllSound
  <1>5. ASSUME NEW s \in Sessions, Undo(s) PROVE TypeOK'
    BY <1>5, EditingAssumption, SoundIsChain DEF Undo, Mutated, AllSound
  <1>6. ASSUME NEW s \in Sessions, Redo(s) PROVE TypeOK'
    BY <1>6, EditingAssumption, SoundIsChain DEF Redo, Mutated, AllSound
  <1>7. ASSUME NEW s \in Sessions, DiscardAll(s) PROVE TypeOK'
    BY <1>7, EditingAssumption, EmptyIsChain, SoundIsChain DEF DiscardAll, Fault, AllSound, Absent, File
  <1>8. ASSUME NEW s \in Sessions, BeginWrite(s) PROVE TypeOK'
    BY <1>8, EditingAssumption, SoundIsChain DEF BeginWrite, AllSound
  <1>9. ASSUME NEW s \in Sessions, ReplaceFile(s) PROVE TypeOK'
    BY <1>9, SoundIsChain DEF ReplaceFile, Good, AllSound, File
  <1>10. ASSUME NEW s \in Sessions, SaveFails(s) PROVE TypeOK'
    BY <1>10, EditingAssumption, SoundIsChain DEF SaveFails, Fault, AllSound
  <1>11. ASSUME NEW s \in Sessions, Close(s) PROVE TypeOK'
    BY <1>11, NoTxTyped, SoundIsChain DEF Close, Ended, AllSound
  <1>12. CASE Crash
    BY <1>12, NoTxTyped, SoundIsChain DEF Crash, Ended, AllSound
  <1>13. CASE Damage
    BY <1>13, EditingAssumption DEF Damage, Fault, File
  <1>14. CASE UNCHANGED vars
    BY <1>14 DEF vars
  <1> QED
    BY <1>1, <1>2, <1>3, <1>4, <1>5, <1>6, <1>7, <1>8, <1>9, <1>10, <1>11, <1>12, <1>13, <1>14 DEF Next

\* Every operation keeps what the held transactions say of their base.
LEMMA PendingStep ==
  ASSUME TypeOK, AllSound, PendingExact, [Next]_vars
  PROVE  PendingExact'
  <1> USE DEF PendingExact
  <1>1. ASSUME NEW s \in Sessions, Open(s) PROVE PendingExact'
    <2>1. CASE OpenFresh(s)
      BY <2>1 DEF OpenFresh, Started
    <2>2. CASE OpenRecover(s)
      BY <2>2 DEF OpenRecover, Started
    <2>3. CASE OpenQuarantine(s)
      BY <2>3 DEF OpenQuarantine, Started, Rejected, Fault
    <2>4. CASE OpenQuarantineFails(s)
      BY <2>4 DEF OpenQuarantineFails, Started, Fault
    <2>5. CASE OpenTransient(s)
      BY <2>5 DEF OpenTransient, Started, Fault
    <2> QED
      BY <1>1, <2>1, <2>2, <2>3, <2>4, <2>5 DEF Open
  <1>2. ASSUME NEW s \in Sessions, Prepare(s) PROVE PendingExact'
    <2>1. CASE pending' = [pending EXCEPT ![s] = NoTx]
      BY <2>1, NoTxExact DEF TypeOK
    <2>2. ASSUME NEW n \in 1..MaxBatch, NEW writes \in [1..n -> Writing],
                 pending' = [pending EXCEPT ![s] = [base |-> CurrentRevisionId(chain[s]),
                                                    commands |-> BatchFor(chain[s], writes)]]
          PROVE  PendingExact'
      <3>1. ExactAt(CurrentRevisionId(chain[s]), BatchFor(chain[s], writes))
        BY BatchForExact, EditingAssumption DEF AllSound
      <3> QED
        BY <2>2, <3>1 DEF TypeOK
    <2> QED
      BY <1>2, <2>1, <2>2 DEF Prepare
  <1>3. ASSUME NEW s \in Sessions, Commit(s) PROVE PendingExact'
    BY <1>3 DEF Commit, Mutated
  <1>4. ASSUME NEW s \in Sessions, ReplaceBytes(s) PROVE PendingExact'
    BY <1>4 DEF ReplaceBytes, Mutated
  <1>5. ASSUME NEW s \in Sessions, Undo(s) PROVE PendingExact'
    BY <1>5 DEF Undo, Mutated
  <1>6. ASSUME NEW s \in Sessions, Redo(s) PROVE PendingExact'
    BY <1>6 DEF Redo, Mutated
  <1>7. ASSUME NEW s \in Sessions, DiscardAll(s) PROVE PendingExact'
    BY <1>7 DEF DiscardAll, Fault
  <1>8. ASSUME NEW s \in Sessions, BeginWrite(s) PROVE PendingExact'
    BY <1>8 DEF BeginWrite
  <1>9. ASSUME NEW s \in Sessions, ReplaceFile(s) PROVE PendingExact'
    BY <1>9 DEF ReplaceFile, Good
  <1>10. ASSUME NEW s \in Sessions, SaveFails(s) PROVE PendingExact'
    BY <1>10 DEF SaveFails, Fault
  <1>11. ASSUME NEW s \in Sessions, Close(s) PROVE PendingExact'
    BY <1>11, NoTxExact DEF Close, Ended, TypeOK
  <1>12. CASE Crash
    BY <1>12, NoTxExact DEF Crash, Ended, TypeOK
  <1>13. CASE Damage
    BY <1>13 DEF Damage, Fault
  <1>14. CASE UNCHANGED vars
    BY <1>14 DEF vars
  <1> QED
    BY <1>1, <1>2, <1>3, <1>4, <1>5, <1>6, <1>7, <1>8, <1>9, <1>10, <1>11, <1>12, <1>13, <1>14 DEF Next

\* Every operation keeps the acknowledged history on disk.
LEMMA AckedStep ==
  ASSUME TypeOK, AckedKept, [Next]_vars
  PROVE  AckedKept'
  <1> USE DEF AckedKept
  <1>1. ASSUME NEW s \in Sessions, Open(s) PROVE AckedKept'
    <2>1. CASE OpenFresh(s)
      BY <2>1 DEF OpenFresh, Started
    <2>2. CASE OpenRecover(s)
      BY <2>2 DEF OpenRecover, Started
    <2>3. CASE OpenQuarantine(s)
      BY <2>3 DEF OpenQuarantine, Started, Rejected, Fault, Absent
    <2>4. CASE OpenQuarantineFails(s)
      BY <2>4 DEF OpenQuarantineFails, Started, Fault
    <2>5. CASE OpenTransient(s)
      BY <2>5 DEF OpenTransient, Started, Fault
    <2> QED
      BY <1>1, <2>1, <2>2, <2>3, <2>4, <2>5 DEF Open
  <1>2. ASSUME NEW s \in Sessions, Prepare(s) PROVE AckedKept'
    BY <1>2 DEF Prepare
  <1>3. ASSUME NEW s \in Sessions, Commit(s) PROVE AckedKept'
    BY <1>3 DEF Commit, Mutated
  <1>4. ASSUME NEW s \in Sessions, ReplaceBytes(s) PROVE AckedKept'
    BY <1>4 DEF ReplaceBytes, Mutated
  <1>5. ASSUME NEW s \in Sessions, Undo(s) PROVE AckedKept'
    BY <1>5 DEF Undo, Mutated
  <1>6. ASSUME NEW s \in Sessions, Redo(s) PROVE AckedKept'
    BY <1>6 DEF Redo, Mutated
  <1>7. ASSUME NEW s \in Sessions, DiscardAll(s) PROVE AckedKept'
    BY <1>7 DEF DiscardAll, Fault, Absent
  <1>8. ASSUME NEW s \in Sessions, BeginWrite(s) PROVE AckedKept'
    BY <1>8 DEF BeginWrite
  <1>9. ASSUME NEW s \in Sessions, ReplaceFile(s) PROVE AckedKept'
    BY <1>9 DEF ReplaceFile, Good, Absent
  <1>10. ASSUME NEW s \in Sessions, SaveFails(s) PROVE AckedKept'
    BY <1>10 DEF SaveFails, Fault
  <1>11. ASSUME NEW s \in Sessions, Close(s) PROVE AckedKept'
    BY <1>11 DEF Close, Ended
  <1>12. CASE Crash
    BY <1>12 DEF Crash, Ended
  <1>13. CASE Damage
    BY <1>13 DEF Damage, Fault, Absent, File, TypeOK
  <1>14. CASE UNCHANGED vars
    BY <1>14 DEF vars
  <1> QED
    BY <1>1, <1>2, <1>3, <1>4, <1>5, <1>6, <1>7, <1>8, <1>9, <1>10, <1>11, <1>12, <1>13, <1>14 DEF Next

\* With single-command revisions, every operation keeps every chain restorable.
LEMMA ReplayStep ==
  ASSUME TypeOK, AllSound, AllReplay, MaxBatch = 1, [Next]_vars
  PROVE  AllReplay'
  <1> USE DEF AllReplay, TypeOK
  <1>1. ASSUME NEW s \in Sessions, Open(s) PROVE AllReplay'
    <2>1. CASE OpenFresh(s)
      BY <2>1, EmptyReplays DEF OpenFresh, Started
    <2>2. CASE OpenRecover(s)
      BY <2>2 DEF OpenRecover, Started
    <2>3. CASE OpenQuarantine(s)
      BY <2>3, EmptyReplays DEF OpenQuarantine, Started, Rejected, Fault, Absent
    <2>4. CASE OpenQuarantineFails(s)
      BY <2>4, EmptyReplays DEF OpenQuarantineFails, Started, Fault
    <2>5. CASE OpenTransient(s)
      BY <2>5, EmptyReplays DEF OpenTransient, Started, Fault
    <2> QED
      BY <1>1, <2>1, <2>2, <2>3, <2>4, <2>5 DEF Open
  <1>2. ASSUME NEW s \in Sessions, Prepare(s) PROVE AllReplay'
    BY <1>2 DEF Prepare
  <1>3. ASSUME NEW s \in Sessions, Commit(s) PROVE AllReplay'
    <2> DEFINE commands == pending[s].commands
    <2>0. commands \in Batches
      BY <1>3 DEF Commit, Transaction
    <2>1. commands \in Batch /\ DOMAIN commands = {1}
      <3>1. PICK n \in 1..MaxBatch : commands \in [1..n -> Command]
        BY <2>0 DEF Batches
      <3>2. n = 1
        OBVIOUS
      <3> QED
        BY <2>0, <3>1, <3>2, BatchesAreBatches
    <2>2. commands[1].before = Read(chain[s], commands[1].tensor)
      <3>1. BatchWrites(1, commands, 0, commands[1].tensor) = {}
        BY DEF BatchWrites
      <3>2. commands[1].before = BatchView(chain[s], commands, 1)
        BY <1>3, <2>1 DEF Commit, PreconditionsHold
      <3> QED
        BY <3>1, <3>2 DEF BatchView
    <2>3. Replays(Extend(chain[s], commands).revs)
      BY <2>1, <2>2, ExtendReplays DEF AllSound
    <2> QED
      BY <1>3, <2>3 DEF Commit, Mutated
  <1>4. ASSUME NEW s \in Sessions, ReplaceBytes(s) PROVE AllReplay'
    <2>1. PICK t \in Tensors, v \in Values :
            chain' = [chain EXCEPT ![s] = Extend(chain[s],
                        <<[tensor |-> t, before |-> Read(chain[s], t), after |-> v]>>)]
      BY <1>4 DEF ReplaceBytes, Mutated
    <2>2. Read(chain[s], t) \in Values
      BY ReadOfSound DEF AllSound
    <2>3. <<[tensor |-> t, before |-> Read(chain[s], t), after |-> v]>> \in Batch
      BY <2>2 DEF Batch, Command
    <2>4. Replays(chain'[s].revs)
      BY <2>1, <2>3, ExtendReplays DEF AllSound
    <2> QED
      BY <1>4, <2>1, <2>4 DEF ReplaceBytes, Mutated
  <1>5. ASSUME NEW s \in Sessions, Undo(s) PROVE AllReplay'
    BY <1>5 DEF Undo, Mutated, StepBack
  <1>6. ASSUME NEW s \in Sessions, Redo(s) PROVE AllReplay'
    BY <1>6 DEF Redo, Mutated, StepForward
  <1>7. ASSUME NEW s \in Sessions, DiscardAll(s) PROVE AllReplay'
    BY <1>7, EmptyReplays DEF DiscardAll, Fault, Absent
  <1>8. ASSUME NEW s \in Sessions, BeginWrite(s) PROVE AllReplay'
    BY <1>8 DEF BeginWrite
  <1>9. ASSUME NEW s \in Sessions, ReplaceFile(s) PROVE AllReplay'
    BY <1>9 DEF ReplaceFile, Good
  <1>10. ASSUME NEW s \in Sessions, SaveFails(s) PROVE AllReplay'
    BY <1>10 DEF SaveFails, Fault
  <1>11. ASSUME NEW s \in Sessions, Close(s) PROVE AllReplay'
    BY <1>11, EmptyReplays DEF Close, Ended
  <1>12. CASE Crash
    BY <1>12, EmptyReplays DEF Crash, Ended
  <1>13. CASE Damage
    BY <1>13 DEF Damage, Fault
  <1>14. CASE UNCHANGED vars
    BY <1>14 DEF vars
  <1> QED
    BY <1>1, <1>2, <1>3, <1>4, <1>5, <1>6, <1>7, <1>8, <1>9, <1>10, <1>11, <1>12, <1>13, <1>14 DEF Next

-----------------------------------------------------------------------------
(* Theorems. *)

\* The invariant holds at first.
LEMMA Initially == Init => IInv
  <1> SUFFICES ASSUME Init PROVE IInv
    OBVIOUS
  <1> USE DEF Init
  <1>1. TypeOK
    <2>1. 0 \in 0..MaxFaults
      BY EditingAssumption
    <2>2. Absent \in File
      BY EmptyIsChain DEF Absent, File
    <2> QED
      BY <2>1, <2>2, EmptyIsChain, NoTxTyped DEF TypeOK
  <1>2. AllSound
    BY EmptySound DEF AllSound, Absent
  <1>3. PendingExact /\ AckedKept
    BY DEF PendingExact, ExactAt, NoTx, AckedKept
  <1> QED
    BY <1>1, <1>2, <1>3 DEF IInv

\* Every step preserves it.
LEMMA Inductive == IInv /\ [Next]_vars => IInv'
  BY SoundStep, TypeStep, PendingStep, AckedStep DEF IInv

\* So it is an invariant.
LEMMA Invariance == Spec => []IInv
  BY Initially, Inductive, PTL DEF Spec

\* Every variable keeps to its type.
THEOREM TypeCorrect == Spec => []TypeOK
  <1>1. IInv => TypeOK
    BY DEF IInv
  <1> QED
    BY Invariance, <1>1, PTL

\* No operation, crash or fault breaks a parent link or an id.
THEOREM ChainsStayLinked == Spec => []ChainsLinked
  <1>1. IInv => ChainsLinked
    BY DEF IInv, AllSound, Sound, ChainsLinked, Chains
  <1> QED
    BY Invariance, <1>1, PTL

\* A revision id names one state of the artifact, in every session and file.
THEOREM IdsDetermineContents == Spec => []IdDeterminesContents
  <1>1. ASSUME IInv PROVE IdDeterminesContents
    <2> SUFFICES ASSUME NEW c \in Chains, NEW d \in Chains
                 PROVE  \A i \in DOMAIN c.revs : \A j \in DOMAIN d.revs :
                          c.revs[i].id = d.revs[j].id =>
                            \A t \in Tensors : ReadAt(c.revs, i, t) = ReadAt(d.revs, j, t)
      BY DEF IdDeterminesContents
    <2>1. Sound(c) /\ Sound(d)
      BY <1>1 DEF IInv, AllSound, Chains
    <2>2. c.revs \in Seq(Revision) /\ d.revs \in Seq(Revision)
      BY <2>1 DEF Sound, Chain
    <2>3. DOMAIN c.revs = 1..Len(c.revs) /\ DOMAIN d.revs = 1..Len(d.revs)
      BY <2>2
    <2>4. \A i \in 1..Len(c.revs) : \A j \in 1..Len(d.revs) :
            c.revs[i].id = d.revs[j].id => \A t : ReadAt(c.revs, i, t) = ReadAt(d.revs, j, t)
      BY <2>1, EqualIdsEqualContents, Zenon
    <2> QED
      BY <2>3, <2>4
  <1> QED
    BY Invariance, <1>1, PTL

\* commit() needs to look at the base revision only: a transaction whose base is
\* current finds every byte it expects.
THEOREM BaseCheckIsEnough == Spec => []BaseCheckSuffices
  <1>1. ASSUME IInv PROVE BaseCheckSuffices
    <2> SUFFICES ASSUME NEW s \in Sessions, pending[s].base = CurrentRevisionId(chain[s]),
                        NEW i \in DOMAIN pending[s].commands
                 PROVE  pending[s].commands[i].before
                          = BatchView(chain[s], pending[s].commands, i)
      BY DEF BaseCheckSuffices, PreconditionsHold
    <2>1. Sound(chain[s]) /\ ExactAt(pending[s].base, pending[s].commands)
      BY <1>1 DEF IInv, AllSound, PendingExact
    <2>2. pending[s].commands \in Seq(Command)
      BY <1>1, BatchesAreBatches DEF IInv, TypeOK, Transaction, Batch
    <2>3. i \in 1..Len(pending[s].commands)
      BY <2>2
    <2>4. Read(chain[s], pending[s].commands[i].tensor)
            = PayloadAt(pending[s].base, pending[s].commands[i].tensor)
      BY <2>1, CurrentIdTellsContents
    <2> QED
      BY <2>1, <2>3, <2>4 DEF ExactAt, BatchView
  <1> QED
    BY Invariance, <1>1, PTL

\* The history last reported as persisted is on disk after a crash at any moment.
THEOREM AcknowledgedStaysOnDisk == Spec => []AckedOnDisk
  <1>1. IInv => AckedOnDisk
    BY DEF IInv, AckedKept, AckedOnDisk
  <1> QED
    BY Invariance, <1>1, PTL

\* A restart accepts every history the controller accepted, provided that no revision
\* carries more than one command.
THEOREM HistoriesReplay == MaxBatch = 1 => (Spec => []HistoryReplays)
  <1> SUFFICES ASSUME MaxBatch = 1 PROVE Spec => []HistoryReplays
    OBVIOUS
  <1>1. Init => AllReplay
    BY EmptyReplays DEF Init, AllReplay, Absent
  <1>2. IInv /\ AllReplay /\ [Next]_vars => AllReplay'
    BY ReplayStep DEF IInv
  <1>3. AllReplay => HistoryReplays
    BY DEF AllReplay, HistoryReplays, Chains
  <1> QED
    BY <1>1, <1>2, <1>3, Invariance, PTL DEF Spec

\* While the artifact is open in session s, the sidecar is what s loaded or wrote,
\* unless s began in front of a file that was left in place.
OwnBasis(s) ==
  /\ sidecar.state = "absent" => sidecar.chain = EmptyChain
  /\ status[s] # "closed" /\ s \notin skipped => basis[s] = sidecar.chain

\* With one session, every step keeps it so.
LEMMA OwnStep ==
  ASSUME NEW s, Sessions = {s}, IInv, OwnBasis(s), [Next]_vars PROVE OwnBasis(s)'
  <1> USE DEF OwnBasis, Absent, Good
  <1>0. /\ status \in [{s} -> {"closed", "idle", "saving", "writing"}]
        /\ basis \in [{s} -> Chain] /\ sidecar \in File
    BY DEF IInv, TypeOK
  <1>1. CASE Open(s)
    <2>1. CASE OpenFresh(s)
      BY <1>0, <2>1 DEF OpenFresh, Started
    <2>2. CASE OpenRecover(s)
      BY <1>0, <2>2 DEF OpenRecover, Started
    <2>3. CASE OpenQuarantine(s)
      BY <1>0, <2>3 DEF OpenQuarantine, Started
    <2>4. CASE OpenQuarantineFails(s) \/ OpenTransient(s)
      BY <1>0, <2>4 DEF OpenQuarantineFails, OpenTransient, Started
    <2> QED
      BY <1>1, <2>1, <2>2, <2>3, <2>4 DEF Open
  <1>2. CASE Prepare(s)
    BY <1>0, <1>2 DEF Prepare
  <1>3. CASE Commit(s) \/ ReplaceBytes(s) \/ Undo(s) \/ Redo(s)
    BY <1>0, <1>3 DEF Commit, ReplaceBytes, Undo, Redo, Mutated, Idle
  <1>4. CASE DiscardAll(s)
    BY <1>0, <1>4 DEF DiscardAll, Idle
  <1>5. CASE BeginWrite(s) \/ SaveFails(s)
    BY <1>0, <1>5 DEF BeginWrite, SaveFails
  <1>6. CASE ReplaceFile(s)
    BY <1>0, <1>6 DEF ReplaceFile
  <1>7. CASE Close(s) \/ Crash
    BY <1>0, <1>7 DEF Close, Crash, Ended
  <1>8. CASE Damage
    BY <1>0, <1>8 DEF Damage, File
  <1>9. CASE UNCHANGED vars
    BY <1>9 DEF vars
  <1> QED
    BY <1>1, <1>2, <1>3, <1>4, <1>5, <1>6, <1>7, <1>8, <1>9 DEF Next

\* As long as an artifact is open in one session at a time, a save replaces a history
\* its session never saw only after that session began in front of a file it could
\* not read or move aside.
THEOREM OwnHistoryReplaced == \A s : Sessions = {s} => (Spec => []OnlySkippedReplaced)
  <1> SUFFICES ASSUME NEW s, Sessions = {s} PROVE Spec => []OnlySkippedReplaced
    OBVIOUS
  <1>1. Init => OwnBasis(s)
    BY DEF Init, OwnBasis, Absent
  <1>2. IInv /\ OwnBasis(s) /\ [Next]_vars => OwnBasis(s)'
    BY OwnStep
  <1>3. OwnBasis(s) => OnlySkippedReplaced
    BY DEF OwnBasis, OnlySkippedReplaced
  <1> QED
    BY <1>1, <1>2, <1>3, Invariance, PTL DEF Spec

\* Together: an edit session's chains and files are linked, named by content and accepted
\* again by restore(), and a commit's comparison of revision ids is enough, when a
\* revision has one command, as every handler of the application builds them.
THEOREM ChainsAreSound == MaxBatch = 1 => (Spec => []ChainsSound)
  <1> SUFFICES ASSUME MaxBatch = 1 PROVE Spec => []ChainsSound
    OBVIOUS
  <1>1. Spec => []HistoryReplays
    BY HistoriesReplay
  <1>2. TypeOK /\ ChainsLinked /\ IdDeterminesContents /\ HistoryReplays /\ BaseCheckSuffices
          => ChainsSound
    BY DEF ChainsSound
  <1> QED
    BY <1>1, <1>2, TypeCorrect, ChainsStayLinked, IdsDetermineContents, BaseCheckIsEnough, PTL
-----------------------------------------------------------------------------
(* The refinement of DurableHistory. *)

\* What the refinement needs of a chain.
LEMMA SoundShape ==
  ASSUME NEW c, Sound(c)
  PROVE  /\ c.revs \in Seq(Revision) /\ Len(c.revs) \in Nat
         /\ c.cursor \in Nat /\ c.cursor <= Len(c.revs)
         /\ BatchesOf(c.revs) \in Seq(Batch) /\ Len(BatchesOf(c.revs)) = Len(c.revs)
         /\ \A i \in 1..Len(c.revs) : BatchesOf(c.revs)[i] = c.revs[i].commands
  <1>1. c.revs \in Seq(Revision) /\ c.cursor \in 0..Len(c.revs)
    BY DEF Sound, Chain, WellLinked
  <1>2. \A i \in 1..Len(c.revs) : c.revs[i].commands \in Batch
    <2> TAKE i \in 1..Len(c.revs)
    <2>1. c.revs[i] \in Revision
      BY <1>1
    <2> QED
      BY <2>1 DEF Revision
  <1> DEFINE b == BatchesOf(c.revs)
  <1>3. b = [i \in 1..Len(c.revs) |-> c.revs[i].commands]
    BY <1>1 DEF BatchesOf
  <1>4. b \in [1..Len(c.revs) -> Batch] /\ Len(c.revs) \in Nat
    BY <1>1, <1>2, <1>3
  <1> HIDE DEF b
  <1>5. b \in Seq(Batch) /\ Len(b) = Len(c.revs)
    BY <1>4
  <1>6. \A i \in 1..Len(c.revs) : b[i] = c.revs[i].commands
    BY <1>3
  <1> QED
    BY <1>1, <1>4, <1>5, <1>6 DEF b

\* The edits in effect and those undone, one by one.
LEMMA PastAndFuture ==
  ASSUME NEW c, Sound(c)
  PROVE  /\ PastOf(c) \in Seq(Batch) /\ Len(PastOf(c)) = c.cursor
         /\ \A i \in 1..c.cursor : PastOf(c)[i] = c.revs[i].commands
         /\ FutureOf(c) \in Seq(Batch) /\ Len(FutureOf(c)) = Len(c.revs) - c.cursor
         /\ \A i \in 1..Len(c.revs) - c.cursor :
              FutureOf(c)[i] = c.revs[c.cursor + i].commands
  <1> DEFINE b == BatchesOf(c.revs)
             n == Len(c.revs)
             k == c.cursor
  <1>1. /\ n \in Nat /\ k \in Nat /\ k <= n /\ b \in Seq(Batch) /\ Len(b) = n
        /\ \A i \in 1..n : b[i] = c.revs[i].commands
    BY SoundShape
  <1> HIDE DEF b, n, k
  <1>2. /\ SubSeq(b, 1, k) \in Seq(Batch) /\ Len(SubSeq(b, 1, k)) = k
        /\ \A i \in 1..k : SubSeq(b, 1, k)[i] = b[i]
    <2>1. \A i \in 1..k : i \in 1..Len(b)
      BY <1>1
    <2> QED
      BY <1>1, <2>1, SubSeqProperties
  <1>3. /\ SubSeq(b, k + 1, n) \in Seq(Batch) /\ Len(SubSeq(b, k + 1, n)) = n - k
        /\ \A i \in 1..n - k : SubSeq(b, k + 1, n)[i] = b[k + i]
    <2>1. \A i \in k + 1..n : i \in 1..Len(b)
      BY <1>1
    <2> QED
      BY <1>1, <2>1, SubSeqProperties
  <1>4. PastOf(c) = SubSeq(b, 1, k) /\ FutureOf(c) = SubSeq(b, k + 1, n)
    BY DEF PastOf, FutureOf, b, n, k
  <1>5. /\ PastOf(c) \in Seq(Batch) /\ Len(PastOf(c)) = k
        /\ \A i \in 1..k : PastOf(c)[i] = c.revs[i].commands
    BY <1>1, <1>2, <1>4
  <1>6. /\ FutureOf(c) \in Seq(Batch) /\ Len(FutureOf(c)) = n - k
        /\ \A i \in 1..n - k : FutureOf(c)[i] = c.revs[k + i].commands
    <2>1. \A i \in 1..n - k : k + i \in 1..n
      BY <1>1
    <2> QED
      BY <1>1, <1>3, <1>4, <2>1
  <1> QED
    BY <1>5, <1>6 DEF n, k

\* A chain without revisions has no edits in effect and none undone.
LEMMA EmptyHistory == PastOf(EmptyChain) = <<>> /\ FutureOf(EmptyChain) = <<>>
  <1>1. /\ PastOf(EmptyChain) \in Seq(Batch) /\ Len(PastOf(EmptyChain)) = 0
        /\ FutureOf(EmptyChain) \in Seq(Batch) /\ Len(FutureOf(EmptyChain)) = 0
    BY EmptySound, PastAndFuture DEF EmptyChain
  <1> QED
    BY <1>1, EmptySeq

\* A revision adds its batch to the edits in effect and drops those undone.
LEMMA ExtendHistory ==
  ASSUME NEW c, Sound(c), NEW batch \in Batch
  PROVE  /\ PastOf(Extend(c, batch)) = Append(PastOf(c), batch)
         /\ FutureOf(Extend(c, batch)) = <<>>
  <1> DEFINE d == Extend(c, batch)
  <1>1. Sound(d)
    BY ExtendSound
  <1>2. /\ c.revs \in Seq(Revision) /\ c.cursor \in Nat /\ Len(c.revs) \in Nat
        /\ c.cursor <= Len(c.revs)
    BY SoundShape
  <1>3. /\ d.cursor = c.cursor + 1 /\ Len(d.revs) = c.cursor + 1
        /\ d.revs[c.cursor + 1].commands = batch
        /\ \A i \in 1..c.cursor : d.revs[i] = c.revs[i]
    <2>1. /\ AppliedRevisions(c) \in Seq(Revision) /\ Len(AppliedRevisions(c)) = c.cursor
          /\ \A i \in 1..c.cursor : AppliedRevisions(c)[i] = c.revs[i]
      BY <1>2, AppliedIsPrefix
    <2> QED
      BY <1>2, <2>1 DEF Extend, NewRevision
  <1> HIDE DEF d
  <1>4. /\ PastOf(d) \in Seq(Batch) /\ Len(PastOf(d)) = c.cursor + 1
        /\ \A i \in 1..c.cursor + 1 : PastOf(d)[i] = d.revs[i].commands
        /\ FutureOf(d) \in Seq(Batch) /\ Len(FutureOf(d)) = 0
    BY <1>1, <1>2, <1>3, PastAndFuture
  <1>5. /\ PastOf(c) \in Seq(Batch) /\ Len(PastOf(c)) = c.cursor
        /\ \A i \in 1..c.cursor : PastOf(c)[i] = c.revs[i].commands
    BY PastAndFuture
  <1>6. PastOf(d) = Append(PastOf(c), batch)
    <2>1. /\ Append(PastOf(c), batch) \in Seq(Batch)
          /\ Len(Append(PastOf(c), batch)) = c.cursor + 1
          /\ Append(PastOf(c), batch)[c.cursor + 1] = batch
          /\ \A i \in 1..c.cursor : Append(PastOf(c), batch)[i] = PastOf(c)[i]
      BY <1>2, <1>5
    <2>2. \A i \in 1..c.cursor + 1 : PastOf(d)[i] = Append(PastOf(c), batch)[i]
      <3> TAKE i \in 1..c.cursor + 1
      <3>1. CASE i = c.cursor + 1
        BY <3>1, <1>2, <1>3, <1>4, <2>1
      <3>2. CASE i # c.cursor + 1
        <4>1. i \in 1..c.cursor
          BY <3>2, <1>2
        <4> QED
          BY <4>1, <1>3, <1>4, <1>5, <2>1
      <3> QED
        BY <3>1, <3>2
    <2> QED
      BY <1>4, <2>1, <2>2, SeqEqual
  <1>7. FutureOf(d) = <<>>
    BY <1>4, EmptySeq
  <1> QED
    BY <1>6, <1>7 DEF d

\* An undo moves the last edit in effect to the head of those undone.
LEMMA UndoHistory ==
  ASSUME NEW c, Sound(c), CanUndo(c)
  PROVE  /\ PastOf(c) # <<>>
         /\ PastOf(StepBack(c)) = SubSeq(PastOf(c), 1, Len(PastOf(c)) - 1)
         /\ FutureOf(StepBack(c)) = <<PastOf(c)[Len(PastOf(c))]>> \o FutureOf(c)
  <1> DEFINE d == StepBack(c)
             k == c.cursor
             n == Len(c.revs)
  <1>1. Sound(d) /\ d.revs = c.revs /\ d.cursor = k - 1
    BY StepsSound, SoundShape DEF StepBack, Sound, Chain
  <1>2. k \in Nat /\ n \in Nat /\ k <= n /\ k > 0
    BY SoundShape DEF CanUndo
  <1>3. /\ PastOf(c) \in Seq(Batch) /\ Len(PastOf(c)) = k
        /\ \A i \in 1..k : PastOf(c)[i] = c.revs[i].commands
        /\ FutureOf(c) \in Seq(Batch) /\ Len(FutureOf(c)) = n - k
        /\ \A i \in 1..n - k : FutureOf(c)[i] = c.revs[k + i].commands
    BY PastAndFuture
  <1>4. /\ PastOf(d) \in Seq(Batch) /\ Len(PastOf(d)) = k - 1
        /\ \A i \in 1..k - 1 : PastOf(d)[i] = c.revs[i].commands
        /\ FutureOf(d) \in Seq(Batch) /\ Len(FutureOf(d)) = n - k + 1
        /\ \A i \in 1..n - k + 1 : FutureOf(d)[i] = c.revs[k - 1 + i].commands
    <2>1. /\ PastOf(d) \in Seq(Batch) /\ Len(PastOf(d)) = k - 1
          /\ \A i \in 1..k - 1 : PastOf(d)[i] = c.revs[i].commands
          /\ FutureOf(d) \in Seq(Batch) /\ Len(FutureOf(d)) = n - (k - 1)
          /\ \A i \in 1..n - (k - 1) : FutureOf(d)[i] = c.revs[k - 1 + i].commands
      <3> HIDE DEF d, k, n
      <3>1. /\ PastOf(d) \in Seq(Batch) /\ Len(PastOf(d)) = d.cursor
            /\ \A i \in 1..d.cursor : PastOf(d)[i] = d.revs[i].commands
            /\ FutureOf(d) \in Seq(Batch) /\ Len(FutureOf(d)) = Len(d.revs) - d.cursor
            /\ \A i \in 1..Len(d.revs) - d.cursor :
                 FutureOf(d)[i] = d.revs[d.cursor + i].commands
        BY <1>1, PastAndFuture
      <3>2. Len(d.revs) = n
        BY <1>1 DEF n
      <3> QED
        BY <1>1, <3>1, <3>2, Zenon
    <2>2. n - (k - 1) = n - k + 1
      BY <1>2
    <2> QED
      BY <2>1, <2>2
  <1> HIDE DEF d, k, n
  <1> DEFINE p == PastOf(c)
             f == FutureOf(c)
             past == PastOf(d)
             future == FutureOf(d)
             last == <<p[k]>>
  <1>5. p # <<>> /\ p[k] \in Batch
    BY <1>2, <1>3
  <1>6. past = SubSeq(p, 1, k - 1)
    <2>1. \A i \in 1..k - 1 : p[i] \in Batch
      BY <1>2, <1>3
    <2>2. /\ SubSeq(p, 1, k - 1) \in Seq(Batch) /\ Len(SubSeq(p, 1, k - 1)) = k - 1
          /\ \A i \in 1..k - 1 : SubSeq(p, 1, k - 1)[i] = p[i]
      BY <1>2, <2>1, SubSeqProperties
    <2>3. \A i \in 1..k - 1 : past[i] = SubSeq(p, 1, k - 1)[i]
      <3> TAKE i \in 1..k - 1
      <3>1. i \in 1..k /\ past[i] = c.revs[i].commands
        BY <1>2, <1>4
      <3>2. p[i] = c.revs[i].commands
        BY <1>3, <3>1
      <3> QED
        BY <2>2, <3>1, <3>2
    <2> QED
      BY <1>4, <2>2, <2>3, SeqEqual
  <1>7. future = last \o f
    <2>1. last \in Seq(Batch) /\ Len(last) = 1 /\ last[1] = p[k]
      BY <1>5
    <2> HIDE DEF last, f
    <2>2. f \in Seq(Batch) /\ Len(f) = n - k /\ n - k \in Nat
      BY <1>2, <1>3 DEF f
    <2>3. /\ last \o f \in Seq(Batch) /\ Len(last \o f) = n - k + 1
          /\ (last \o f)[1] = p[k]
          /\ \A i \in 2..n - k + 1 : (last \o f)[i] = f[i - 1]
      <3>1. /\ last \o f \in Seq(Batch) /\ Len(last \o f) = 1 + (n - k)
            /\ \A i \in 1..1 + (n - k) : (last \o f)[i] = IF i <= 1 THEN last[i] ELSE f[i - 1]
        <4>1. /\ Len(last \o f) = Len(last) + Len(f)
              /\ \A i \in 1..Len(last) + Len(f) :
                   (last \o f)[i] = IF i <= Len(last) THEN last[i] ELSE f[i - Len(last)]
          BY <2>1, <2>2, ConcatProperties
        <4>2. last \o f \in Seq(Batch)
          BY <2>1, <2>2, ConcatProperties
        <4> QED
          BY <2>1, <2>2, <4>1, <4>2
      <3>2. 1 + (n - k) = n - k + 1 /\ 1 \in 1..1 + (n - k)
              /\ \A i \in 2..n - k + 1 : i \in 1..1 + (n - k) /\ ~(i <= 1)
        BY <1>2
      <3>3. (last \o f)[1] = p[k]
        BY <2>1, <3>1, <3>2
      <3> QED
        BY <3>1, <3>2, <3>3
    <2>4. \A i \in 1..n - k + 1 : future[i] = (last \o f)[i]
      <3> TAKE i \in 1..n - k + 1
      <3>1. CASE i = 1
        <4>1. future[1] = c.revs[k].commands /\ p[k] = c.revs[k].commands
          BY <1>2, <1>3, <1>4, <2>2
        <4> QED
          BY <3>1, <4>1, <2>3
      <3>2. CASE i # 1
        <4>1. i \in 2..n - k + 1 /\ i - 1 \in 1..n - k /\ k + (i - 1) = k - 1 + i
          BY <3>2, <1>2
        <4>2. f[i - 1] = c.revs[k - 1 + i].commands
          BY <4>1, <1>3 DEF f
        <4> QED
          BY <4>1, <4>2, <2>3, <1>4
      <3> QED
        BY <3>1, <3>2
    <2> QED
      BY <1>4, <2>3, <2>4, SeqEqual
  <1> QED
    BY <1>3, <1>5, <1>6, <1>7 DEF d

\* A redo brings the next undone edit back into effect.
LEMMA RedoHistory ==
  ASSUME NEW c, Sound(c), CanRedo(c)
  PROVE  /\ FutureOf(c) # <<>>
         /\ PastOf(StepForward(c)) = Append(PastOf(c), Head(FutureOf(c)))
         /\ FutureOf(StepForward(c)) = Tail(FutureOf(c))
  <1> DEFINE d == StepForward(c)
             k == c.cursor
             n == Len(c.revs)
  <1>1. Sound(d) /\ d.revs = c.revs /\ d.cursor = k + 1
    BY StepsSound, SoundShape DEF StepForward, Sound, Chain
  <1>2. k \in Nat /\ n \in Nat /\ k < n
    BY SoundShape DEF CanRedo
  <1>3. /\ PastOf(c) \in Seq(Batch) /\ Len(PastOf(c)) = k
        /\ \A i \in 1..k : PastOf(c)[i] = c.revs[i].commands
        /\ FutureOf(c) \in Seq(Batch) /\ Len(FutureOf(c)) = n - k
        /\ \A i \in 1..n - k : FutureOf(c)[i] = c.revs[k + i].commands
    BY PastAndFuture
  <1>4. /\ PastOf(d) \in Seq(Batch) /\ Len(PastOf(d)) = k + 1
        /\ \A i \in 1..k + 1 : PastOf(d)[i] = c.revs[i].commands
        /\ FutureOf(d) \in Seq(Batch) /\ Len(FutureOf(d)) = n - (k + 1)
        /\ \A i \in 1..n - (k + 1) : FutureOf(d)[i] = c.revs[k + 1 + i].commands
    <2> HIDE DEF d, k, n
    <2>1. /\ PastOf(d) \in Seq(Batch) /\ Len(PastOf(d)) = d.cursor
          /\ \A i \in 1..d.cursor : PastOf(d)[i] = d.revs[i].commands
          /\ FutureOf(d) \in Seq(Batch) /\ Len(FutureOf(d)) = Len(d.revs) - d.cursor
          /\ \A i \in 1..Len(d.revs) - d.cursor :
               FutureOf(d)[i] = d.revs[d.cursor + i].commands
      BY <1>1, PastAndFuture
    <2>2. Len(d.revs) = n
      BY <1>1 DEF n
    <2> QED
      BY <1>1, <2>1, <2>2, Zenon
  <1> HIDE DEF d, k, n
  <1> DEFINE p == PastOf(c)
             f == FutureOf(c)
             past == PastOf(d)
             future == FutureOf(d)
  <1>5. /\ f # <<>> /\ Head(f) \in Batch /\ Head(f) = c.revs[k + 1].commands
        /\ Tail(f) \in Seq(Batch) /\ Len(Tail(f)) = n - (k + 1)
        /\ \A i \in 1..n - (k + 1) : Tail(f)[i] = f[i + 1]
    <2>1. f # <<>>
      BY <1>2, <1>3
    <2>2. Head(f) = f[1] /\ f[1] = c.revs[k + 1].commands
      BY <1>2, <1>3, <2>1
    <2>3. n - k - 1 = n - (k + 1)
      BY <1>2
    <2> QED
      BY <1>3, <2>1, <2>2, <2>3, HeadTailProperties
  <1>6. past = Append(p, Head(f))
    <2>1. /\ Append(p, Head(f)) \in Seq(Batch) /\ Len(Append(p, Head(f))) = k + 1
          /\ Append(p, Head(f))[k + 1] = Head(f)
          /\ \A i \in 1..k : Append(p, Head(f))[i] = p[i]
      BY <1>2, <1>3, <1>5, AppendProperties
    <2>2. \A i \in 1..k + 1 : past[i] = Append(p, Head(f))[i]
      <3> TAKE i \in 1..k + 1
      <3>1. CASE i = k + 1
        BY <3>1, <1>2, <1>4, <1>5, <2>1
      <3>2. CASE i # k + 1
        <4>1. i \in 1..k
          BY <3>2, <1>2
        <4> QED
          BY <4>1, <1>3, <1>4, <2>1
      <3> QED
        BY <3>1, <3>2
    <2> QED
      BY <1>4, <2>1, <2>2, SeqEqual
  <1>7. future = Tail(f)
    <2>1. \A i \in 1..n - (k + 1) : future[i] = Tail(f)[i]
      <3> TAKE i \in 1..n - (k + 1)
      <3>1. i + 1 \in 1..n - k /\ k + (i + 1) = k + 1 + i
        BY <1>2
      <3>2. f[i + 1] = c.revs[k + 1 + i].commands
        BY <3>1, <1>3
      <3>3. future[i] = c.revs[k + 1 + i].commands
        BY <1>4
      <3> QED
        BY <3>2, <3>3, <1>5
    <2> QED
      BY <1>4, <1>5, <2>1, SeqEqual
  <1> QED
    BY <1>5, <1>6, <1>7 DEF d

\* A sidecar is damaged only where the environment damages files.
DamageIsAFault == sidecar.state = "damaged" => "damage" \in Faults

\* What a step of the refinement rests on.
RefinementInv == IInv /\ AllReplay /\ OwnBasis(TheSession) /\ DamageIsAFault

\* Every step keeps it so.
LEMMA DamageStep ==
  ASSUME TypeOK, DamageIsAFault, [Next]_vars PROVE DamageIsAFault'
  <1> USE DEF DamageIsAFault
  <1>1. ASSUME NEW s \in Sessions, Open(s) PROVE DamageIsAFault'
    BY <1>1 DEF Open, OpenFresh, OpenRecover, OpenQuarantine, OpenQuarantineFails,
                OpenTransient, Absent
  <1>2. ASSUME NEW s \in Sessions,
               Prepare(s) \/ Commit(s) \/ ReplaceBytes(s) \/ Undo(s) \/ Redo(s)
        PROVE  DamageIsAFault'
    BY <1>2 DEF Prepare, Commit, ReplaceBytes, Undo, Redo, Mutated
  <1>3. ASSUME NEW s \in Sessions,
               DiscardAll(s) \/ BeginWrite(s) \/ ReplaceFile(s) \/ SaveFails(s) \/ Close(s)
        PROVE  DamageIsAFault'
    BY <1>3 DEF DiscardAll, BeginWrite, ReplaceFile, SaveFails, Close, Ended, Absent, Good
  <1>4. CASE Crash \/ UNCHANGED vars
    BY <1>4 DEF Crash, Ended, vars
  <1>5. CASE Damage
    BY <1>5 DEF Damage, Fault
  <1> QED
    BY <1>1, <1>2, <1>3, <1>4, <1>5 DEF Next

\* The steps of the one session, seen as steps of a linear history.
LEMMA StepRefines ==
  ASSUME OneSession, RefinementInv, [Next]_vars
  PROVE  [History!Next]_(History!vars)
  <1> DEFINE s == TheSession
             c == chain[s]
  <1>0. /\ Sessions = {s}
        /\ status \in [{s} -> {"closed", "idle", "saving", "writing"}]
        /\ chain \in [{s} -> Chain] /\ basis \in [{s} -> Chain]
        /\ Sound(c) /\ Sound(sidecar.chain) /\ Replays(sidecar.chain.revs)
        /\ sidecar.state = "absent" => sidecar.chain = EmptyChain
        /\ sidecar \in File
    BY DEF OneSession, RefinementInv, IInv, TypeOK, AllSound, AllReplay, OwnBasis
  <1>1. CASE Open(s)
    <2>1. /\ status[s] = "closed" /\ status'[s] # "closed"
          /\ \A d : Started(s, d) => chain'[s] = d
      BY <1>0, <1>1 DEF Open, OpenFresh, OpenRecover, OpenQuarantine, OpenQuarantineFails,
                        OpenTransient, Started
    <2>2. CASE OpenFresh(s)
      <3>1. chain'[s] = sidecar.chain /\ sidecar' = sidecar
        BY <1>0, <2>1, <2>2 DEF OpenFresh
      <3> QED
        BY <2>1, <3>1 DEF History!Next, History!Recover
    <2>3. CASE OpenRecover(s)
      <3>1. chain'[s] = sidecar.chain /\ sidecar' = sidecar
        BY <1>0, <2>1, <2>3 DEF OpenRecover
      <3> QED
        BY <2>1, <3>1 DEF History!Next, History!Recover
    <2>4. CASE OpenQuarantine(s) \/ OpenQuarantineFails(s) \/ OpenTransient(s)
      <3>1. /\ chain'[s] = EmptyChain
            /\ sidecar' = Absent \/ sidecar' = sidecar
        BY <2>1, <2>4 DEF OpenQuarantine, OpenQuarantineFails, OpenTransient
      <3>2. Faults \cap {"damage", "mismatch", "rename", "transient"} # {}
        BY <1>0, <2>4 DEF OpenQuarantine, OpenQuarantineFails, OpenTransient, Rejected, Fault,
                          RefinementInv, DamageIsAFault, Restorable, Sound
      <3>3. PastOf(chain'[s]) = <<>> /\ FutureOf(chain'[s]) = <<>>
        BY <3>1, EmptyHistory
      <3>4. sidecar' = Absent => PastOf(sidecar'.chain) = <<>> /\ FutureOf(sidecar'.chain) = <<>>
        BY EmptyHistory DEF Absent
      <3> QED
        BY <2>1, <3>1, <3>2, <3>3, <3>4 DEF History!Next, History!StartOver, History!Nothing
    <2> QED
      BY <1>1, <2>2, <2>3, <2>4 DEF Open
  <1>2. CASE Prepare(s)
    BY <1>2 DEF Prepare, History!vars
  <1>3. CASE Commit(s)
    <2>1. PICK e \in Batches : chain' = [chain EXCEPT ![s] = Extend(c, e)]
      BY <1>0, <1>3 DEF Commit, Mutated, RefinementInv, IInv, TypeOK, Transaction
    <2>2. status[s] # "closed" /\ status'[s] # "closed" /\ sidecar' = sidecar
      BY <1>0, <1>3 DEF Commit, Mutated, Idle
    <2>3. PastOf(chain'[s]) = Append(PastOf(c), e) /\ FutureOf(chain'[s]) = <<>>
      BY <1>0, <2>1, ExtendHistory, BatchesAreBatches
    <2> QED
      BY <2>1, <2>2, <2>3 DEF History!Next, History!Do
  <1>4. CASE ReplaceBytes(s)
    <2>1. PICK t \in Tensors, v \in Values :
            chain' = [chain EXCEPT ![s] = Extend(c,
                        <<[tensor |-> t, before |-> Read(c, t), after |-> v]>>)]
      BY <1>4 DEF ReplaceBytes, Mutated
    <2> DEFINE e == <<[tensor |-> t, before |-> Read(c, t), after |-> v]>>
    <2>2. e \in Batches
      <3>1. [tensor |-> t, before |-> Read(c, t), after |-> v] \in Command
        BY <1>0, ReadOfSound DEF Command
      <3>2. 1 \in 1..MaxBatch /\ e \in [1..1 -> Command]
        BY <3>1, EditingAssumption
      <3> QED
        BY <3>2 DEF Batches
    <2> HIDE DEF e
    <2>3. status[s] # "closed" /\ status'[s] # "closed" /\ sidecar' = sidecar
      BY <1>0, <1>4 DEF ReplaceBytes, Mutated, Idle
    <2>4. PastOf(chain'[s]) = Append(PastOf(c), e) /\ FutureOf(chain'[s]) = <<>>
      BY <1>0, <2>1, <2>2, ExtendHistory, BatchesAreBatches DEF e
    <2> QED
      BY <2>2, <2>3, <2>4 DEF History!Next, History!Do
  <1>5. CASE Undo(s)
    <2>1. /\ status[s] # "closed" /\ status'[s] # "closed" /\ sidecar' = sidecar
          /\ CanUndo(c) /\ chain'[s] = StepBack(c)
      BY <1>0, <1>5 DEF Undo, Mutated, Idle
    <2> QED
      BY <1>0, <2>1, UndoHistory DEF History!Next, History!Undo
  <1>6. CASE Redo(s)
    <2>1. /\ status[s] # "closed" /\ status'[s] # "closed" /\ sidecar' = sidecar
          /\ CanRedo(c) /\ chain'[s] = StepForward(c)
      BY <1>0, <1>6 DEF Redo, Mutated, Idle
    <2> QED
      BY <1>0, <2>1, RedoHistory DEF History!Next, History!Redo
  <1>7. CASE DiscardAll(s)
    <2>1. /\ status[s] # "closed" /\ status' = status
          /\ chain'[s] = EmptyChain /\ (sidecar' = Absent \/ sidecar' = sidecar)
      BY <1>0, <1>7 DEF DiscardAll, Idle
    <2>2. PastOf(chain'[s]) = <<>> /\ FutureOf(chain'[s]) = <<>>
      BY <2>1, EmptyHistory
    <2>3. sidecar' = Absent => PastOf(sidecar'.chain) = <<>> /\ FutureOf(sidecar'.chain) = <<>>
      BY EmptyHistory DEF Absent
    <2> QED
      BY <2>1, <2>2, <2>3 DEF History!Next, History!Discard, History!Nothing
  <1>8. CASE BeginWrite(s) \/ SaveFails(s)
    <2>1. /\ status[s] # "closed" /\ status'[s] # "closed"
          /\ chain' = chain /\ sidecar' = sidecar
      BY <1>0, <1>8 DEF BeginWrite, SaveFails
    <2> QED
      BY <2>1 DEF History!vars
  <1>9. CASE ReplaceFile(s)
    <2>1. /\ status[s] # "closed" /\ status'[s] # "closed"
          /\ chain' = chain /\ sidecar'.chain = c
      BY <1>0, <1>9 DEF ReplaceFile, Good
    <2> QED
      BY <2>1 DEF History!Next, History!Save
  <1>10. CASE Close(s) \/ Crash
    <2>1. /\ status[s] # "closed" /\ status'[s] = "closed"
          /\ chain'[s] = EmptyChain /\ sidecar' = sidecar
      BY <1>0, <1>10 DEF Close, Crash, Ended, Idle
    <2>2. PastOf(chain'[s]) = <<>> /\ FutureOf(chain'[s]) = <<>>
      BY <2>1, EmptyHistory
    <2> QED
      BY <2>1, <2>2 DEF History!Next, History!End
  <1>11. CASE Damage
    <2>1. status' = status /\ chain' = chain /\ sidecar'.chain = sidecar.chain
      BY <1>0, <1>11 DEF Damage, File
    <2> QED
      BY <2>1 DEF History!vars
  <1>12. CASE UNCHANGED vars
    BY <1>12 DEF vars, History!vars
  <1> QED
    BY <1>0, <1>1, <1>2, <1>3, <1>4, <1>5, <1>6, <1>7, <1>8, <1>9, <1>10, <1>11, <1>12 DEF Next

\* The revision chain, its cursor and its sidecar implement one linear undo history with
\* a durable copy, whatever the environment does, for any tensors, payloads and bounds,
\* of an artifact open in one session at a time whose revisions have one command each.
THEOREM EditingIsAHistory == OneSession /\ MaxBatch = 1 => (Spec => ImplementsHistory)
  <1> SUFFICES ASSUME OneSession, MaxBatch = 1 PROVE Spec => ImplementsHistory
    OBVIOUS
  <1>1. Init => History!Init
    <2> SUFFICES ASSUME Init PROVE History!Init
      OBVIOUS
    <2>1. /\ status[TheSession] = "closed" /\ chain[TheSession] = EmptyChain
          /\ sidecar.chain = EmptyChain
      BY DEF Init, OneSession, Absent
    <2> QED
      BY <2>1, EmptyHistory DEF History!Init, History!Nothing
  <1>2. Init => RefinementInv
    <2>1. Init => AllReplay /\ OwnBasis(TheSession) /\ DamageIsAFault
      BY EmptyReplays DEF Init, AllReplay, OwnBasis, DamageIsAFault, OneSession, Absent
    <2> QED
      BY <2>1, Initially DEF RefinementInv
  <1>3. RefinementInv /\ [Next]_vars => RefinementInv'
    BY Inductive, ReplayStep, OwnStep, DamageStep DEF RefinementInv, IInv, OneSession
  <1>4. RefinementInv /\ [Next]_vars => [History!Next]_(History!vars)
    BY StepRefines
  <1> QED
    BY <1>1, <1>2, <1>3, <1>4, PTL DEF Spec, ImplementsHistory, History!Spec

=============================================================================
