--------------------------- MODULE StatisticsProofs ---------------------------
(***************************************************************************)
(* What the statistics of a session are computed from, for any number of   *)
(* passes, sessions, tensors, payloads and chunks, and any history.        *)
(*                                                                         *)
(* The cached entries say nothing inductive of themselves: what they will  *)
(* hold is decided while a pass reads.  So the invariant speaks of the     *)
(* passes: one whose revision has not come back has, as long as that       *)
(* revision is current, read that revision only; one over source bytes     *)
(* has read the source only.  Of the file it says that whatever is in it   *)
(* is in the memory of every session that has read it, or known to be      *)
(* missing there.                                                          *)
(***************************************************************************)
EXTENDS SessionStatistics, RevisionChainTheorems

\* All chunks of a summary were read from one payload.
From(seen, v) == \A i \in DOMAIN seen : seen[i] = v

\* A pass over edited bytes whose revision has not come back.
PassesFaithful ==
  \A p \in Passes :
    pass[p].busy /\ pass[p].edited /\ ~pass[p].back /\ CurrentRevisionId(chain) = pass[p].rev
      => From(pass[p].seen, PayloadAt(pass[p].rev, pass[p].tensor))

\* A pass over source bytes; its session has read the sidecar before.
PassesPure ==
  \A p \in Passes : ~pass[p].edited =>
    From(pass[p].seen, BaseValue) /\ (pass[p].busy => Own \in loaded)

StoredTyped ==
  /\ loaded \subseteq Sessions /\ known \in [Sessions -> [Tensors -> Summary]]
  /\ sidecar \in [Tensors -> Summary] /\ reported \subseteq Tensors
  /\ missed \in [Sessions -> SUBSET Tensors]

\* What is kept of passes over source bytes, in any session and on disk.
StoredPure ==
  /\ \A s \in Sessions : \A t \in Tensors : From(known[s][t], BaseValue)
  /\ \A t \in Tensors : From(sidecar[t], BaseValue)

\* What is on disk is in the memory that may replace it, or has been missed there.
DiskAccounted ==
  /\ \A s \in loaded : Entries(sidecar) \subseteq Entries(known[s]) \cup missed[s]
  /\ reported \subseteq Entries(sidecar)

Stored == StoredTyped /\ StoredPure /\ DiskAccounted

IInv == TypeOK /\ Sound(chain) /\ PassesFaithful /\ OnlyReturnsTear /\ PassesPure /\ Stored

-----------------------------------------------------------------------------
(* Types. *)

\* A summary is a sequence of at most Reads payloads.
LEMMA SummaryIsSeq == \A s : s \in Summary <=> s \in Seq(Values) /\ Len(s) <= Reads
  <1>1. ASSUME NEW s \in Summary PROVE s \in Seq(Values) /\ Len(s) <= Reads
    <2>1. PICK n \in 0..Reads : s \in [1..n -> Values]
      BY DEF Summary
    <2> QED
      BY <2>1, StatisticsAssumption
  <1>2. ASSUME NEW s \in Seq(Values), Len(s) <= Reads PROVE s \in Summary
    <2>1. Len(s) \in 0..Reads /\ s \in [1..Len(s) -> Values]
      BY <1>2, StatisticsAssumption
    <2> QED
      BY <2>1 DEF Summary
  <1> QED
    BY <1>1, <1>2

\* No summary is a summary, and comes from any payload.
LEMMA NoneTyped == None \in Summary /\ \A v : From(None, v)
  <1>1. <<>> \in Seq(Values) /\ Len(<<>>) = 0
    OBVIOUS
  <1>2. Reads \in Nat
    BY StatisticsAssumption
  <1>3. <<>> \in Summary
    <2>1. Len(<<>>) <= Reads
      BY <1>1, <1>2
    <2> QED
      BY <1>1, <2>1, SummaryIsSeq, Zenon
  <1> QED
    BY <1>3 DEF None, From

\* A chunk more is a summary still, of the same payload if it is of that one.
LEMMA ReadOneMore ==
  ASSUME NEW s \in Summary, Len(s) < Reads, NEW v \in Values
  PROVE  /\ Append(s, v) \in Summary
         /\ From(s, v) => From(Append(s, v), v)
  <1>1. s \in Seq(Values) /\ Len(s) \in Nat /\ Reads \in Nat
    BY SummaryIsSeq, StatisticsAssumption
  <1>2. Append(s, v) \in Seq(Values) /\ Len(Append(s, v)) <= Reads
    BY <1>1
  <1>3. Append(s, v) \in Summary
    BY <1>2, SummaryIsSeq
  <1>4. ASSUME From(s, v), NEW i \in DOMAIN Append(s, v) PROVE Append(s, v)[i] = v
    BY <1>1, <1>4 DEF From
  <1> QED
    BY <1>3, <1>4 DEF From

\* A sound chain reads as payloads, named by its current revision id.
LEMMA ReadOfSound ==
  ASSUME NEW c, Sound(c), NEW t
  PROVE  Read(c, t) \in Values /\ Read(c, t) = PayloadAt(CurrentRevisionId(c), t)
  BY ReadTyped, CurrentIdTellsContents DEF Sound, Chain, WellLinked, Read

\* The idle pass is one.
LEMMA IdlePassTyped ==
  /\ IdlePass \in [busy : BOOLEAN, tensor : Tensors, rev : RevId,
                   edited : BOOLEAN, seen : Summary, back : BOOLEAN]
  /\ ~IdlePass.busy /\ ~IdlePass.edited /\ IdlePass.seen = None
  <1>1. (CHOOSE t \in Tensors : TRUE) \in Tensors
    BY StatisticsAssumption
  <1> QED
    BY <1>1, NoneTyped DEF IdlePass, BASE_PARENT, RevId

\* A revised chain does not change what a pass is, but that its revision may be back.
LEMMA ChangedPasses ==
  ASSUME TypeOK, NEW c, Changed(c), NEW p \in Passes
  PROVE  /\ pass'[p] \in [busy : BOOLEAN, tensor : Tensors, rev : RevId,
                          edited : BOOLEAN, seen : Summary, back : BOOLEAN]
         /\ pass'[p].busy = pass[p].busy /\ pass'[p].tensor = pass[p].tensor
         /\ pass'[p].rev = pass[p].rev /\ pass'[p].edited = pass[p].edited
         /\ pass'[p].seen = pass[p].seen
         /\ ~pass'[p].back =>
              ~pass[p].back /\ ~(pass[p].edited /\ CurrentRevisionId(c) = pass[p].rev)
  BY DEF TypeOK, Changed

\* Every move of the user leaves a sound chain.
LEMMA MovesSound ==
  ASSUME Sound(chain), Commit \/ Undo \/ Redo \/ Discard
  PROVE  Sound(chain') /\ Changed(chain')
  <1>1. CASE Commit
    <2>1. PICK t \in Tensors, v \in Values :
            Changed(Extend(chain, <<[tensor |-> t, before |-> Read(chain, t), after |-> v]>>))
      BY <1>1 DEF Commit
    <2>2. <<[tensor |-> t, before |-> Read(chain, t), after |-> v]>> \in Batch
      BY ReadOfSound DEF Batch, Command
    <2> QED
      BY <2>1, <2>2, ExtendSound DEF Changed
  <1>2. CASE Undo
    BY <1>2, StepsSound DEF Undo, Changed
  <1>3. CASE Redo
    BY <1>3, StepsSound DEF Redo, Changed
  <1>4. CASE Discard
    BY <1>4, EmptySound DEF Discard, Changed
  <1> QED
    BY <1>1, <1>2, <1>3, <1>4

\* Steps that leave the sessions' memories and the file alone.
LEMMA StoredStays == IInv /\ UNCHANGED stored => Stored'
  <1> SUFFICES ASSUME IInv, UNCHANGED stored PROVE Stored'
    OBVIOUS
  <1>1. UNCHANGED <<loaded, known, sidecar, missed, reported>>
    BY DEF stored
  <1> QED
    BY <1>1 DEF IInv, Stored, StoredTyped, StoredPure, DiskAccounted, Entries

\* What a user's move leaves of the invariant: all of it.
LEMMA MovesKeep ==
  ASSUME IInv, Commit \/ Undo \/ Redo \/ Discard
  PROVE  IInv'
  <1>1. Sound(chain') /\ Changed(chain')
    BY MovesSound DEF IInv
  <1>2. chain' \in Chain
    BY <1>1 DEF Sound
  <1>3. UNCHANGED <<editedStats, stored>> /\ DOMAIN pass' = Passes
    BY <1>1 DEF Changed
  <1>4. TypeOK'
    BY <1>1, <1>2, <1>3, ChangedPasses DEF IInv, TypeOK, Changed, stored
  <1>5. PassesFaithful'
    BY <1>1, ChangedPasses DEF IInv, PassesFaithful
  <1>6. PassesPure'
    BY <1>1, <1>3, ChangedPasses DEF IInv, PassesPure, stored
  <1>7. OnlyReturnsTear' /\ Stored'
    BY <1>3, StoredStays DEF IInv, OnlyReturnsTear
  <1> QED
    BY <1>1, <1>4, <1>5, <1>6, <1>7 DEF IInv

-----------------------------------------------------------------------------
(* The steps of a pass. *)

\* Beginning one.
LEMMA BeginKeeps ==
  ASSUME IInv, NEW p \in Passes, NEW t \in Tensors, BeginPass(p, t)
  PROVE  IInv'
  <1> DEFINE rev == IF ServesEditedBytes(t) THEN CurrentRevisionId(chain) ELSE BASE_PARENT
  <1>1. CurrentRevisionId(chain) \in RevId /\ ServesEditedBytes(t) \in BOOLEAN
    BY CurrentIdSpelled DEF IInv, ServesEditedBytes
  <1>2. pass' = [pass EXCEPT ![p] =
          [busy |-> TRUE, tensor |-> t, rev |-> rev, edited |-> ServesEditedBytes(t),
           seen |-> None, back |-> FALSE]]
        /\ UNCHANGED <<chain, editedStats, stored>>
        /\ (~ServesEditedBytes(t) => Own \in loaded)
    BY DEF BeginPass
  <1>r. rev \in RevId
    BY <1>1 DEF BASE_PARENT, RevId
  <1> HIDE DEF rev
  <1>3. TypeOK'
    BY <1>1, <1>2, <1>r, NoneTyped DEF IInv, TypeOK, stored
  <1>4. PassesFaithful'
    BY <1>2, NoneTyped DEF IInv, TypeOK, PassesFaithful
  <1>5. PassesPure'
    BY <1>1, <1>2, NoneTyped DEF IInv, TypeOK, PassesPure, stored
  <1> QED
    BY <1>2, <1>3, <1>4, <1>5, StoredStays DEF IInv, OnlyReturnsTear

\* Reading a chunk: from the chain as it is now, or from the source.
LEMMA ReadKeeps ==
  ASSUME IInv, NEW p \in Passes, ReadChunk(p)
  PROVE  IInv'
  <1> DEFINE v == IF pass[p].edited THEN Read(chain, pass[p].tensor) ELSE BaseValue
  <1>1. pass' = [pass EXCEPT ![p].seen = Append(@, v)]
        /\ UNCHANGED <<chain, editedStats, stored>>
    BY DEF ReadChunk
  <1>2. v \in Values
    BY ReadOfSound, BaseAssumption DEF IInv
  <1>3. pass[p].seen \in Summary /\ Len(pass[p].seen) < Reads
    BY DEF IInv, TypeOK, ReadChunk
  <1> HIDE DEF v
  <1>4. Append(pass[p].seen, v) \in Summary
    BY <1>2, <1>3, ReadOneMore
  <1>5. From(pass[p].seen, v) => From(Append(pass[p].seen, v), v)
    BY <1>2, <1>3, ReadOneMore
  <1>6. pass'[p] = [pass[p] EXCEPT !.seen = Append(pass[p].seen, v)]
        /\ \A q \in Passes \ {p} : pass'[q] = pass[q]
    BY <1>1 DEF IInv, TypeOK
  <1>7. TypeOK'
    BY <1>1, <1>4 DEF IInv, TypeOK, stored
  <1>8. PassesFaithful'
    <2> SUFFICES ASSUME NEW q \in Passes, pass'[q].busy, pass'[q].edited, ~pass'[q].back,
                        CurrentRevisionId(chain') = pass'[q].rev
                 PROVE  From(pass'[q].seen, PayloadAt(pass'[q].rev, pass'[q].tensor))
      BY DEF PassesFaithful
    <2>1. CASE q # p
      BY <1>1, <1>6, <2>1 DEF IInv, PassesFaithful
    <2>2. CASE q = p
      <3>1. /\ pass'[p].seen = Append(pass[p].seen, v)
            /\ pass'[p].rev = pass[p].rev /\ pass'[p].tensor = pass[p].tensor
            /\ pass[p].busy /\ pass[p].edited /\ ~pass[p].back
        BY <1>6, <2>2 DEF IInv, TypeOK
      <3>2. v = PayloadAt(pass[p].rev, pass[p].tensor)
        BY <1>1, <2>2, <3>1, ReadOfSound DEF v, IInv
      <3> QED
        BY <1>1, <1>5, <2>2, <3>1, <3>2 DEF IInv, PassesFaithful
    <2> QED
      BY <2>1, <2>2
  <1>9. PassesPure'
    <2> SUFFICES ASSUME NEW q \in Passes, ~pass'[q].edited
                 PROVE  From(pass'[q].seen, BaseValue) /\ (pass'[q].busy => Own \in loaded)
      BY <1>1 DEF PassesPure, stored
    <2>1. CASE q # p
      BY <1>6, <2>1 DEF IInv, PassesPure
    <2>2. CASE q = p
      <3>1. /\ ~pass[p].edited /\ pass'[p].seen = Append(pass[p].seen, v)
            /\ pass'[p].busy = pass[p].busy
        BY <1>6, <2>2 DEF IInv, TypeOK
      <3> QED
        BY <1>5, <2>2, <3>1 DEF v, IInv, PassesPure
    <2> QED
      BY <2>1, <2>2
  <1> QED
    BY <1>1, <1>7, <1>8, <1>9, StoredStays DEF IInv, OnlyReturnsTear

\* A pass that ends leaves the other passes as they were.
LEMMA EndedPass ==
  ASSUME IInv, NEW p \in Passes, pass' = [pass EXCEPT ![p] = IdlePass], UNCHANGED chain
  PROVE  /\ pass' \in [Passes -> [busy : BOOLEAN, tensor : Tensors, rev : RevId,
                                  edited : BOOLEAN, seen : Summary, back : BOOLEAN]]
         /\ PassesFaithful'
         /\ loaded' = loaded => PassesPure'
  BY IdlePassTyped, NoneTyped DEF IInv, TypeOK, PassesFaithful, PassesPure

\* Publishing statistics of edited bytes: the entry is of the current revision.
LEMMA PublishEditedKeeps ==
  ASSUME IInv, NEW p \in Passes, PublishEdited(p)
  PROVE  IInv'
  <1>1. /\ pass' = [pass EXCEPT ![p] = IdlePass]
        /\ UNCHANGED <<chain, stored>>
        /\ pass[p].busy /\ pass[p].edited
    BY DEF PublishEdited, Finished
  <1>2. \A e \in editedStats' :
          \/ e \in editedStats
          \/ e = Entry(p) /\ CurrentRevisionId(chain) = pass[p].rev
    BY DEF PublishEdited, Put
  <1>3. Entry(p) \in [rev : RevId, tensor : Tensors, seen : Summary, back : BOOLEAN]
    BY DEF Entry, IInv, TypeOK
  <1>4. TypeOK'
    BY <1>1, <1>2, <1>3, EndedPass DEF IInv, TypeOK, stored
  <1>5. OnlyReturnsTear'
    <2> SUFFICES ASSUME NEW e \in editedStats', ~e.back
                 PROVE  From(e.seen, PayloadAt(e.rev, e.tensor))
      BY DEF OnlyReturnsTear, From
    <2>1. CASE e \in editedStats
      BY <2>1 DEF IInv, OnlyReturnsTear, From
    <2>2. CASE e = Entry(p) /\ CurrentRevisionId(chain) = pass[p].rev
      BY <1>1, <2>2 DEF IInv, PassesFaithful, Entry
    <2> QED
      BY <1>2, <2>1, <2>2
  <1> QED
    BY <1>1, <1>4, <1>5, EndedPass, StoredStays DEF IInv, stored

\* An entry more, in the memory of a session that has read the file and, unless the save
\* fails, with all of that memory in the file.
LEMMA KeepKeeps ==
  ASSUME IInv, NEW s \in loaded, NEW t \in Tensors, NEW seen \in Summary, seen # None,
         From(seen, BaseValue), Keep(s, t, seen)
  PROVE  Stored' /\ loaded' = loaded
  <1>1. /\ known \in [Sessions -> [Tensors -> Summary]] /\ sidecar \in [Tensors -> Summary]
        /\ missed \in [Sessions -> SUBSET Tensors] /\ reported \subseteq Tensors
        /\ loaded \subseteq Sessions /\ s \in Sessions
    BY DEF IInv, Stored, StoredTyped
  <1>2. loaded' = loaded /\ known' = [known EXCEPT ![s] = [@ EXCEPT ![t] = seen]]
    BY DEF Keep
  <1>4. known'[s] = [known[s] EXCEPT ![t] = seen]
        /\ \A q \in Sessions \ {s} : known'[q] = known[q]
    BY <1>1, <1>2
  <1>5. known' \in [Sessions -> [Tensors -> Summary]]
    BY <1>1, <1>2
  <1>6. Entries(known'[s]) = Entries(known[s]) \cup {t}
    BY <1>1, <1>4 DEF Entries
  <1>7. \A q \in Sessions : \A u \in Tensors : From(known'[q][u], BaseValue)
    BY <1>1, <1>4 DEF IInv, Stored, StoredPure
  <1>8. CASE /\ sidecar' = known'[s]
             /\ reported' = (reported \cup {t}) \ (missed[s] \ Entries(sidecar'))
             /\ missed' = [q \in Sessions |-> Misses(q, s, Entries(sidecar'))]
    <2>1. missed' \in [Sessions -> SUBSET Tensors]
      BY <1>1, <1>8 DEF Misses, Entries
    <2>2. StoredTyped'
      BY <1>1, <1>2, <1>5, <1>8, <2>1 DEF StoredTyped
    <2>3. StoredPure'
      BY <1>1, <1>7, <1>8 DEF StoredPure
    <2>4. reported' \subseteq Entries(sidecar')
      BY <1>6, <1>8 DEF IInv, Stored, DiskAccounted
    <2>5. ASSUME NEW q \in loaded
          PROVE  Entries(sidecar') \subseteq Entries(known'[q]) \cup missed'[q]
      <3>1. CASE q = s
        BY <1>8, <3>1
      <3>2. CASE q # s
        <4>1. missed'[q] = missed[q] \cup (Entries(sidecar') \ Entries(known[q]))
          BY <1>1, <1>8, <3>2 DEF Misses
        <4>2. known'[q] = known[q]
          BY <1>1, <1>4, <3>2
        <4> QED
          BY <4>1, <4>2
      <3> QED
        BY <3>1, <3>2
    <2> QED
      BY <1>2, <2>2, <2>3, <2>4, <2>5 DEF Stored, DiskAccounted, Entries
  <1>9. CASE UNCHANGED <<sidecar, reported, missed>>
    <2>1. StoredTyped' /\ StoredPure'
      BY <1>1, <1>2, <1>5, <1>7, <1>9 DEF IInv, Stored, StoredTyped, StoredPure
    <2>2. \A q \in Sessions : Entries(known[q]) \subseteq Entries(known'[q])
      BY <1>4, <1>6
    <2> QED
      BY <1>1, <1>2, <1>9, <2>1, <2>2 DEF IInv, Stored, DiskAccounted, Entries
  <1> QED
    BY <1>2, <1>8, <1>9 DEF Keep

\* Publishing statistics of source bytes.
LEMMA PublishBaseKeeps ==
  ASSUME IInv, NEW p \in Passes, PublishBase(p)
  PROVE  IInv'
  <1>1. /\ pass' = [pass EXCEPT ![p] = IdlePass]
        /\ Keep(Own, pass[p].tensor, pass[p].seen)
        /\ UNCHANGED <<chain, editedStats>>
        /\ pass[p].busy /\ ~pass[p].edited /\ Len(pass[p].seen) = Reads
    BY DEF PublishBase, Finished
  <1>2. pass[p].tensor \in Tensors /\ pass[p].seen \in Summary
    BY DEF IInv, TypeOK
  <1>3. Len(<<>>) = 0 /\ Reads # 0
    BY StatisticsAssumption
  <1>4. From(pass[p].seen, BaseValue) /\ Own \in loaded /\ pass[p].seen # None
    BY <1>1, <1>3 DEF IInv, PassesPure, None
  <1>5. Stored' /\ loaded' = loaded
    BY <1>1, <1>2, <1>4, KeepKeeps
  <1>6. TypeOK'
    BY <1>1, <1>5, EndedPass DEF IInv, TypeOK, Stored, StoredTyped
  <1> QED
    BY <1>1, <1>5, <1>6, EndedPass DEF IInv, OnlyReturnsTear

\* Giving up publishes nothing.
LEMMA AbandonKeeps ==
  ASSUME IInv, NEW p \in Passes, AbandonPass(p)
  PROVE  IInv'
  <1>1. pass' = [pass EXCEPT ![p] = IdlePass] /\ UNCHANGED <<chain, editedStats, stored>>
    BY DEF AbandonPass
  <1>2. TypeOK'
    BY <1>1, EndedPass DEF IInv, TypeOK, stored
  <1> QED
    BY <1>1, <1>2, EndedPass, StoredStays DEF IInv, OnlyReturnsTear, stored

-----------------------------------------------------------------------------
(* The steps of the sessions. *)

\* Steps that touch the sessions' memories and the file only.
LEMMA OnlyStored ==
  ASSUME IInv, Stored', loaded \subseteq loaded', UNCHANGED <<chain, pass, editedStats>>
  PROVE  IInv'
  BY DEF IInv, TypeOK, PassesFaithful, OnlyReturnsTear, PassesPure, Stored, StoredTyped

\* Reading the file, or some of it: what is not read is missed.
LEMMA LoadKeeps ==
  ASSUME IInv, NEW s \in Sessions, Load(s)
  PROVE  IInv'
  <1>1. PICK K \in SUBSET Entries(sidecar) :
          /\ known' = [known EXCEPT ![s] =
                         [t \in Tensors |-> IF t \in K THEN sidecar[t] ELSE None]]
          /\ missed' = [missed EXCEPT ![s] = Entries(sidecar) \ K]
    BY DEF Load
  <1>2. loaded' = loaded \cup {s} /\ UNCHANGED <<chain, pass, editedStats, sidecar, reported>>
    BY DEF Load
  <1>3. /\ known \in [Sessions -> [Tensors -> Summary]] /\ sidecar \in [Tensors -> Summary]
        /\ missed \in [Sessions -> SUBSET Tensors] /\ reported \subseteq Tensors
        /\ loaded \subseteq Sessions
    BY DEF IInv, Stored, StoredTyped
  <1>4. /\ known'[s] = [t \in Tensors |-> IF t \in K THEN sidecar[t] ELSE None]
        /\ \A q \in Sessions \ {s} : known'[q] = known[q] /\ missed'[q] = missed[q]
        /\ missed'[s] = Entries(sidecar) \ K
    BY <1>1, <1>3
  <1>5. known'[s] \in [Tensors -> Summary]
    BY <1>3, <1>4, NoneTyped
  <1>6. StoredTyped'
    BY <1>1, <1>2, <1>3, <1>4, <1>5 DEF StoredTyped, Entries
  <1>7. StoredPure'
    BY <1>2, <1>4, NoneTyped DEF IInv, Stored, StoredPure
  <1>8. K \subseteq Entries(known'[s])
    BY <1>3, <1>4 DEF Entries
  <1>9. DiskAccounted'
    <2>1. Entries(sidecar) \subseteq Entries(known'[s]) \cup missed'[s]
      BY <1>4, <1>8
    <2>2. ASSUME NEW q \in loaded, q # s
          PROVE  Entries(sidecar) \subseteq Entries(known'[q]) \cup missed'[q]
      <3>1. known'[q] = known[q] /\ missed'[q] = missed[q]
        BY <1>3, <1>4, <2>2
      <3> QED
        BY <3>1 DEF IInv, Stored, DiskAccounted
    <2>3. Entries(sidecar') = Entries(sidecar)
      BY <1>2 DEF Entries
    <2>4. \A q \in loaded' : Entries(sidecar') \subseteq Entries(known'[q]) \cup missed'[q]
      BY <1>2, <2>1, <2>2, <2>3
    <2>5. reported' \subseteq Entries(sidecar')
      BY <1>2, <2>3 DEF IInv, Stored, DiskAccounted
    <2> QED
      BY <2>4, <2>5 DEF DiskAccounted, Entries
  <1> QED
    BY <1>2, <1>6, <1>7, <1>9, OnlyStored DEF Stored

\* Another session publishes.
LEMMA ElsewhereKeeps ==
  ASSUME IInv, NEW s \in Sessions, NEW t \in Tensors, PublishElsewhere(s, t)
  PROVE  IInv'
  <1> DEFINE seen == [i \in 1..Reads |-> BaseValue]
  <1>1. s \in loaded /\ Keep(s, t, seen) /\ UNCHANGED <<chain, pass, editedStats>>
    BY DEF PublishElsewhere
  <1>2. Reads \in Nat \ {0} /\ BaseValue \in Values
    BY StatisticsAssumption, BaseAssumption
  <1>3. seen \in Summary /\ From(seen, BaseValue)
    BY <1>2 DEF Summary, From
  <1>4. seen # None
    <2>1. 1 \in DOMAIN seen /\ DOMAIN <<>> = {}
      BY <1>2
    <2> QED
      BY <2>1 DEF None
  <1> HIDE DEF seen
  <1>5. Stored' /\ loaded' = loaded
    BY <1>1, <1>3, <1>4, KeepKeeps
  <1> QED
    BY <1>1, <1>5, OnlyStored

\* A new session has no passes and has not read the file.
LEMMA ReopenKeeps ==
  ASSUME IInv, NEW s \in Sessions, Reopen(s)
  PROVE  IInv'
  <1>1. /\ loaded' = loaded \ {s} /\ UNCHANGED <<chain, sidecar, reported>>
        /\ known' = [known EXCEPT ![s] = NoStatistics]
        /\ missed' = [missed EXCEPT ![s] = {}]
    BY DEF Reopen
  <1>2. /\ known \in [Sessions -> [Tensors -> Summary]] /\ sidecar \in [Tensors -> Summary]
        /\ missed \in [Sessions -> SUBSET Tensors] /\ reported \subseteq Tensors
        /\ loaded \subseteq Sessions
    BY DEF IInv, Stored, StoredTyped
  <1>3. NoStatistics \in [Tensors -> Summary] /\ \A t \in Tensors : From(NoStatistics[t], BaseValue)
    BY NoneTyped DEF NoStatistics
  <1>4. known'[s] = NoStatistics /\ \A q \in Sessions \ {s} : known'[q] = known[q] /\ missed'[q] = missed[q]
    BY <1>1, <1>2
  <1>5. StoredTyped'
    BY <1>1, <1>2, <1>3 DEF StoredTyped
  <1>6. StoredPure'
    BY <1>1, <1>3, <1>4 DEF IInv, Stored, StoredPure
  <1>7. DiskAccounted'
    BY <1>1, <1>2, <1>4 DEF IInv, Stored, DiskAccounted, Entries
  <1>8. CASE s = Own
    <2>1. pass' = [p \in Passes |-> IdlePass] /\ editedStats' = {}
      BY <1>8 DEF Reopen
    <2>2. TypeOK'
      BY <1>1, <1>5, <2>1, IdlePassTyped DEF IInv, TypeOK, StoredTyped
    <2>3. PassesFaithful' /\ PassesPure'
      BY <2>1, IdlePassTyped, NoneTyped DEF PassesFaithful, PassesPure
    <2> QED
      BY <1>1, <1>5, <1>6, <1>7, <2>1, <2>2, <2>3 DEF IInv, Stored, OnlyReturnsTear
  <1>9. CASE s # Own
    <2>1. UNCHANGED <<pass, editedStats>>
      BY <1>9 DEF Reopen
    <2>2. TypeOK'
      BY <1>1, <1>5, <2>1 DEF IInv, TypeOK, StoredTyped
    <2>3. PassesFaithful' /\ PassesPure'
      BY <1>1, <1>9, <2>1 DEF IInv, PassesFaithful, PassesPure
    <2> QED
      BY <1>1, <1>5, <1>6, <1>7, <2>1, <2>2, <2>3 DEF IInv, Stored, OnlyReturnsTear
  <1> QED
    BY <1>8, <1>9

-----------------------------------------------------------------------------
(* The invariant. *)

\* A session begins with nothing read and nothing kept.
LEMMA Initially == Init => IInv
  <1> SUFFICES ASSUME Init PROVE IInv
    OBVIOUS
  <1>1. Sound(chain) /\ chain \in Chain
    BY EmptySound DEF Init, Sound
  <1>2. TypeOK
    BY <1>1, IdlePassTyped, NoneTyped DEF Init, TypeOK, NoStatistics
  <1>3. PassesFaithful /\ PassesPure
    BY IdlePassTyped, NoneTyped DEF Init, PassesFaithful, PassesPure
  <1>4. OnlyReturnsTear /\ Stored
    <2>1. StoredTyped
      BY NoneTyped DEF Init, StoredTyped, NoStatistics
    <2> QED
      BY <2>1, NoneTyped
      DEF Init, OnlyReturnsTear, Stored, StoredPure, DiskAccounted, NoStatistics
  <1> QED
    BY <1>1, <1>2, <1>3, <1>4 DEF IInv

\* Every step keeps it.
LEMMA Inductive == IInv /\ [Next]_vars => IInv'
  <1> SUFFICES ASSUME IInv, [Next]_vars PROVE IInv'
    OBVIOUS
  <1>1. CASE Commit \/ Undo \/ Redo \/ Discard
    BY <1>1, MovesKeep
  <1>2. ASSUME NEW p \in Passes, Pass(p) PROVE IInv'
    <2>1. CASE \E t \in Tensors : BeginPass(p, t)
      BY <2>1, BeginKeeps
    <2>2. CASE ReadChunk(p)
      BY <2>2, ReadKeeps
    <2>3. CASE PublishEdited(p)
      BY <2>3, PublishEditedKeeps
    <2>4. CASE PublishBase(p)
      BY <2>4, PublishBaseKeeps
    <2>5. CASE AbandonPass(p)
      BY <2>5, AbandonKeeps
    <2> QED
      BY <1>2, <2>1, <2>2, <2>3, <2>4, <2>5 DEF Pass
  <1>3. ASSUME NEW s \in Sessions, Session(s) PROVE IInv'
    BY <1>3, LoadKeeps, ElsewhereKeeps, ReopenKeeps DEF Session
  <1>4. CASE UNCHANGED vars
    <2>1. UNCHANGED <<chain, pass, editedStats, stored, loaded>>
      BY <1>4 DEF vars, stored
    <2> QED
      BY <2>1, StoredStays, OnlyStored
  <1> QED
    BY <1>1, <1>2, <1>3, <1>4 DEF Next

\* The invariant holds of every reachable state.
LEMMA Invariance == Spec => []IInv
  BY Initially, Inductive, PTL DEF Spec

\* Every variable of the session's statistics keeps its type.
THEOREM TypeCorrect == Spec => []TypeOK
  <1>1. IInv => TypeOK
    BY DEF IInv
  <1> QED
    BY <1>1, Invariance, PTL

\* The check of the revision at the end of a pass (session.py, compute_statistics)
\* lets through no statistics of mixed revisions, unless the history left the
\* captured revision and came back to it during the pass.
THEOREM OnlyReturnsCanTear == Spec => []OnlyReturnsTear
  <1>1. IInv => OnlyReturnsTear
    BY DEF IInv
  <1> QED
    BY <1>1, Invariance, PTL

\* The statistics shared by content hash are computed from source bytes only, in every
\* session and on disk, whatever is edited while they are.
THEOREM SharedStatisticsStayPure == Spec => []SharedStatisticsPure
  <1>1. IInv => SharedStatisticsPure
    BY DEF IInv, Stored, StoredPure, From, SharedStatisticsPure
  <1> QED
    BY <1>1, Invariance, PTL

\* Statistics reported as computed stay on disk: passes and sessions that interleave,
\* failing saves and restarts lose none, and neither does a file that cannot be read, or
\* that another session has written since, until a session that missed entries saves.
THEOREM ReportedStatisticsStay == Spec => []ReportedStatisticsKept
  <1>1. IInv => ReportedStatisticsKept
    BY DEF IInv, Stored, DiskAccounted, ReportedStatisticsKept
  <1> QED
    BY <1>1, Invariance, PTL

\* Together: what compute_statistics() may leave in the caches, for any passes over any
\* tensors.
THEOREM StatisticsAreSound == Spec => []StatisticsSound
  <1>1. TypeOK /\ OnlyReturnsTear /\ SharedStatisticsPure => StatisticsSound
    BY DEF StatisticsSound
  <1> QED
    BY <1>1, TypeCorrect, OnlyReturnsCanTear, SharedStatisticsStayPure, PTL
=============================================================================
