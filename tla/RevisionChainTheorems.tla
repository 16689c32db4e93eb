------------------------ MODULE RevisionChainTheorems ------------------------
(***************************************************************************)
(* What the operators of RevisionChain return and preserve, for any        *)
(* tensors, payloads and length of chain.                                  *)
(***************************************************************************)
EXTENDS RevisionChain, SequenceTheorems, WellFoundedInduction, TLAPS

-----------------------------------------------------------------------------
(* Reads are defined: the writes to a tensor have a last one. *)

\* A non-empty set of numbers up to n has a largest element.
LEMMA LargestExists ==
  ASSUME NEW n \in Nat, NEW S \in SUBSET (0..n), S # {}
  PROVE  \E m \in S : \A i \in S : i <= m
  <1> DEFINE T == {n - i : i \in S}
           R == OpToRel(<, Nat)
  <1>1. \A i \in S : i \in Nat /\ i <= n /\ n - i \in Nat /\ n - i \in T
    OBVIOUS
  <1>2. T \subseteq Nat
    BY <1>1
  <1>3. T # {}
    BY <1>1
  <1> HIDE DEF T
  <1>4. \E d \in T : \A e \in T : ~(<<e, d>> \in R)
    BY <1>2, <1>3, NatLessThanWellFounded, WFMin, Zenon
  <1>5. PICK d \in T : \A e \in T : ~(<<e, d>> \in R)
    BY <1>4
  <1>6. \A e \in T : ~(e < d)
    BY <1>2, <1>5 DEF OpToRel
  <1>7. PICK m \in S : d = n - m
    BY DEF T
  <1> QED
    BY <1>1, <1>6, <1>7

\* Positions whose revisions and commands are bounded have a last one.
LEMMA LastIsMember ==
  ASSUME NEW ws, ws # {}, NEW n \in Nat,
         \A w \in ws : w[1] \in 0..n /\ w[2] \in Nat,
         \A i \in 0..n : \E m \in Nat : \A w \in ws : w[1] = i => w[2] \in 0..m
  PROVE  LastOf(ws) \in ws
  <1> DEFINE I == {w[1] : w \in ws}
  <1>1. I \in SUBSET (0..n) /\ I # {}
    OBVIOUS
  <1>2. PICK i \in I : \A e \in I : e <= i
    BY <1>1, LargestExists
  <1>3. PICK m \in Nat : \A w \in ws : w[1] = i => w[2] \in 0..m
    BY <1>1
  <1> DEFINE J == {w[2] : w \in {x \in ws : x[1] = i}}
  <1>4. J \in SUBSET (0..m) /\ J # {}
    BY <1>3
  <1>5. PICK j \in J : \A e \in J : e <= j
    BY <1>4, LargestExists
  <1>6. PICK v \in ws : v[1] = i /\ v[2] = j
    OBVIOUS
  <1>7. \A w \in ws : Later(v, w)
    <2> TAKE w \in ws
    <2>1. w[1] <= i /\ w[1] \in Nat /\ i \in Nat /\ w[2] \in Nat /\ j \in Nat
      BY <1>1, <1>2, <1>6
    <2>2. w[1] = i => w[2] <= j
      BY <1>5
    <2> QED
      BY <1>6, <2>1, <2>2 DEF Later
  <1> QED
    BY <1>7 DEF LastOf

\* The writes of a chain are positions in it, with a payload of the right type.
LEMMA WritesTyped ==
  ASSUME NEW revs \in Seq(Revision), NEW k \in 0..Len(revs), NEW t,
         NEW w \in Writes(revs, k, t)
  PROVE  /\ w[1] \in 1..k /\ w[2] \in 1..Len(revs[w[1]].commands)
         /\ w[2] \in Nat /\ w[3] \in Values
  <1>1. PICK i \in 1..k : w \in BatchWrites(i, revs[i].commands, Len(revs[i].commands), t)
    BY DEF Writes
  <1>2. revs[i] \in Revision
    OBVIOUS
  <1>3. revs[i].commands \in Seq(Command)
    BY <1>2 DEF Revision, Batch
  <1>4. PICK j \in 1..Len(revs[i].commands) : w = <<i, j, revs[i].commands[j].after>>
    BY <1>1 DEF BatchWrites
  <1>5. revs[i].commands[j] \in Command
    BY <1>3
  <1> QED
    BY <1>3, <1>4, <1>5 DEF Command

\* A tensor always reads as a payload.
LEMMA ReadTyped ==
  ASSUME NEW revs \in Seq(Revision), NEW k \in 0..Len(revs), NEW t
  PROVE  ReadAt(revs, k, t) \in Values
  <1>1. CASE Writes(revs, k, t) = {}
    BY <1>1, BaseAssumption DEF ReadAt
  <1>2. CASE Writes(revs, k, t) # {}
    <2> DEFINE ws == Writes(revs, k, t)
    <2> HIDE DEF ws
    <2>1. \A w \in ws : w[1] \in 0..k /\ w[2] \in Nat
      BY WritesTyped DEF ws
    <2>2. ASSUME NEW i \in 0..k
          PROVE  \E m \in Nat : \A w \in ws : w[1] = i => w[2] \in 0..m
      <3>1. CASE i \in 1..k
        <4> revs[i] \in Revision
          BY <3>1
        <4>1. revs[i].commands \in Seq(Command)
          BY DEF Revision, Batch
        <4>2. Len(revs[i].commands) \in Nat
          BY <4>1
        <4>3. \A w \in ws : w[1] = i => w[2] \in 0..Len(revs[i].commands)
          BY <4>2, WritesTyped DEF ws
        <4> QED
          BY <4>2, <4>3
      <3>2. CASE i \notin 1..k
        <4>1. \A w \in ws : w[1] # i
          BY <3>2, WritesTyped DEF ws
        <4> QED
          BY <4>1
      <3> QED
        BY <3>1, <3>2
    <2>3. LastOf(ws) \in ws
      BY <1>2, <2>1, <2>2, LastIsMember DEF ws
    <2>4. LastOf(ws)[3] \in Values
      BY <2>3, WritesTyped DEF ws
    <2> QED
      BY <1>2, <2>4 DEF ReadAt, ws
  <1> QED
    BY <1>1, <1>2

\* What a tensor reads as depends on the commands of the revisions in effect only.
LEMMA ReadDependsOnCommands ==
  ASSUME NEW revs, NEW other, NEW k \in Nat, NEW t,
         \A i \in 1..k : revs[i].commands = other[i].commands
  PROVE  ReadAt(revs, k, t) = ReadAt(other, k, t)
  <1>1. Writes(revs, k, t) = Writes(other, k, t)
    BY DEF Writes
  <1> QED
    BY <1>1 DEF ReadAt

-----------------------------------------------------------------------------
(* The chain operations. *)

\* The induction behind every id: it spells out the batches since the base.  Stated
\* for the whole chain at once, each operation preserves it.
Spelled(revs) ==
  \A i \in 1..Len(revs) : revs[i].id = [k \in 1..i |-> revs[k].commands]

Sound(c) == c \in Chain /\ WellLinked(c) /\ Spelled(c.revs)

\* The chain of an artifact nobody has edited.
LEMMA EmptySound == Sound(EmptyChain)
  BY DEF Sound, EmptyChain, Chain, WellLinked, LinksHold, Spelled

\* The revisions in effect are the first ones.
LEMMA AppliedIsPrefix ==
  ASSUME NEW c, Sound(c)
  PROVE  /\ AppliedRevisions(c) \in Seq(Revision)
         /\ Len(AppliedRevisions(c)) = c.cursor
         /\ \A i \in 1..c.cursor : AppliedRevisions(c)[i] = c.revs[i]
  <1>1. c.revs \in Seq(Revision) /\ c.cursor \in 0..Len(c.revs) /\ c.cursor \in Nat
    BY DEF Sound, Chain, WellLinked
  <1>2. \A i \in 1..c.cursor : c.revs[i] \in Revision
    BY <1>1
  <1> QED
    BY <1>1, <1>2, SubSeqProperties DEF AppliedRevisions

\* The current revision's id spells out the batches in effect.
LEMMA CurrentIdSpelled ==
  ASSUME NEW c, Sound(c)
  PROVE  /\ CurrentRevisionId(c) \in RevId
         /\ CurrentRevisionId(c) = [k \in 1..c.cursor |-> c.revs[k].commands]
  <1>1. c.revs \in Seq(Revision) /\ c.cursor \in 0..Len(c.revs) /\ c.cursor \in Nat
    BY DEF Sound, Chain, WellLinked
  <1>2. CASE c.cursor = 0
    BY <1>2 DEF CurrentRevisionId, BASE_PARENT, RevId
  <1>3. CASE c.cursor > 0
    <2>1. c.revs[c.cursor] \in Revision
      BY <1>1, <1>3
    <2> QED
      BY <1>1, <1>3, <2>1 DEF CurrentRevisionId, Sound, Spelled, Revision
  <1> QED
    BY <1>1, <1>2, <1>3

\* Appending a batch (RevisionChain.apply_commands) keeps a chain sound.
LEMMA ExtendSound ==
  ASSUME NEW c, Sound(c), NEW commands \in Batch
  PROVE  Sound(Extend(c, commands))
  <1> DEFINE new  == NewRevision(CurrentRevisionId(c), commands)
             revs == Append(AppliedRevisions(c), new)
             n    == c.cursor + 1
  <1>1. c.revs \in Seq(Revision) /\ c.cursor \in 0..Len(c.revs) /\ c.cursor \in Nat
    BY DEF Sound, Chain, WellLinked
  <1>2. /\ new.id = Append(CurrentRevisionId(c), commands)
        /\ new.parent = CurrentRevisionId(c) /\ new.commands = commands
    BY DEF NewRevision, RevisionIdFor
  <1>3. CurrentRevisionId(c) \in Seq(Batch) /\ Len(CurrentRevisionId(c)) = c.cursor
    BY <1>1, CurrentIdSpelled DEF RevId
  <1>4. new \in Revision
    BY <1>3, AppendProperties DEF NewRevision, RevisionIdFor, Revision, RevId
  <1>5. /\ revs \in Seq(Revision) /\ Len(revs) = n
        /\ \A i \in 1..c.cursor : revs[i] = c.revs[i]
        /\ revs[n] = new
    <2> HIDE DEF new
    <2> QED
      BY <1>1, <1>4, AppliedIsPrefix, AppendProperties
  <1>6. revs[n].id = [k \in 1..n |-> revs[k].commands]
    <2>1. Append(CurrentRevisionId(c), commands) = [k \in 1..n |-> revs[k].commands]
      <3> HIDE DEF revs
      <3>1. CurrentRevisionId(c) = [k \in 1..c.cursor |-> revs[k].commands]
        BY <1>5, CurrentIdSpelled
      <3> QED
        BY <1>1, <1>2, <1>3, <1>5, <3>1
    <2> QED
      BY <1>2, <1>5, <2>1
  <1> HIDE DEF new, revs
  <1>7. Spelled(revs)
    <2> SUFFICES ASSUME NEW i \in 1..n PROVE revs[i].id = [k \in 1..i |-> revs[k].commands]
      BY <1>5 DEF Spelled
    <2>1. CASE i = n
      BY <1>6, <2>1
    <2>2. CASE i \in 1..c.cursor
      <3>1. c.revs[i].id = [k \in 1..i |-> c.revs[k].commands]
        BY <1>1, <2>2 DEF Sound, Spelled
      <3>2. \A k \in 1..i : revs[k] = c.revs[k]
        BY <1>1, <1>5, <2>2
      <3> QED
        BY <1>5, <2>2, <3>1, <3>2
    <2> QED
      BY <1>1, <2>1, <2>2
  <1>8. LinksHold(revs)
    <2> SUFFICES ASSUME NEW i \in 1..n
                 PROVE  /\ revs[i].parent = ParentOf(revs, i)
                        /\ revs[i].id = RevisionIdFor(revs[i].parent, revs[i].commands)
      BY <1>5 DEF LinksHold
    <2>1. CASE i = n
      <3>1. CurrentRevisionId(c) = ParentOf(revs, n)
        BY <1>1, <1>5 DEF CurrentRevisionId, ParentOf
      <3> QED
        BY <1>2, <1>5, <2>1, <3>1 DEF RevisionIdFor
    <2>2. CASE i \in 1..c.cursor
      <3>1. /\ c.revs[i].parent = ParentOf(c.revs, i)
            /\ c.revs[i].id = RevisionIdFor(c.revs[i].parent, c.revs[i].commands)
        BY <1>1, <2>2 DEF Sound, WellLinked, LinksHold
      <3>2. ParentOf(c.revs, i) = ParentOf(revs, i)
        BY <1>1, <1>5, <2>2 DEF ParentOf
      <3> QED
        BY <1>5, <2>2, <3>1, <3>2
    <2> QED
      BY <1>1, <2>1, <2>2
  <1>9. Extend(c, commands) = [revs |-> revs, cursor |-> n]
    BY DEF Extend, revs, new
  <1> QED
    BY <1>1, <1>5, <1>7, <1>8, <1>9 DEF Sound, Chain, WellLinked

\* Appending a batch whose commands all expect the current contents keeps a chain one
\* that restore() accepts.
LEMMA ExtendReplays ==
  ASSUME NEW c, Sound(c), Replays(c.revs), NEW commands \in Batch,
         \A j \in DOMAIN commands : commands[j].before = Read(c, commands[j].tensor)
  PROVE  Replays(Extend(c, commands).revs)
  <1> DEFINE new  == NewRevision(CurrentRevisionId(c), commands)
             revs == Extend(c, commands).revs
             n    == c.cursor + 1
  <1>1. c.revs \in Seq(Revision) /\ c.cursor \in 0..Len(c.revs) /\ c.cursor \in Nat
    BY DEF Sound, Chain, WellLinked
  <1>2. Sound(Extend(c, commands)) /\ revs = Append(AppliedRevisions(c), new)
    BY ExtendSound DEF Extend
  <1>3. /\ revs \in Seq(Revision) /\ Len(revs) = n /\ revs[n].commands = commands
        /\ \A i \in 1..c.cursor : revs[i] = c.revs[i]
    <2>1. new \in Revision
      <3>1. CurrentRevisionId(c) \in Seq(Batch)
        BY CurrentIdSpelled DEF RevId
      <3> QED
        BY <3>1, AppendProperties DEF NewRevision, RevisionIdFor, Revision, RevId
    <2>2. new.commands = commands
      BY DEF NewRevision
    <2> HIDE DEF new, revs
    <2> QED
      BY <1>1, <1>2, <2>1, <2>2, AppliedIsPrefix, AppendProperties
  <1> HIDE DEF new, revs
  <1>4. ASSUME NEW k \in 0..c.cursor, NEW t PROVE ReadAt(revs, k, t) = ReadAt(c.revs, k, t)
    <2>1. k \in Nat /\ \A i \in 1..k : revs[i].commands = c.revs[i].commands
      BY <1>1, <1>3
    <2> QED
      BY <2>1, ReadDependsOnCommands
  <1>5. ASSUME NEW i \in 1..n, NEW j \in DOMAIN revs[i].commands
        PROVE  revs[i].commands[j].before = ReadAt(revs, i - 1, revs[i].commands[j].tensor)
    <2>1. CASE i = n
      BY <1>1, <1>3, <1>4, <2>1 DEF Read
    <2>2. CASE i \in 1..c.cursor
      <3>1. i \in DOMAIN c.revs /\ revs[i] = c.revs[i] /\ i - 1 \in 0..c.cursor
        BY <1>1, <1>3, <2>2
      <3>2. c.revs[i].commands[j].before = ReadAt(c.revs, i - 1, c.revs[i].commands[j].tensor)
        BY <1>5, <3>1 DEF Replays
      <3> QED
        BY <1>4, <3>1, <3>2
    <2> QED
      BY <1>1, <2>1, <2>2
  <1>6. DOMAIN revs = 1..n
    BY <1>3
  <1> QED
    BY <1>5, <1>6 DEF Replays, revs

\* Undo and redo move the cursor only, and keep a chain sound.
LEMMA StepsSound ==
  ASSUME NEW c, Sound(c)
  PROVE  /\ CanUndo(c) => Sound(StepBack(c))
         /\ CanRedo(c) => Sound(StepForward(c))
  <1>1. /\ c \in [revs : Seq(Revision), cursor : Nat]
        /\ c.cursor \in 0..Len(c.revs) /\ Len(c.revs) \in Nat
    BY DEF Sound, Chain, WellLinked
  <1>2. CanUndo(c) => Sound(StepBack(c))
    BY <1>1 DEF CanUndo, StepBack, Sound, Chain, WellLinked
  <1>3. CanRedo(c) => Sound(StepForward(c))
    BY <1>1 DEF CanRedo, StepForward, Sound, Chain, WellLinked
  <1> QED
    BY <1>2, <1>3

-----------------------------------------------------------------------------
(* Identity. *)

\* Equal ids, equal contents: the id commits to everything since the base.
LEMMA EqualIdsEqualContents ==
  ASSUME NEW c, Sound(c), NEW d, Sound(d)
  PROVE  \A i \in 1..Len(c.revs) : \A j \in 1..Len(d.revs) :
           c.revs[i].id = d.revs[j].id => \A t : ReadAt(c.revs, i, t) = ReadAt(d.revs, j, t)
  <1> SUFFICES ASSUME NEW i \in 1..Len(c.revs), NEW j \in 1..Len(d.revs),
                      c.revs[i].id = d.revs[j].id, NEW t
               PROVE  ReadAt(c.revs, i, t) = ReadAt(d.revs, j, t)
    OBVIOUS
  <1>1. [k \in 1..i |-> c.revs[k].commands] = [k \in 1..j |-> d.revs[k].commands]
    BY DEF Sound, Spelled
  <1>2. i = j
    <2>1. 1..i = 1..j
      BY <1>1
    <2> QED
      BY <2>1 DEF Sound, Chain
  <1>3. \A k \in 1..i : c.revs[k].commands = d.revs[k].commands
    BY <1>1, <1>2
  <1> QED
    BY <1>2, <1>3, ReadDependsOnCommands DEF Sound, Chain

\* The id of the current revision says what every tensor reads as.
LEMMA CurrentIdTellsContents ==
  ASSUME NEW c, Sound(c), NEW t
  PROVE  Read(c, t) = PayloadAt(CurrentRevisionId(c), t)
  <1> DEFINE rev == CurrentRevisionId(c)
             spelt == [i \in DOMAIN rev |-> [commands |-> rev[i]]]
  <1>1. c.cursor \in Nat /\ rev = [k \in 1..c.cursor |-> c.revs[k].commands] /\ rev \in Seq(Batch)
    BY CurrentIdSpelled DEF Sound, Chain, RevId
  <1>2. Len(rev) = c.cursor /\ DOMAIN rev = 1..c.cursor
    BY <1>1
  <1> HIDE DEF rev
  <1>3. \A i \in 1..c.cursor : spelt[i].commands = c.revs[i].commands
    BY <1>1, <1>2
  <1> HIDE DEF spelt
  <1>4. ReadAt(spelt, c.cursor, t) = ReadAt(c.revs, c.cursor, t)
    BY <1>1, <1>3, ReadDependsOnCommands
  <1> QED
    BY <1>2, <1>4 DEF Read, PayloadAt, spelt, rev
==============================================================================
