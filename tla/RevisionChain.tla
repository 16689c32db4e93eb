---------------------------- MODULE RevisionChain ----------------------------
(***************************************************************************)
(* The linear edit history of one artifact (editing/revisions.py), as pure *)
(* operators on a chain [revs, cursor].  revs[1..cursor] are in effect,    *)
(* the tail beyond the cursor is redo history.                             *)
(*                                                                         *)
(* A command rewrites one tensor from `before' to `after'; a tensor's      *)
(* bytes are one abstract value.  A revision carries a non-empty batch of  *)
(* commands.  Its id is a hash of parent and manifest: the pair itself     *)
(* stands for it, flattened into the sequence of batches since the base,   *)
(* which is exactly what the hash chain commits to.                        *)
(***************************************************************************)
EXTENDS Naturals, Sequences, FiniteSets

CONSTANTS
  Tensors,    \* tensors of the artifact that edits can touch
  Values,     \* abstract payloads a tensor can hold
  BaseValue   \* the payload every tensor has in the immutable source artifact

ASSUME BaseAssumption == BaseValue \in Values

Command  == [tensor : Tensors, before : Values, after : Values]
Batch    == Seq(Command) \ {<<>>}
RevId    == Seq(Batch)
Revision == [id : RevId, parent : RevId, commands : Batch]
Chain    == [revs : Seq(Revision), cursor : Nat]

BASE_PARENT == <<>>
EmptyChain  == [revs |-> <<>>, cursor |-> 0]

-----------------------------------------------------------------------------
(* Identity and observable state. *)

RevisionIdFor(parent, commands) == Append(parent, commands)

NewRevision(parent, commands) ==
  [id |-> RevisionIdFor(parent, commands), parent |-> parent, commands |-> commands]

AppliedRevisions(c) == SubSeq(c.revs, 1, c.cursor)

CurrentRevisionId(c) == IF c.cursor = 0 THEN BASE_PARENT ELSE c.revs[c.cursor].id

CanUndo(c) == c.cursor > 0
CanRedo(c) == c.cursor < Len(c.revs)

-----------------------------------------------------------------------------
(* Reads.  An overlay is applied in command order, so the last command that *)
(* touches a tensor decides what a reader sees.                             *)

\* What the first n commands of revision i do to t: <<revision, command, payload>>.
BatchWrites(i, commands, n, t) ==
  {<<i, j, commands[j].after>> : j \in {m \in 1..n : commands[m].tensor = t}}

\* What the first k revisions do to t.
Writes(revs, k, t) ==
  UNION {BatchWrites(i, revs[i].commands, Len(revs[i].commands), t) : i \in 1..k}

Later(v, w) == v[1] > w[1] \/ (v[1] = w[1] /\ v[2] >= w[2])

LastOf(ws) == CHOOSE v \in ws : \A w \in ws : Later(v, w)

ReadAt(revs, k, t) ==
  LET ws == Writes(revs, k, t) IN IF ws = {} THEN BaseValue ELSE LastOf(ws)[3]

Read(c, t) == ReadAt(c.revs, c.cursor, t)

Contents(c) == [t \in Tensors |-> Read(c, t)]

\* What a revision id stands for: it spells out the batches since the base.
PayloadAt(rev, t) == ReadAt([i \in DOMAIN rev |-> [commands |-> rev[i]]], Len(rev), t)
ContentsAt(rev)   == [t \in Tensors |-> PayloadAt(rev, t)]

-----------------------------------------------------------------------------
(* Mutation. *)

\* What command i of a batch must find in its tensor: the view the earlier
\* commands of the same batch have already changed.
BatchView(c, commands, i) ==
  LET ws == BatchWrites(1, commands, i - 1, commands[i].tensor)
  IN  IF ws = {} THEN Read(c, commands[i].tensor) ELSE LastOf(ws)[3]

PreconditionsHold(c, commands) ==
  \A i \in DOMAIN commands : commands[i].before = BatchView(c, commands, i)

\* Append one revision; whatever had been undone is gone.
Extend(c, commands) ==
  [revs   |-> Append(AppliedRevisions(c), NewRevision(CurrentRevisionId(c), commands)),
   cursor |-> c.cursor + 1]

StepBack(c)    == [c EXCEPT !.cursor = @ - 1]
StepForward(c) == [c EXCEPT !.cursor = @ + 1]

-----------------------------------------------------------------------------
(* Restoration of a persisted chain. *)

ParentOf(revs, i) == IF i = 1 THEN BASE_PARENT ELSE revs[i - 1].id

\* Every id is the hash of its content and every parent link holds.
LinksHold(revs) ==
  \A i \in DOMAIN revs :
    /\ revs[i].parent = ParentOf(revs, i)
    /\ revs[i].id = RevisionIdFor(revs[i].parent, revs[i].commands)

WellLinked(c) == c.cursor \in 0..Len(c.revs) /\ LinksHold(c.revs)

\* restore() compares each command with the state BEFORE its revision: the
\* revision joins the chain only after all of its commands were looked at.
Replays(revs) ==
  \A i \in DOMAIN revs : \A j \in DOMAIN revs[i].commands :
    revs[i].commands[j].before = ReadAt(revs, i - 1, revs[i].commands[j].tensor)

Restorable(c) == WellLinked(c) /\ Replays(c.revs)
=============================================================================
