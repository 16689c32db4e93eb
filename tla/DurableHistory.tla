--------------------------- MODULE DurableHistory ---------------------------
(***************************************************************************)
(* What the editing layer promises its user, with no mention of revisions, *)
(* ids, cursors or files: a linear undo history whose durable copy is the  *)
(* history as some finished operation left it, and which a restart brings  *)
(* back exactly, unless it was set aside as unreadable.                    *)
(*                                                                         *)
(* Sources of the promise: the docstrings of editing/revisions.py,         *)
(* application/editing.py and application/edits_store.py.                  *)
(***************************************************************************)
EXTENDS Naturals, Sequences

CONSTANTS
  Edits,        \* what one committed edit can be
  MaySetAside   \* may the durable copy turn out to be unusable at all

VARIABLES
  open,       \* is the artifact open in a session
  past,       \* edits in effect, oldest first
  future,     \* undone edits, the next one to redo first
  saved       \* the durable copy [past, future]

vars == <<open, past, future, saved>>

Nothing == [past |-> <<>>, future |-> <<>>]

Init == open = FALSE /\ past = <<>> /\ future = <<>> /\ saved = Nothing

Do(e) ==
  /\ open
  /\ past' = Append(past, e) /\ future' = <<>>
  /\ UNCHANGED <<open, saved>>

Undo ==
  /\ open /\ past # <<>>
  /\ past' = SubSeq(past, 1, Len(past) - 1)
  /\ future' = <<past[Len(past)]>> \o future
  /\ UNCHANGED <<open, saved>>

Redo ==
  /\ open /\ future # <<>>
  /\ past' = Append(past, Head(future))
  /\ future' = Tail(future)
  /\ UNCHANGED <<open, saved>>

\* The durable copy catches up with the session.
Save ==
  /\ open
  /\ saved' = [past |-> past, future |-> future]
  /\ UNCHANGED <<open, past, future>>

\* The user throws the whole history away; the durable copy goes, or, when
\* its removal fails, stays.
Discard ==
  /\ open
  /\ past' = <<>> /\ future' = <<>>
  /\ saved' \in {Nothing, saved}
  /\ UNCHANGED open

\* The session ends, in good order or not; only the durable copy remains.
End ==
  /\ open
  /\ open' = FALSE /\ past' = <<>> /\ future' = <<>>
  /\ UNCHANGED saved

Recover ==
  /\ ~open
  /\ open' = TRUE /\ past' = saved.past /\ future' = saved.future
  /\ UNCHANGED saved

\* The durable copy could not be used: it is put aside and the session starts
\* at the source artifact.
StartOver ==
  /\ ~open /\ MaySetAside
  /\ open' = TRUE /\ past' = <<>> /\ future' = <<>>
  /\ saved' \in {Nothing, saved}

Next ==
  \/ \E e \in Edits : Do(e)
  \/ Undo \/ Redo \/ Save \/ Discard \/ End \/ Recover \/ StartOver

Spec == Init /\ [][Next]_vars
=============================================================================
