-------------------------- MODULE EditingRefinement --------------------------
(***************************************************************************)
(* One session over its sidecar implements DurableHistory.                 *)
(***************************************************************************)
EXTENDS EditingController, TLC

CONSTANT TheSession

\* The refinement is of an artifact that is open in one session at a time.
OneSession == Sessions = {TheSession}

\* No action tells one tensor from another.
TensorsAlike == Permutations(Tensors)

BatchesOf(revs) == [i \in DOMAIN revs |-> revs[i].commands]

PastOf(c)   == SubSeq(BatchesOf(c.revs), 1, c.cursor)
FutureOf(c) == SubSeq(BatchesOf(c.revs), c.cursor + 1, Len(c.revs))

History == INSTANCE DurableHistory WITH
  Edits       <- Batches,
  MaySetAside <- Faults \cap {"damage", "mismatch", "rename", "transient"} # {},
  open        <- status[TheSession] # "closed",
  past        <- PastOf(chain[TheSession]),
  future      <- FutureOf(chain[TheSession]),
  saved       <- [past   |-> PastOf(sidecar.chain),
                  future |-> FutureOf(sidecar.chain)]

\* The revision chain, its cursor and its sidecar behave as one linear undo history
\* with a durable copy: commits drop the undone edits, redo brings back exactly the
\* edit undone last, a restart continues from the last save, and nothing else ever
\* changes the durable copy.
ImplementsHistory == History!Spec
==============================================================================
