---------------------------- MODULE MCStatistics ----------------------------
(***************************************************************************)
(* For TLC: a session alone whose user moves over its chain in every way,  *)
(* and beside it another one of the same artifact, where he discards       *)
(* nothing.                                                                *)
(***************************************************************************)
EXTENDS SessionStatistics, TLC

MCDays ==
  {[moves |-> {"commit", "undo", "redo", "discard"}, sessions |-> {Own}],
   [moves |-> {"commit", "undo", "redo"}, sessions |-> Sessions]}

\* Passes are told apart by nothing but their state.
Interchangeable == Permutations(Passes)
=============================================================================
