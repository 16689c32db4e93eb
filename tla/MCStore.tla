------------------------------- MODULE MCStore -------------------------------
EXTENDS TensorStore
CONSTANTS f1, a1, b1, d1

\* Two plain slices and a typed tensor in one file.  The cache of slices has room for
\* one of them, the typed tensor is larger than its whole budget, and b1 takes two
\* chunks by itself.
MCFileOf == [k \in Slices |-> f1]
MCCost   == [k \in Slices |-> IF k = d1 THEN 3 ELSE 2]
MCChunks == [k \in Slices |-> IF k = b1 THEN 2 ELSE 1]
=============================================================================
