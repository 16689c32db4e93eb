---------------------------- MODULE MCActivations ----------------------------
EXTENDS ActivationStore, TLC
CONSTANTS t1, t2, v1, v2

MCByName == <<t1, t2>>
MCByValue == <<v1, v2>>

\* Only the traces have an order; values and runtimes are interchangeable, for a
\* sum of lengths is the same in every order.
MCSymmetry == Permutations(ValueIds) \cup Permutations(Runtimes)
=============================================================================
