---------------------------- MODULE MC_Gateway ----------------------------
EXTENDS Gateway, TLC

CONSTANTS r1, r2

\* A primary and a fallback.
PriorityValue == [b \in Bindings |-> b - 1]

Symmetry == Permutations(Requests)
===========================================================================
