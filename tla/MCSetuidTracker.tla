--------------------------- MODULE MCSetuidTracker ---------------------------
\* Model values for SetuidTracker.
EXTENDS SetuidTracker, TLC

Symmetry == Permutations(Ids)
=============================================================================
