--------------------------- MODULE MCTriageState ---------------------------
EXTENDS TriageState, TLC

Symmetry == Permutations(Keys)
=============================================================================
