--------------------------- MODULE MCConfigStore ---------------------------
EXTENDS ConfigStore, TLC
Editors == Permutations(Pages)
=============================================================================
