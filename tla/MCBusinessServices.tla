--------------------------- MODULE MCBusinessServices ---------------------------
EXTENDS BusinessServices, TLC
Symmetry == Permutations(Ids) \cup Permutations(Requests)
=============================================================================
