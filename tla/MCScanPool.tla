----------------------------- MODULE MCScanPool -----------------------------
EXTENDS ScanPool, TLC
Symmetry == Permutations(Calls) \cup Permutations(Sessions)
=============================================================================
