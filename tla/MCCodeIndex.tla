---------------------------- MODULE MCCodeIndex -----------------------------
EXTENDS CodeIndex, TLC
Symmetry == Permutations(Files) \cup Permutations(Runs)
=============================================================================
