------------------------------ MODULE MCSafeRun ------------------------------
EXTENDS SafeRun, TLC
Symmetry == Permutations(Runs)
=============================================================================
