------------------------------ MODULE MCCapture ------------------------------
EXTENDS Capture, TLC

\* Paths, and what a file may hold, are only ever compared.
Symmetry == Permutations(Paths) \cup Permutations(Pieces)
=============================================================================
