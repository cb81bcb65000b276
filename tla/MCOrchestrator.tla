--------------------------- MODULE MCOrchestrator ---------------------------
EXTENDS Orchestrator, TLC

\* Threads are only ever compared, so they are interchangeable.
ThreadSymmetry == Permutations(Threads)
=============================================================================
