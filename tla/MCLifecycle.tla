----------------------------- MODULE MCLifecycle -----------------------------
(***************************************************************************)
(* Lifecycle on a small instance: two handlers at once, one id that stays  *)
(* private and one that leaks, and a container of another orchestrator.    *)
(***************************************************************************)
EXTENDS Lifecycle, TLC

\* Threads are only ever compared, so they are interchangeable.
ThreadSymmetry == Permutations(Threads)
=============================================================================
