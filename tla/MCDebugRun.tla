----------------------------- MODULE MCDebugRun -----------------------------
(* TLC instances of DebugRun: the callers are interchangeable.             *)
EXTENDS DebugRun, TLC

CallerSymmetry == Permutations(Callers)
=============================================================================
