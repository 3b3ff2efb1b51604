\* Deadlines expire before SAP answers, answers may be errors, and two calls
\* overlap.
SPECIFICATION Spec
CONSTANTS
  MaxRuns = 2
  MaxWindows = 1
  Callers = {c1, c2}
  Kinds = {"manual"}
  Slow = TRUE
  Lossy = TRUE
SYMMETRY CallerSymmetry
INVARIANTS OneActiveRun DetachedOnce IdleSparesCalls CallsCounted
