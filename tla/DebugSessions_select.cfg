\* Two calls of any tool, two runs, two users, two systems.
SPECIFICATION Spec
CONSTANTS
  Callers = {c1, c2}
  Hook = hook
  Users = {"U1", "U2"}
  Systems = {"S1", "S2"}
  Logon <- TwoLogons
  BackAndForth = FALSE
  MaxRuns = 2
SYMMETRY CallerSymmetry
INVARIANTS TypeOK BoundToKey SessionOfRun ExitCleansUp
PROPERTY LifecycleSpec
CHECK_DEADLOCK FALSE
