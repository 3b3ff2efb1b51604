\* Two runs, two calls, two locations, SAP_BASIS 816 and 750; set requests
\* fail or are rejected, or deletes fail, or IDs are missing; answers are lost.
SPECIFICATION Spec
CONSTANTS
  Callers = {c1, c2}
  Locs = {l1, l2}
  MaxRuns = 2
  MaxIds = 3
  FaultSets <- Tolerated
  Overlap = FALSE
SYMMETRY BreakpointSymmetry
INVARIANTS TypeOK ListTruthful NothingForgotten LossesNamed DebuggerListExact
