\* SAP attaches while debug_set_breakpoint sets the external list again.
SPECIFICATION Spec
CONSTANTS
  Callers = {c1}
  Locs = {l1, l2}
  MaxRuns = 1
  MaxIds = 2
  FaultSets <- NoFaults
  Overlap = FALSE
SYMMETRY BreakpointSymmetry
INVARIANT ExternalSpares
