\* Two runs with two listening windows each, started by gui and unit-test
\* triggers; SAP answers every request before the deadline that guards it.
SPECIFICATION Spec
CONSTANTS
  MaxRuns = 2
  MaxWindows = 2
  Callers = {c1}
  Kinds = {"gui", "unit_tests"}
  Slow = FALSE
  Lossy = FALSE
INVARIANTS TypeOK CleanStopReleases NewRunAlone EndedReleased
PROPERTY LifecycleSpec
