\* Two runs, rearms, a late trigger, and a call that waits.
SPECIFICATION Spec
CONSTANTS
  Callers = {c1}
  MaxRuns = 2
  MaxVersion = 6
INVARIANT TypeOK
PROPERTIES WaitReturns SettledReturns
CHECK_DEADLOCK FALSE
