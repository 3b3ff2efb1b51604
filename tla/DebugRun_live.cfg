\* Liveness when every deadline may expire before SAP answers.
SPECIFICATION FairSpec
CONSTANTS
  MaxRuns = 1
  MaxWindows = 2
  Callers = {c1}
  Kinds = {"manual"}
  Slow = TRUE
  Lossy = FALSE
PROPERTIES LockReleased IdleRunEnds StoppedLetsGo
