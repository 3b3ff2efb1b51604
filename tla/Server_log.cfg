\* What arrives at Papertrail for the line of a call.
SPECIFICATION Spec
CONSTANTS
  Callers = {c1}
  Main = c1
  Tools <- AllForMain
  MaxItems = 1
  Limit = 1
  GroupArgs = {{}}
  BuiltIn <- ReleaseBuilds
INVARIANT RemoteCarries
CHECK_DEADLOCK FALSE
