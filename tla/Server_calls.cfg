\* One caller with every tool and one more for the log; one request at a time.
SPECIFICATION Spec
CONSTANTS
  Callers = {c1, c2}
  Main = c1
  Tools <- AllForMain
  MaxItems = 2
  Limit = 1
  GroupArgs <- SomeGroups
  BuiltIn <- ReleaseBuilds
INVARIANTS TypeOK PromisesKept AnswersTrue LogsLocally
PROPERTY CallsAnswered
CHECK_DEADLOCK FALSE
