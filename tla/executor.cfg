CONSTANTS
  c1 = c1  c2 = c2  main = main  sub = sub  other = other  r1 = r1  r2 = r2
  Calls = {c1, c2}
  TaskOf <- TaskAndSub
  WorkerId <- Requests
  Manual = {sub}
  Tee = {main}
  MaxOps = 2
SPECIFICATION TasksEndSpec
INVARIANTS TypeOK WorkerAccounted ReleasedAfterExit KilledOnRequest
PROPERTIES HandlerAnswers CleanedIsReleased
CHECK_DEADLOCK FALSE
