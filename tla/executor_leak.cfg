CONSTANTS
  c1 = c1  c2 = c2  main = main  sub = sub  other = other  r1 = r1  r2 = r2
  Calls = {c1, c2}
  TaskOf <- TwoRequests
  WorkerId <- Requests
  Manual = {}
  Tee = {}
  MaxOps = 0
SPECIFICATION TasksEndSpec
PROPERTY FinishedTaskIsCleaned
CHECK_DEADLOCK FALSE
