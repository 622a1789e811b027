CONSTANTS
  p1 = p1  p2 = p2  n1 = n1  n2 = n2  aux = aux
  Parties = {p1, p2}
  Nodes = {n1, aux}
  NodeOf <- OneNode
  Aux = {aux}
  MaxTries = 2
  Deadline = 0
  Late = 1
  Timeout = 1
  MaxTime = 1
SPECIFICATION FairSpec
PROPERTIES DispatchReturns FailureIsKilled RetryNeverReruns
CHECK_DEADLOCK FALSE
