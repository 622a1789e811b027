CONSTANTS
  p1 = p1  p2 = p2  n1 = n1  n2 = n2  aux = aux
  Parties = {p1, p2}
  Nodes = {n1, n2}
  NodeOf <- OwnNodes
  Aux = {}
  MaxTries = 2
  Deadline = 1
  Late = 0
  Timeout = 2
  MaxTime = 0
SPECIFICATION Spec
INVARIANTS TypeOK VerdictOnce SuccessBacked FailBacked KillReachesAll
SYMMETRY PartySymmetry
CHECK_DEADLOCK FALSE
