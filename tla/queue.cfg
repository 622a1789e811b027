CONSTANTS
  Producers = {p1, p2}
  Consumers = {c1, c2, c3}
  Items = {x, y}
  Free = Free
  MaxPush = 3
SPECIFICATION FairSpec
INVARIANTS TypeOK FrontDefined NothingLost NoLostWakeup
PROPERTIES Drained ImplementsFifo
