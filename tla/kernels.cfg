SPECIFICATION Spec
CONSTANTS
  Items = {i1, i2}
  MaxRows = 2
  MaxFaults = 1
INVARIANTS MessagesMatch ResultRight ServerOutlivesClient
PROPERTY AllEnd
