SPECIFICATION Spec
CONSTANTS
  Cols = {"a", "b"}
  Adds = {"+", "-"}
  Muls = {"/"}
  MaxAny = 5
  MaxLegal = 7
INVARIANTS LegalRight CallsInStep AcceptedIsWhole LocalAgrees
CHECK_DEADLOCK FALSE
