CONSTANTS
  NumBlocks = 2
  Large = {2}
  MaxTries = 2
  MaxBreaks = 1
  Late = TRUE
SPECIFICATION Spec
INVARIANTS DataHasBeenSent
CHECK_DEADLOCK FALSE
