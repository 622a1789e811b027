SPECIFICATION Spec
CONSTANTS
  W = 5
  MaxFaults = 1
  Inputs <- MCInputs
INVARIANTS Lockstep ChecksAgree FigureRight SavedTogether
PROPERTY TaskEnds
CHECK_DEADLOCK FALSE
