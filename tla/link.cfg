CONSTANTS
  NumBlocks = 2
  Large = {1}
  MaxTries = 2
  MaxBreaks = 1
  Late = TRUE
SPECIFICATION FairSpec
INVARIANTS TypeOK FirstCopiesInOrder ReceivesStored CompleteBacked
PROPERTIES ImplementsStream SendReturns StoredIsReceived
CHECK_DEADLOCK FALSE
