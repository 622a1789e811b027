CONSTANT MaxItems = 1
SPECIFICATION FairSpec
PROPERTY ExitsOnSigterm
CHECK_DEADLOCK FALSE
