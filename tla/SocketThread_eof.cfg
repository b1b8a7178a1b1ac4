SPECIFICATION FairSpec
CONSTANTS
  MaxConns = 1
PROPERTIES
  FailureClosesSocket
CHECK_DEADLOCK FALSE
