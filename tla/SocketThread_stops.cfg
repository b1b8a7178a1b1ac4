SPECIFICATION FairSpec
CONSTANTS
  MaxConns = 2
INVARIANTS
  ThreadHasObjects
  NoJoinableDestroyed
PROPERTIES
  DisconnectReturns
CHECK_DEADLOCK FALSE
