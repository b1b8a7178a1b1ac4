SPECIFICATION PrcSpec
CONSTANTS
  Key = {k1, k2, k3}
  App = App
  NLocs = 2
  NTypes = 1
  Names = {1}
  StreamIDs = {0}
  IDMod <- SmallIDMod
  Optimized = {FALSE}
  MaxPages = 4
  MaxRef = 3
  MaxHeld = 2
  PreserveIDs = FALSE
  Versions <- TwoPages
  Ages <- WholeAge
INVARIANTS
  NothingReplaced
CHECK_DEADLOCK FALSE
