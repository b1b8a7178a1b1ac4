SPECIFICATION RMSpec
CONSTANTS
  Key = {k1, k2}
  App = App
  NLocs = 2
  NTypes = 1
  Names = {1, 2}
  StreamIDs = {0}
  IDMod <- SmallIDMod
  Optimized = {FALSE}
  MaxPages = 2
  MaxRef = 3
  MaxHeld = 0
  PreserveIDs = FALSE
  Versions <- TwoPages
  Ages <- SomeAges
INVARIANTS
  CountCoversOwners
SYMMETRY KeySymmetry
CHECK_DEADLOCK FALSE
