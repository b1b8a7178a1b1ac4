SPECIFICATION PageSpec
CONSTANTS
  Key = {k1, k2, k3, k4}
  App = App
  NLocs = 2
  NTypes = 1
  Names = {1, 2}
  StreamIDs = {0}
  IDMod <- SmallIDMod
  Optimized = {FALSE}
  MaxPages = 3
  MaxRef = 4
  MaxHeld = 1
  PreserveIDs = FALSE
  Versions <- CrossedPages
  Ages <- WholeAge
INVARIANTS
  RMTypeOK
  LoadedHasPage
  NothingReplaced
  OnePagePerLocation
  NoHalfReadObject
PROPERTIES
  PageIsLoaded
SYMMETRY KeySymmetry
CHECK_DEADLOCK FALSE
