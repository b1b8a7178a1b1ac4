SPECIFICATION Spec
CONSTANTS
  Key = {k1, k2, k3}
  App = App
  NLocs = 2
  NTypes = 1
  Names = {1, 2}
  StreamIDs = {0}
  IDMod <- SmallIDMod
  MaxRef = 2
  MaxHeld = 0
  PreserveIDs = FALSE
SYMMETRY KeySymmetry
INVARIANTS
  RegisteredOnce
PROPERTIES
  EditsKeepIDs
  NoDuplicateAdded
  FlagStaysTruthful
