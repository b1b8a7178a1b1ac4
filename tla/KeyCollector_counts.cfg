SPECIFICATION Spec
CONSTANTS
  Key = {k1, k2, k3}
  App = App
  NLocs = 1
  NTypes = 1
  Names = {1, 2}
  StreamIDs = {0, 1}
  IDMod <- SmallIDMod
  MaxRef = 3
  MaxHeld = 1
  PreserveIDs = FALSE
SYMMETRY KeySymmetry
INVARIANTS
  TypeOK
  CountCoversOwners
PROPERTIES
  CleanupSparesOwned
  DelAllUnloads
  KeyringLeavesContiguous
