SPECIFICATION FairPageSpec
CONSTANTS
  Key = {k1, k2, k3}
  App = App
  NLocs = 2
  NTypes = 2
  Names = {1}
  StreamIDs = {0}
  IDMod <- SmallIDMod
  Optimized = {TRUE, FALSE}
  MaxPages = 4
  MaxRef = 5
  MaxHeld = 0
  PreserveIDs = FALSE
  Versions <- TypedPages
  Ages <- WholeAge
PROPERTIES
  CallEnds
  LoopsEnd
CHECK_DEADLOCK FALSE
