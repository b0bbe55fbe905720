SPECIFICATION ServedSpec
CONSTANTS
  Items = {i1, i2, i3}
  Finalizers = {f1, f2}
  InMayClose = TRUE
INVARIANTS
  NothingLostOrReordered
  FinalizeReturnsTheRest
PROPERTIES
  ImplementsMailbox
  EverySendGetsThrough
  EveryFinalizeReturns
  EveryAcceptedItemSurfaces
