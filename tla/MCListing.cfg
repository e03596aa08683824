CONSTANTS
  Walks = {w1}
  Size = 5
  Matching = {1, 3, 4, 5}
  PageSize = 2
  Starts = {0, 2}
  WireState <- MCWireState

SPECIFICATION FairSpec

INVARIANTS
  ListingTypeOK
  InOrder
  NothingSkipped

PROPERTY EveryWalkEnds
