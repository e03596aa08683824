CONSTANTS
  Reader = reader
  Closers = {a, b}
  Size = 2

SPECIFICATION FairSpec

INVARIANTS
  StreamTypeOK
  EndsOnce
  OverWhenReturned
  EndIsHonest

PROPERTY EveryEndReturns
