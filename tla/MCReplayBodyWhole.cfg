CONSTANTS
  Attempts = 3
  Length = 3
  Buffer = 2

SPECIFICATION Spec

INVARIANT ResentWhole
