CONSTANTS
  Racers = {v4, v6}
  Addresses = 2
  None = None
  Observers = {"logs", "metrics"}

SPECIFICATION Spec

INVARIANT EachAttemptTold
