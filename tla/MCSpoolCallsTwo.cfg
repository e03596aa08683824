CONSTANTS
  k1 = k1
  l1 = l1
  Calls = {c1, c2}
  Impatient = {}
  Requests <- TwoCallsRequests
  Attempts = 2
  Answers <- TwoCallsAnswers
  Breakages <- TwoCallsBreakages
  Backoff <- MCBackoff
  Budgets = {NoDeadline}
  NoDeadline = NoDeadline
  NoRequest = NoRequest
  Keys = {k1}
  NoKey = NoKey
  Leases = {l1}
  NoLease = NoLease

SPECIFICATION Spec
SYMMETRY CallSymmetry

PROPERTY KeepsPromise
