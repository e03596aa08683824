CONSTANTS
  k1 = k1
  l1 = l1
  Calls = {c1}
  Impatient = {c1}
  Requests <- OneCallRequests
  Attempts = 3
  Answers <- OneCallAnswers
  Breakages <- OneCallBreakages
  Backoff <- MCBackoff
  Budgets = {NoDeadline}
  NoDeadline = NoDeadline
  NoRequest = NoRequest
  Keys = {k1}
  NoKey = NoKey
  Leases = {l1}
  NoLease = NoLease

SPECIFICATION Spec

INVARIANTS
  ServerTypeOK
  HonestFailure
  AtMostOnce

PROPERTY KeepsPromise
