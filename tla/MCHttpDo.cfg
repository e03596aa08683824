\* One call, three attempts, deadlines short, sufficient and none.
CONSTANTS
  Calls = {c1}
  Impatient = {c1}
  Requests <- MCRequests
  Attempts = 3
  Answers <- MCAnswers
  Breakages <- MCBreakages
  Backoff <- MCBackoff
  Budgets = {2, 4, NoDeadline}
  NoDeadline = NoDeadline
  NoRequest = NoRequest

SPECIFICATION FairDoSpec

INVARIANTS
  IInv
  UnknownNeverRetriedUnasked
  OneShotSentOnce
  EveryFailureKept
  WaitIsFresh
  NoWaitPastDeadline
  EndedContextStopsRetries

PROPERTY EveryCallReturns
