CONSTANTS
  Calls = {c1, c2}
  Bystander = c2
  Impatient = {}
  Requests <- MCRequests
  Attempts = 2
  Answers <- MCAnswers
  Breakages <- MCBreakages
  Backoff <- MCBackoff
  Budgets = {NoDeadline}
  NoDeadline = NoDeadline
  NoRequest = NoRequest
  Jobs <- MCJobs
  JobsOf <- MCJobsOf
  WireAnswers <- MCWireAnswers
  NoAnswer = NoAnswer
  WireHeaders <- MCWireHeaders
  NoJob = NoJob

SPECIFICATION FairSpec

INVARIANTS
  LifeTypeOK
  HookBracketsOperation
  ReceiptReachesCaller
  NoAnswerLeftOpen
  CopiesStartAfresh
  AnswerReachesCaller

PROPERTY EveryOperationEnds
