\* The requests about one entry, and closing a period, are kept apart.
SPECIFICATION FairSpec
CONSTANTS
  w1 = w1
  w2 = w2
  Workers <- TwoWorkers
  MaxJournals = 2
  MaxPeriods = 1
  Amounts <- OneAmount
  Steps <- OneStep
  MaxApprovals = 2
  MaxCrashes = 1
  Exclusive <- AllOps
INVARIANTS
  LastDecisionStands
  AuditFollows
PROPERTIES
  PostedIsFinal
  ImplementsLedger
  SubmissionReachesQueue
