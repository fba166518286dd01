\* journal_edit overlaps with the rest of the workflow.
SPECIFICATION Spec
CONSTANTS
  w1 = w1
  w2 = w2
  Workers <- TwoWorkers
  MaxJournals = 1
  MaxPeriods = 1
  Amounts <- OneAmount
  Steps <- OneStep
  MaxApprovals = 3
  MaxCrashes = 0
  Exclusive <- CreatesOnly
PROPERTIES
  PostedIsFinal
