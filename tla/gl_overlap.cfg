\* Two requests at a time; those that write lines and the closing run alone.
SPECIFICATION Spec
CONSTANTS
  w1 = w1
  w2 = w2
  Workers <- TwoWorkers
  MaxJournals = 1
  MaxPeriods = 2
  Amounts <- OneAmount
  Steps <- OneStep
  MaxApprovals = 3
  MaxCrashes = 1
  Exclusive <- LineWritersAndClose
INVARIANTS
  TypeOK
  BalancedOnceSubmitted
  ClosedPeriodSettled
  DecisionRecorded
SYMMETRY Symmetry
