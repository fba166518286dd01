\* Two requests at a time, without any care.
SPECIFICATION Spec
CONSTANTS
  w1 = w1
  w2 = w2
  r1 = r1
  r2 = r2
  Workers <- TwoWorkers
  MaxInvoices = 1
  Receipts <- OneReceipt
  Totals <- ZeroOrTwo
  Amounts <- TwoAmounts
  Periods <- OnePeriod
  MaxCrashes = 1
  Offered <- AllOps
  Careful = {}
INVARIANTS
  StatusIsPosted
  StatusFitsAmounts
  EntriesBalance
SYMMETRY Symmetry
