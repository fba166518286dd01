\* The automatic cash application, every document in one place at a time.
SPECIFICATION Spec
CONSTANTS
  w1 = w1
  w2 = w2
  r1 = r1
  r2 = r2
  Workers <- TwoWorkers
  MaxInvoices = 2
  Receipts <- OneReceipt
  Totals <- JustTwo
  Amounts <- OneAmount
  Periods <- OnePeriod
  MaxCrashes = 0
  Offered <- AllOps
  Careful <- Both
INVARIANTS
  PaidIsReceived
