\* A receipt completed after its period was closed.
SPECIFICATION Spec
CONSTANTS
  w1 = w1
  w2 = w2
  r1 = r1
  r2 = r2
  Workers <- TwoWorkers
  MaxInvoices = 1
  Receipts <- OneReceipt
  Totals <- JustTwo
  Amounts <- OneAmount
  Periods <- OnePeriod
  MaxCrashes = 0
  Offered <- ByHand
  Careful <- Both
PROPERTIES
  ClosedPeriodKeepsItsEntries
