\* No receipt and no invoice is worked on in two places at once.
SPECIFICATION FairSpec
CONSTANTS
  w1 = w1
  w2 = w2
  r1 = r1
  r2 = r2
  Workers <- TwoWorkers
  MaxInvoices = 2
  Receipts <- TwoReceipts
  Totals <- JustTwo
  Amounts <- OneAmount
  Periods <- OnePeriod
  MaxCrashes = 0
  Offered <- ByHand
  Careful <- Both
INVARIANTS
  TypeOK
  PaidIsReceived
  PostedOnce
PROPERTIES
  CompletionPays
