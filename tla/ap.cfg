SPECIFICATION Spec
CONSTANTS
    Workers = {w1, w2}
    Clerks = {w1, w2}
    MaxBills = 2
    MaxApprovals = 2
    MaxPayments = 3
    Batches = {x1}
    Schedules = {s1}
    Uploads = {u1}
    Totals = {1}
    Offerings <- MCOfferings
INVARIANTS
    TypeOK
    BatchPaysOnce
    BatchIsCounted
    SelectionIsWhole
    ExecutedIsPaid
    MadeOnce
    TotalIsLines
    DecisionRecorded
    NewestRowDecides
SYMMETRY Symmetry
CHECK_DEADLOCK FALSE
