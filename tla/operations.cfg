SPECIFICATION Operations
CONSTANTS
    Workers = {w1, w2}
    Returns = {"r1"}
    Assessments = {"a1"}
    Accruals = {"u1"}
    MaxPayments = 3
    MaxAborts = 1
    BankTxns = {"t1", "t2"}
    LedgerLines = {"l1", "l2"}
    ByAmount <- TwoOfOneAmount
    ByReference <- OneReference
    RuleBooks <- NoneOrTwoRules
    MaxItems = 2
    MaxCrashes = 1
    Templates = {"t1", "t2"}
    AutoSend = {"t1"}
    Limit <- FirstGoesOn
    EndDate <- NoEndDates
    MaxDate = 2
    MaxInvoices = 3
    Transactions = {"t1", "t2"}
    Gaap = {"a1"}
    Runs = {"r1"}
    Pairs = {"p1"}
    PairOf <- OnePair
    MaxRules = 2
    MaxEntries = 5
    Layers = {1, 2}
    Received <- OneAndTwo
    Adjustments <- TwoOneOff
    ReorderPoint = 2
    Suggestions = {1, 2}
    MaxLines = 2
    MaxMoves = 3
    MaxRuns = 2
    StockOfferings <- AdjustOrPlanOrMove
    Requisitions = {q1}
    StockTransfers = {m1, m2}
    Employees = {"e1", "e2"}
    WithOther = {"e2"}
    Wage = 2
    Withholdings = {0, 3}
    MaxReconciliations = 1
    BudgetLines = {"l1", "l2"}
    ComparedLines = {"l1", "l2"}
    BudgetVersions = {"v1"}
    SheetCells = {"c1", "c2"}
    MaxFigure = 1
    RevenueRecords = {"r1", "r2"}
    ProjectInvoices = {"i1", "i2"}
    ContractAmounts = {2, 4}
    RegisterAssets = {"a1"}
    Sites = {"x"}
    Costs = {1, 2, 3, 4, 5, 6, 7, 8}
    Lives = {1, 2, 3, 4}
    CountedAssets = {"a1"}
    Locations = {"x", "y"}
    AssetTransfers = {"t1"}
    PhysicalCounts = {"c1"}
    ReviewItems = {"i1", "i2"}
    Persons = {"u1", "u2"}
    MaxTenants = 1
    RoleNames = {"r1"}
INVARIANTS
    TypesOK
    MatchesAgree
    PostingsAgree
    ConsolidationAddsUp
    StockAddsUp
    CarriedOutOnce
    ScheduleEndsAtSalvage
    PaidIsPayments
    BilledOnce
    FiguresAddUp
    PayrollAddsUp
    ProjectsAddUp
    RecordsAreStamped
    AccessIsComplete
PROPERTY
    ReconcileFollowsCount
SYMMETRY Symmetry
CHECK_DEADLOCK FALSE
