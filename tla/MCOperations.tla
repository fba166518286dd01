----------------------------- MODULE MCOperations -----------------------------
(***************************************************************************)
(* The components around the two ledgers and the invoices, side by side,   *)
(* each on a small instance.  They share no table but the journal, which   *)
(* they only add to, so that no step of one disables or changes a step of  *)
(* another: a behaviour exercises one of them, and their state spaces add  *)
(* up instead of multiplying.  Taxes are the module that is extended; the  *)
(* others are instances of theirs.                                         *)
(***************************************************************************)
EXTENDS Tax, Integers, TLC

CONSTANTS
    BankTxns, LedgerLines, ByAmount, ByReference, RuleBooks, MaxItems, MaxCrashes,
                    \* of the bank reconciliation
    Templates, AutoSend, Limit, EndDate, MaxDate, MaxInvoices,
                    \* of the recurring invoices
    Transactions, Runs, Pairs, PairOf, MaxRules, MaxEntries,
    Gaap,           \* of entities; the last: the GAAP adjustments
    Layers, Received, Adjustments, ReorderPoint, Suggestions, MaxLines, MaxMoves, MaxRuns,
    StockOfferings, \* of stock
    Requisitions,   \* for stock: model values, beside the numbers of the suggestions
    StockTransfers, \* between warehouses: model values
    Employees, WithOther, Wage, Withholdings, MaxReconciliations,
                    \* of payroll
    BudgetLines, ComparedLines, BudgetVersions, SheetCells, MaxFigure,
                    \* of budgets and their plans
    RevenueRecords, ProjectInvoices, ContractAmounts,
                    \* of project costing
    RegisterAssets, Sites, Costs, Lives,
                    \* of the asset register
    CountedAssets, Locations, AssetTransfers, PhysicalCounts,
                    \* of the counts of assets
    ReviewItems,    \* of an access review
    Persons,        \* who may have accounts
    MaxTenants,     \* the organizations they may found
    RoleNames       \* the roles in them

VARIABLES
    focus,    \* the component that is exercised
    bank_rules, matched, item, reconciliation, bank_req, bank_aborts,
    elim_rules, doc, balance, entry, elim, total, ic_req, ic_aborts,
    onhand, moves, entries, layer, used, runs, source, order, stock_transfer, out, in,
    inv_req, inv_offered, inv_aborts,
    asset, profile, schedule, transfer, count, edited, moved, fa_req, fa_offered, fa_aborts,
    today, closed, template, bills, rec_req, rec_aborts,
    budget, version, ledger, analysis, sheet, plan_lagging, plan_req, plan_offered, plan_aborts,
    withheld, journal, line, payroll_check, pay_lagging, pay_req, pay_aborts,
    contract, retention, revenue, invoice, last, behind, hasty, pj_lagging, pj_req, pj_aborts,
    record, ct_lagging, ct_req, ct_aborts,
    account, owner, member, user_profile, invitation, holds, ac_req, ac_aborts

bankVars == <<bank_rules, matched, item, reconciliation, bank_req, bank_aborts>>
entityVars == <<elim_rules, doc, balance, entry, elim, total, ic_req, ic_aborts>>
stockVars == <<onhand, moves, entries, layer, used, runs, source, order, stock_transfer, out, in,
               inv_req, inv_offered, inv_aborts>>
assetVars == <<asset, profile, schedule, transfer, count, edited, moved, fa_req, fa_offered, fa_aborts>>
taxVars == vars
recurringVars == <<today, closed, template, bills, rec_req, rec_aborts>>
planVars == <<budget, version, ledger, analysis, sheet, plan_lagging,
              plan_req, plan_offered, plan_aborts>>
payrollVars == <<withheld, journal, line, payroll_check, pay_lagging, pay_req, pay_aborts>>
projectVars == <<contract, retention, revenue, invoice, last, behind, hasty, pj_lagging,
                 pj_req, pj_aborts>>
controlVars == <<record, ct_lagging, ct_req, ct_aborts>>
accessVars == <<account, owner, member, user_profile, invitation, holds, ac_req, ac_aborts>>
allVars == <<focus, bankVars, entityVars, stockVars, assetVars, taxVars, recurringVars,
             planVars, payrollVars, projectVars, controlVars, accessVars>>

-----------------------------------------------------------------------------
(* The instances. *)

Bank == INSTANCE BankReconciliation WITH
    Txns <- BankTxns, Lines <- LedgerLines,
    rules <- bank_rules, status <- reconciliation, req <- bank_req, aborts <- bank_aborts

\* The first line has the amount of two transactions, the second the reference of one.
TwoOfOneAmount == {<<"t1", "l1">>, <<"t2", "l1">>}
OneReference == {<<"t1", "l2">>}
NoneOrTwoRules == {<<>>, <<"exact_amount", "reference_match">>}

\* Two transactions of one pair, a run that eliminates their balance by up to two rules,
\* and an adjustment; entries enough for a posting, its eliminations and their reversal.
Entities == INSTANCE MultiEntity WITH
    Adjustments <- Gaap, rules <- elim_rules, req <- ic_req, aborts <- ic_aborts

OnePair == [t \in {"t1", "t2"} |-> "p1"]

Stock == INSTANCE Inventory WITH
    Transfers <- StockTransfers, Offerings <- StockOfferings,
    transfer <- stock_transfer, req <- inv_req, offered <- inv_offered, aborts <- inv_aborts

\* Two layers that one sale may use up, and adjustments that take more than there is.
OneAndTwo == <<1, 2>>
TwoOneOff == {-2, -1, 2}
AdjustOrPlanOrMove == {{"adjust", "cogs"}, {"generate", "order"}, {"transfer"}}

\* Amounts that divide by the useful life and others that round up or down.
Register == INSTANCE FixedAssets WITH
    Assets <- RegisterAssets, Locations <- Sites,
    Transfers <- {}, Counts <- {}, Offerings <- {{"create", "edit"}},
    req <- fa_req, offered <- fa_offered, aborts <- fa_aborts

\* A count of one asset, which may be transferred or edited meanwhile.
Places == INSTANCE FixedAssets WITH
    Assets <- CountedAssets, Costs <- {1}, Lives <- {1},
    Transfers <- AssetTransfers, Counts <- PhysicalCounts,
    Offerings <- {{"create", "transfer", "open", "reconcile"}, {"create", "edit", "open", "reconcile"}},
    req <- fa_req, offered <- fa_offered, aborts <- fa_aborts

Recurring == INSTANCE RecurringInvoices WITH req <- rec_req, aborts <- rec_aborts

\* A template without an end and one that ends after its first invoice.
FirstGoesOn == [t \in {"t1", "t2"} |-> IF t = "t1" THEN 0 ELSE 1]
NoEndDates == [t \in {"t1", "t2"} |-> 0]

\* Two lines that an analysis compares, and a sheet of two rows beside them.
Plans == INSTANCE Planning WITH
    Lines <- BudgetLines, InPeriod <- ComparedLines, Versions <- BudgetVersions, Cells <- SheetCells,
    MaxAmount <- MaxFigure, Chosen <- {"draft"},
    Offerings <- {{"budget", "decision", "version"}, {"budget", "analysis"}, {"budget", "sheet"}},
    lagging <- plan_lagging, req <- plan_req, offered <- plan_offered, aborts <- plan_aborts

\* What is withheld may be more than the pay.
Pay == INSTANCE Payroll WITH
    Pay <- Wage, Withheld <- Withholdings,
    reconciliation <- payroll_check, lagging <- pay_lagging, req <- pay_req, aborts <- pay_aborts

\* Two records of a project whose contract may change, without its invoices, and the other
\* way round.
Revenue == INSTANCE Projects WITH
    Records <- RevenueRecords, Invoices <- {}, Contracts <- ContractAmounts,
    record <- revenue, lagging <- pj_lagging, req <- pj_req, aborts <- pj_aborts
Invoicing == INSTANCE Projects WITH
    Records <- {}, Invoices <- ProjectInvoices, Contracts <- {2},
    record <- revenue, lagging <- pj_lagging, req <- pj_req, aborts <- pj_aborts

\* One record of each kind.
Records == INSTANCE Controls WITH
    Kinds <- {"change", "exception", "violation", "review", "statement", "report", "package",
              "filing"},
    Items <- ReviewItems,
    lagging <- ct_lagging, req <- ct_req, aborts <- ct_aborts

\* The people of the organizations that some of them found.
People == INSTANCE Access WITH
    Users <- Persons, Roles <- RoleNames,
    profile <- user_profile, req <- ac_req, aborts <- ac_aborts

-----------------------------------------------------------------------------
\* Where a component is not exercised, its choices at the start do not matter.
Start ==
    /\ focus \in {"bank", "entities", "stock", "register", "places", "taxes", "recurring",
                  "plans", "payroll", "revenue", "invoicing", "records", "people"}
    /\ Bank!Init /\ (focus = "bank" \/ bank_rules = <<>>)
    /\ Entities!Init /\ (focus = "entities" \/ elim_rules = 0)
    /\ Stock!Init /\ (focus = "stock" \/ inv_offered = {"transfer"})
    /\ IF focus = "register" THEN Register!Init ELSE Places!Init
    /\ focus \in {"register", "places"} \/ "edit" \in fa_offered
    /\ Init /\ (focus = "taxes" \/ rate)
    /\ Recurring!Init
    /\ Plans!Init /\ (focus = "plans" \/ (sheet.kind = "driver" /\ "sheet" \in plan_offered))
    /\ Pay!Init /\ (focus = "payroll" \/ \A e \in DOMAIN withheld : withheld[e] = 0)
    /\ IF focus = "revenue" THEN Revenue!Init ELSE Invoicing!Init
    /\ focus \in {"revenue", "invoicing"} \/ ~retention
    /\ Records!Init /\ (focus = "records" \/ record.kind = "report")
    /\ People!Init

StepBank ==
    /\ focus = "bank" /\ Bank!Next
    /\ UNCHANGED <<focus, entityVars, stockVars, assetVars, taxVars, recurringVars, planVars,
                   payrollVars, projectVars, controlVars, accessVars>>
StepEntities ==
    /\ focus = "entities" /\ Entities!Next
    /\ UNCHANGED <<focus, bankVars, stockVars, assetVars, taxVars, recurringVars, planVars,
                   payrollVars, projectVars, controlVars, accessVars>>
StepStock ==
    /\ focus = "stock" /\ Stock!Next
    /\ UNCHANGED <<focus, bankVars, entityVars, assetVars, taxVars, recurringVars, planVars,
                   payrollVars, projectVars, controlVars, accessVars>>
StepAssets ==
    /\ \/ focus = "register" /\ Register!Next
       \/ focus = "places" /\ Places!Next
    /\ UNCHANGED <<focus, bankVars, entityVars, stockVars, taxVars, recurringVars, planVars,
                   payrollVars, projectVars, controlVars, accessVars>>
StepTaxes ==
    /\ focus = "taxes" /\ Next
    /\ UNCHANGED <<focus, bankVars, entityVars, stockVars, assetVars, recurringVars, planVars,
                   payrollVars, projectVars, controlVars, accessVars>>
StepRecurring ==
    /\ focus = "recurring" /\ Recurring!Next
    /\ UNCHANGED <<focus, bankVars, entityVars, stockVars, assetVars, taxVars, planVars,
                   payrollVars, projectVars, controlVars, accessVars>>
StepPlans ==
    /\ focus = "plans" /\ Plans!Next
    /\ UNCHANGED <<focus, bankVars, entityVars, stockVars, assetVars, taxVars, recurringVars,
                   payrollVars, projectVars, controlVars, accessVars>>
StepPayroll ==
    /\ focus = "payroll" /\ Pay!Next
    /\ UNCHANGED <<focus, bankVars, entityVars, stockVars, assetVars, taxVars, recurringVars,
                   planVars, projectVars, controlVars, accessVars>>
StepProjects ==
    /\ \/ focus = "revenue" /\ Revenue!Next
       \/ focus = "invoicing" /\ Invoicing!Next
    /\ UNCHANGED <<focus, bankVars, entityVars, stockVars, assetVars, taxVars, recurringVars,
                   planVars, payrollVars, controlVars, accessVars>>
StepRecords ==
    /\ focus = "records" /\ Records!Next
    /\ UNCHANGED <<focus, bankVars, entityVars, stockVars, assetVars, taxVars, recurringVars,
                   planVars, payrollVars, projectVars, accessVars>>
StepPeople ==
    /\ focus = "people" /\ People!Next
    /\ UNCHANGED <<focus, bankVars, entityVars, stockVars, assetVars, taxVars, recurringVars,
                   planVars, payrollVars, projectVars, controlVars>>

Step ==
    \/ StepBank \/ StepEntities \/ StepStock \/ StepAssets \/ StepTaxes \/ StepRecurring
    \/ StepPlans \/ StepPayroll \/ StepProjects \/ StepRecords \/ StepPeople

Operations == Start /\ [][Step]_allVars

\* No component tells one worker from another.
Symmetry == Permutations(Workers)

-----------------------------------------------------------------------------
(* Properties: those of the components; those of taxes come with the module. *)

\* Every variable of the component that is exercised has its type.
TypesOK ==
    CASE focus = "bank" -> Bank!TypeOK
      [] focus = "entities" -> Entities!TypeOK
      [] focus = "stock" -> Stock!TypeOK
      [] focus = "register" -> Register!TypeOK
      [] focus = "places" -> Places!TypeOK
      [] focus = "taxes" -> TypeOK
      [] focus = "recurring" -> Recurring!TypeOK
      [] focus = "plans" -> Plans!TypeOK
      [] focus = "payroll" -> Pay!TypeOK
      [] focus = "revenue" -> Revenue!TypeOK
      [] focus = "invoicing" -> Invoicing!TypeOK
      [] focus = "records" -> Records!TypeOK
      [] focus = "people" -> People!TypeOK

\* A transaction is marked as matched only where an item of the reconciliation has it, and
\* an automatic match takes no line of the ledger twice.
MatchesAgree == focus = "bank" => Bank!MatchedHasItem /\ Bank!AutoMatchesOnce

\* An intercompany balance is what was posted between the two entities, and what is posted
\* has its journal entries, with their lines.
PostingsAgree == focus = "entities" => Entities!BalanceIsPosted /\ Entities!PostedHasEntries
\* A consolidation agrees with its entries, while it is completed and after its reversal.
ConsolidationAddsUp == focus = "entities" => Entities!ConsolidationAddsUp

\* The quantity on hand is the sum of the movements recorded for the item, and what was
\* taken from each cost layer is what the COGS entries say.
StockAddsUp == focus = "stock" => Stock!StockIsMoves /\ Stock!UseIsRecorded
\* A suggestion or a requisition leads to one purchase order at most, and a completed
\* transfer has moved each of its lines, out once and in once.
CarriedOutOnce == focus = "stock" => Stock!OrderedOnce /\ Stock!TransferMovesAll

\* A depreciation schedule ends at the salvage value it was generated for, and no month
\* but the last takes the asset's value up.
ScheduleEndsAtSalvage == focus = "register" => Register!ScheduleEndsAtSalvage
\* After a reconciliation every asset is where the count found it.
ReconcileFollowsCount == Places!ReconcileFollowsCount

\* Every date of a recurring template is billed once, within its limit.
BilledOnce == focus = "recurring" => Recurring!BilledOnce

\* Budgets, their versions and analyses and the sheets that go with them add up.
FiguresAddUp == focus = "plans" => Plans!FiguresAddUp
\* A payroll journal, its lines and its reconciliation add up.
PayrollAddsUp == focus = "payroll" => Pay!PayrollAddsUp
\* The revenue and the invoices of a project add up.
ProjectsAddUp ==
    /\ focus = "revenue" => Revenue!ProjectsAddUp
    /\ focus = "invoicing" => Invoicing!ProjectsAddUp

\* A record shows who pressed the button that brought it to its status, and its findings are
\* those of its items.
RecordsAreStamped == focus = "records" => Records!RecordsAreStamped
\* Nobody becomes a member uninvited, and who accepts gets what the invitation says.
AccessIsComplete == focus = "people" => People!AccessIsComplete

-----------------------------------------------------------------------------
(* Properties that the documentation states and the code does not have. *)

\* Auto-matching works on what is unmatched.
AutoMatchTakesUnmatched == Bank!AutoMatchTakesUnmatched
\* A payroll reconciliation has no discrepancy only if the totals of the journal agree with
\* its lines.
ReconciledAgrees == focus = "payroll" => Pay!ReconciledAgrees
\* Every adjustment of stock posts a journal entry.
AdjustmentInLedger == Stock!AdjustmentInLedger
=============================================================================
