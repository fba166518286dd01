# NavAccounting in TLA+

A verification project for NavAccounting, a multi-tenant accounting system
written with Django (`src/apps/`, some twenty applications, each with
`models.py`, `forms.py`, `views`, most with `services.py`). The modules here
model the parts in which several requests, several rows and several steps have
to agree; TLC checks them on small instances and TLAPS proves the most important
results for every instance.

Contents: [how requests run](#how-requests-run) ·
[inventory](#inventory) · [modules](#modules) · [runs](#runs) ·
[bounds](#bounds) · [fairness and assumptions about users](#fairness-and-assumptions-about-users) ·
[proofs](#proofs) · [divergences found](#divergences-found) ·
[not modelled](#not-modelled) · [plan](#plan)

## How requests run

One fact decides how everything here is modelled. The settings
(`navaccounting/settings/`) set no `ATOMIC_REQUESTS`, and no view of the modelled
applications opens a transaction, locks a row with `select_for_update` or writes
with an `F()` expression. A request
is therefore a *sequence of autocommitted statements*:

1. it loads a row into a Python object,
2. it decides on that copy (a status check, a balance check),
3. it runs further statements (lines, approval rows, journal entries),
4. it calls `save()`, which writes **every** column of the copy back.

Between two statements any other worker process may run any statement, and the
process may die and leave what it has committed. In the modules, each worker has
a record `req[w]` with its local values (`copy`, `rec`, `sum`, ...) and the label
`pc` of the statement it executes next; one action is one statement. Loading and
deciding is one action, because nothing else is read in between.

## Inventory

The state each part keeps, what changes it, what is hard about it, and what
makes it correct. "Modelled" parts name their module.

| part (`src/apps/`) | state | operations | hard | correct when |
|---|---|---|---|---|
| `general_ledger` journal workflow, period close - **JournalWorkflow**, **PostedLedger** | `JournalEntry`, `JournalEntryLine`, `JournalApproval`, `FiscalPeriod.is_closed`, `PeriodCloseChecklist`, `AuditTrail` | create, edit, submit, approve, reject, post, allocation run, checklist, close, reopen | stale copies; the balance is checked once; two statements per decision; count then close | submitted entries balance; posted entries are final; decisions are on record; a closed period is settled; the trail follows the status |
| `accounts_receivable` - **Receivables** | `Invoice`, `InvoiceLine`, `InvoiceApproval`, `Receipt`, `ReceiptAllocation`, journal lines of receipts | invoice create, edit, submit, approve, reject, send, void; receipt create, complete, void; automatic cash application | `amount_paid` is read, added to and saved in separate statements; the entry, the receipt and the invoices are saved one after the other | what invoices show as paid is what receipts contribute; a receipt is posted once; status fits ledger and amounts |
| `accounts_receivable` recurring invoices - **RecurringInvoices** | `RecurringInvoiceTemplate`, the invoices made from them | generate, pause, resume, cancel | the invoice is made before the template moves on; a page about one template works on all | each date is billed once, in order, within limit and end date |
| `accounts_payable` - **Payables** | `Bill`, `BillLine`, `BillApproval`, `Payment`, `PaymentAllocation`, `PaymentBatch`, `ScheduledPayment`, `BillUpload`, the session | bill workflow, payments, batches, schedules, bills from uploads | a batch makes many payments before it marks itself; its bills are in a session that every request writes back; submission, approval and rejection share one row | no bill is paid twice by a batch; a batch's selection is whole or gone; schedules and uploads lead to one document; totals are those of the lines; decisions are on record |
| `cash_management` - **BankReconciliation** | bank transactions, reconciliation items, auto-match rules | import, match, unmatch, auto-match, complete | two querysets passed from rule to rule, one of them cached; what a stale page posts is matched unseen | a transaction marked as matched has an item; the automatic match takes a ledger line once |
| `multi_entity` - **MultiEntity** | intercompany transactions and balances, consolidation runs, elimination entries, GAAP adjustments | post, reconcile, execute, reverse | one entry after another, failure half-way, reversal | balances are what was posted; a run's total is what it posted; a reversal is its inverse |
| `inventory` - **Inventory** | items, cost layers, COGS entries, suggestions, requisitions, transfers | adjust, calculate COGS, generate, order, transfer | layers are read, then written back; the order is made before its source is marked | stock is its movements; layers are what entries used; ordered once; moved whole |
| `fixed_assets` - **FixedAssets** | assets, depreciation schedules, transfers, counts | enter, edit, transfer, count, reconcile | rounding; figures edited after their schedule; a count compares with the past | schedules end at the salvage value; a reconciliation follows its count |
| `tax` - **Tax** | returns, payments, use tax | enter, calculate, file, pay, accrue, post | the payment is saved, posted, linked and summed one after the other | the amount paid is that of the payments |
| `budgeting` - **Planning** | budgets, versions, analyses, drivers, scenarios, workforce plans | edit, decide, snapshot, analyse, calculate | saved row by row, calculated afterwards | figures calculated to the end add up |
| `payroll` - **Payroll** | journals with a line per employee, reconciliations | enter, calculate, approve, post, reconcile | rates change while lines are calculated | totals are those of the lines; so are the sums of a reconciliation |
| `project_costing` - **Projects** | revenue recognition records, project invoices | create, calculate, post; create, approve, void | a record keeps what had been recognized before it | revenue adds up to the last cumulative amount; invoices to their lines |
| `audit`, `reporting` - **Controls** | change requests, exceptions, violations, access reviews; statements, reports, packages, filings | edit, decide | decisions overlap and save some columns, or all; forms save any status | who pressed the button that brought a record to its status is on record |
| `accounts`, `tenants`, `roles` - **Access** | users, organizations, memberships, profiles, invitations, roles | sign up, create, invite, accept, assign | four rows, one after the other, one invitation followed twice | who accepts gets what the invitation says; nobody gets in uninvited |
| `tenants` middleware, `company`, `system_admin`, `dashboard`, `core` | the tenant of a thread; single rows | | see [not modelled](#not-modelled) | |

**Interaction.** Every posting of a sub-ledger ends in `general_ledger` tables.
There are two ways in: the manual workflow (draft, approval, posting; the form
offers open periods only and `clean()` refuses closed ones), and
`JournalEntry.unscoped.create(status='posted')` from the services, which runs no
`clean()` and looks at no period. `FiscalPeriod.is_closed` is shared by all.
Saving a `JournalEntry` fires the signals of `general_ledger/signals.py`
(old values before the UPDATE, audit rows after it).

`PROJECT.json` lists the hazards of this code, each at its line, with the
properties that would catch it, or the reason why none does.

## Modules

| module | what it is |
|---|---|
| `JournalWorkflow` | the manual journal workflow, allocation run and period close |
| `PostedLedger` | the abstract general ledger: entries are prepared, posted for good or discarded; periods close and reopen |
| `MCJournalWorkflow` | constants for its runs |
| `JournalWorkflow_proofs` | types; every decision is recorded; submitted entries balance; closed periods, posted entries, the audit trail, the newest decision; the workflow implements `PostedLedger` |
| `Receivables` | invoices, receipts, allocations, the entries of receipts, cash application |
| `MCReceivables` | constants for its runs |
| `Receivables_proofs` | types; a receipt's status and the ledger; an invoice's status and its amounts; the journal lines of receipts; what invoices have been paid |
| `Sums`, `Sums_proofs` | the sum over a set of rows; how a sum follows a change of one row, by induction over finite sets |
| `RecurringInvoices`, `RecurringInvoices_proofs` | templates and the invoices generated from them; each date is billed once |
| `Payables` | bills, payments, batches, scheduled payments, uploads |
| `MCPayables` | the groups of requests that its run offers |
| `Payables_proofs` | types; what each statement does; decisions and the rows that hold them, totals, schedules, uploads, batches and their session |
| `BankReconciliation`, `BankReconciliation_proofs` | bank transactions against ledger lines; flags and their items, lines and automatic matches |
| `MultiEntity` | intercompany postings, consolidation, reversal |
| `Inventory` | stock, cost layers, purchase planning, transfers |
| `FixedAssets` | the asset register, its schedules, transfers and counts |
| `Tax` | tax returns and use tax |
| `Planning` | budgets, versions, variance, drivers, scenarios, workforce plans |
| `Payroll` | payroll journals and their reconciliation |
| `Projects` | project revenue and invoices |
| `Controls` | the records of audit and reporting that are decided on |
| `Access` | how people get into an organization |
| `MCOperations` | the modules from `BankReconciliation` to `Access`, and `RecurringInvoices`, side by side on small instances |
| `Operations_proofs` | of the modules side by side: bank reconciliation, recurring invoices, records that are decided on, how people get in, schedules and counts of fixed assets, figures of plans; and, with `Figures_proofs`, the types of all |
| `Figures_proofs` | of the modules side by side: stock and purchase planning; intercompany postings and consolidations; tax returns, types and amounts paid; payroll; project revenue and invoices |

### JournalWorkflow

State: `je` (status and period of each entry), `lines` (total debits and credits),
`approvals` (each entry's rows in order of creation), `closed`, `checklist`,
`audit` (the status last recorded), `req`, `crashes`. Amounts are totals per side;
accounts, dates, texts and currencies are left out: no guard of the workflow
reads them.

| code (`general_ledger/`) | actions |
|---|---|
| `views.journal_create`, `allocation_run` | `CreateStart` / `AllocateStart`, `GenerateNumber`, `InsertHeader`, `LogAuditTrail`, `SaveLine` ..., `AllocationTotal` |
| `views.journal_edit` | `EditStart`, `EditValidate`, then the save, then `SaveLine` ... |
| `views.journal_submit` | `SubmitStart`, `SumDebits`, `SumCredits`, the save, `CreateApproval` |
| `views.approval_approve`, `approval_reject` | `DecideStart`, `FindPendingRow`, `SaveDecision`, the save |
| `views.journal_post` | `PostStart`, the save |
| `JournalEntry.save()` with `signals.py` | `CaptureOldValues`, `UpdateRow`, `LogAuditTrail` |
| `views.period_close_detail` | `ChecklistStart`, `SeedChecklist`, `ToggleStep` |
| `views.period_close_action`, `period_reopen_action` | `CloseStart`, `CountUnposted`, `ClosePeriod`; `ReopenPeriod` |

`PostedLedger` says what a reader of the ledger may rely on. `Book` maps the
tables to it: draft, pending and approved entries are "open" and show no amounts;
posted ones show their lines. `ImplementsLedger` is the refinement: a posting must
balance and be in an open period, nothing posted may change, and a period closes
only when nothing in it is left open. It goes beyond the invariants because it
restricts *when* amounts appear and periods close.

### Receivables

State: `inv` (status, total, amount paid), `lines` (sum of an invoice's lines; an
invoice of the model has one line), `approved`, `rcpt` (status, amount, period),
`alloc` (amount per receipt and invoice, 0 for no row), `gl` (what has been posted
on the bank and receivable lines of each receipt's deposit and reversal), `closed`,
`req`, `crashes`. All invoices belong to one customer and are numbered by due date,
which is what `auto_match_receipt` orders by.

| code (`accounts_receivable/`) | actions |
|---|---|
| `views.invoice_create`, `invoice_edit` | `CreateInvoice` / `EditInvoice`, `SaveHeader`, `SaveLines`, `UpdateTotals`, `UpdateInvoice` |
| `views.invoice_submit`, `_approve`, `_reject`, `_send`, `_void` | `ChangeInvoice`, `SaveApproval` (approve), `UpdateInvoice` |
| `views.receipt_create` | `CreateReceipt`, `SaveAllocation` ... |
| `views.receipt_complete` | `MoveReceipt`, `SaveLeg` twice, `SaveReceipt`, `LoadAllocations`, `ApplyAllocation` ... |
| `views.receipt_void` | `MoveReceipt`, `SaveLeg` twice, `LoadAllocations`, `ApplyAllocation` ..., `SaveReceipt` |
| `views.cash_application_auto_match`, `services.auto_match_receipt` | `AutoMatch`, `FindOpenInvoices`, `SaveAllocation` ... |
| `general_ledger` period views | `ClosePeriod`, `ReopenPeriod` |

`Pay` and `Unpay` are the loop bodies of completing and voiding, with
`update_payment_status` as `UpdatePaymentStatus`. `select_related('invoice')`
returns all invoices in one query, so a request works on a snapshot (`snap`) and
saves the invoices one by one: that distance is where payments get lost, and the
reason why `PaidIsReceived` needs the assumption that users keep requests apart.

### Payables

State: `bill`, `lines`, `approval` (the status of each bill's approval rows, in order of
creation), `pay` and `alloc` (every payment is a draft, for completing and voiding raise
before they write), `batch`, `sched`, `upload`, `session` (the bills selected for each
batch; read when a request arrives, written back with its response), `req`, `aborts`, and
`offered`, chosen at the start: which requests users make, what they keep apart, how many
workers die.

| code (`accounts_payable/`) | actions |
|---|---|
| `views.bill_create`, `bill_edit` | `CreateBill` / `EditBill`, `SaveHeader`, `SaveLines`, ... |
| `views.bill_submit` | `ChangeBill`, `UpdateBill`, then `SaveApproval` inserts a pending row |
| `views.bill_approve`, `_reject` | `ChangeBill`, `FindRow` (the pending row, if there is one), `SaveApproval` (over that row, or a row of its own), `UpdateBill` |
| `views.bill_void` | `ChangeBill`, `UpdateBill` |
| `views.payment_create`, `batch_create`, `batch_process` | payments by hand; the batch with its session; one payment and one allocation per bill, then the batch |
| `views.schedule_*` | enter, execute (payment, allocation, schedule), cancel |
| `views.bill_upload_create_bill` | bill, then link |

`BatchPaysOnce` is the question of this component: payments drawn up by hand take
numbers between those of the batch, an `INSERT` that finds its number taken ends the
run, and the clerk runs it again. The clerk has as many tabs as there are `Clerks`, which
share one session: a page opened before the batch was made writes back, with its response,
a session without the selection. `SelectionIsWhole` says that this can erase the selection
and can never halve it.

A submission, an approval and a rejection write one row of `BillApproval`. Of an approval
and a rejection that overlap, the later one writes over the other's decision, and the bill
keeps the status of whoever saves the bill last: an approved bill may have a single row that
says "rejected". So `DecisionRecorded` says what is left without any care, that the bill has
a row with *a* decision, and `NewestRowDecides` what holds where a bill is worked on in one
place at a time: the row says how the bill came to its status, also after requests that died
between row and bill.

The properties that need care carry it themselves: `Apart(kind)` says that in this behaviour
users never work on two requests about one document of that kind at once. The run has
behaviours of both sorts for approvals.

### The components around them

Each is a module in the same style: `req[w]` with label and copies, one action per
statement, `aborts` for requests that ended half-way. What their code leaves out is said
at the head of each module.

| module | code → actions |
|---|---|
| `RecurringInvoices` | `services.generate_recurring_invoices` → `Generate`, `FindDue`, `NextTemplate`, `GenerateNumber`, `InsertInvoice`, `CopyLines`, `UpdateTotals`, `SaveInvoice`, `SaveTemplate`, `EndLoop`; pause and cancel → `ChangeTemplate`, `SaveChange` |
| `BankReconciliation` | `services.run_auto_match` → `AutoMatch`, `QueryTxns`, `NextTxn`, `InsertItem`, `SaveMatched`, `NextRule`; matching by hand → `Match`, which takes any transaction and any line, as the view looks at neither flag nor items, `Unmatch`, `SaveUnmatched`, `DeleteItem`; import and completion → `ImportRow`, `CompleteReconciliation` |
| `MultiEntity` | `post_ic_transaction`, `post_gaap_adjustment` and their views → `Post` / `PostAdjustment`, the entries with number and lines, `Save`, `LoadBalance` and the balance; `execute_consolidation`, `reverse_consolidation` → `Execute`, `Reverse`, balance by balance and rule by rule |
| `Inventory` | `process_inventory_transaction`, `consume_cost_layers_fifo` and `_lifo` with the COGS entry, `generate_reorder_suggestions`, `create_po_from_reorder`, `requisition_convert`, `complete_inventory_transfer`, each statement by statement |
| `FixedAssets` | entering an asset with `generate_depreciation_schedule` (`Schedule` is its arithmetic), editing it, which changes cost and life and leaves the schedule, transfers, `inventory_reconcile` → `Relocate` asset by asset |
| `Tax` | tax return views → `Load` and the saves; `post_return_payment` and its view → insert, entry, link, `SumPayments`, save; `post_use_tax_accrual` → `PostAccrual`, `FindPending`, `SaveAccrual`, `FailToAccrue` |
| `Planning` | the views of budgets, versions, variance, drivers, scenarios and workforce plans → rows one by one, then the calculations of `services.py` |
| `Payroll` | `calculate_payroll_journal`, `post_payroll_journal`, `perform_reconciliation` and their views |
| `Projects` | `rev_rec_create`, `_calculate`, `_post` → `CreateRecord` / `CalculateRecord`, `SumPrior`, `SaveRecord`; `PostRecord`, `SavePosted`; `invoice_create`, `_approve`, `_void`; `project_edit` → `EditProject` |
| `Controls` | the buttons of `audit` and `reporting` as a table of `Move`s (from, to, stamp) → `Decide`, `SaveDecision`; the forms, which save any status of the choices over whatever was decided since → `EditRecord`, `SaveRecord`; an access review's items and count → `SaveItem`, `CountFindings`, `SaveFindings` |
| `Access` | `save_user` of the adapter, `tenant_create`, `user_invite`, `accept_invitation`, the signal for profiles, `role_assign` |

`lagging`, `behind`, `hasty`, `last`, `moved`, `edited`, `final`, `chosen` and `overruled` are
history: they record what no column says - that a document was not calculated to the end, or
was overtaken; that an asset was moved, or its figures edited; that a journal was approved
when it was reconciled; that a status was chosen in a form and not by a button, and that a
form approved a change or wrote old stamps over new ones. They are read by properties only.

`MCOperations` puts them side by side. They share no table but the journal, to which
they only add, so no step of one disables or changes a step of another. The variable
`focus`, chosen at the start, says which of them a behaviour exercises: their state
spaces add up instead of multiplying, and one run checks them all.

## Runs

| run | module, specification | checks | shows |
|---|---|---|---|
| `gl_serial` | MCJournalWorkflow, `FairSpec`, every request alone on its entry | `LastDecisionStands`, `AuditFollows`, `PostedIsFinal`, `ImplementsLedger`, `SubmissionReachesQueue` | with requests on an entry kept apart, the workflow implements the ledger, also when a request dies half-way |
| `gl_overlap` | MCJournalWorkflow, `Spec`, only line writers and closing kept apart | `TypeOK`, `BalancedOnceSubmitted`, `ClosedPeriodSettled`, `DecisionRecorded` | these hold with decisions, submissions and postings overlapping freely |
| `gl_stale_edit` | MCJournalWorkflow, `Spec`, edits overlap | `PostedIsFinal` - **violated** | an edit in progress overwrites a posted entry |
| `ar_careful` | MCReceivables, `FairSpec`, each receipt and invoice in one place at a time | `TypeOK`, `PaidIsReceived`, `PostedOnce`, `CompletionPays` | amounts paid are exactly the contributions of receipts at every moment; each receipt is posted once; completion reaches its invoices |
| `ar_overlap` | MCReceivables, `Spec`, nothing kept apart, one crash | `StatusIsPosted`, `StatusFitsAmounts`, `EntriesBalance` | what remains true without any care |
| `ar_auto_match` | MCReceivables, `Spec`, careful, with cash application | `PaidIsReceived` - **violated** | cash application allocates without paying |
| `ar_closed_period` | MCReceivables, `Spec`, careful | `ClosedPeriodKeepsItsEntries` - **violated** | receipts post to closed periods |
| `ap` | MCPayables, `Spec`, two tabs of one session, one dying request | `TypeOK`, `BatchPaysOnce`, `BatchIsCounted`, `SelectionIsWhole`, `ExecutedIsPaid`, `MadeOnce`, `TotalIsLines`, `DecisionRecorded`, `NewestRowDecides` | with payments entered while a batch is processed in one of two tabs, it pays a bill twice only after a run that ended half-way; its count is right, its selection whole or gone; schedules, uploads and totals stay right; however approvals and rejections overlap, an approved bill has a decision on record |
| `operations` | MCOperations, `Operations`, one dying request in each component | the table below | the components around the ledgers keep their tables in agreement, also where a page is stale or a form saves any status; where a dying request breaks an agreement, the property says so |
| `bank_auto_match` | MCOperations, as above | `AutoMatchTakesUnmatched` - **violated** | the second rule matches what the first has just matched |
| `inv_no_entry` | MCOperations, as above | `AdjustmentInLedger` - **violated** | an adjustment changes the stock and then fails to post |
| `payroll_check` | MCOperations, as above | `ReconciledAgrees` - **violated** | a payroll journal is reconciled although its totals are not those of its lines |

The properties of `operations`, besides `TypesOK`:

| focus | properties |
|---|---|
| bank reconciliation | `MatchesAgree` (a marked transaction has an item; the automatic match takes a line once) |
| entities | `PostingsAgree` (balances are what was posted, and what was posted has its entries), `ConsolidationAddsUp` (a run's total, its eliminations and their reversal) |
| stock | `StockAddsUp` (on hand is the sum of movements; what layers lost is what entries used), `CarriedOutOnce` (a suggestion or requisition is ordered once; a transfer moves every line, in and out) |
| register, places | `ScheduleEndsAtSalvage`, `ReconcileFollowsCount` |
| taxes | `PaidIsPayments` |
| recurring invoices | `BilledOnce` |
| plans | `FiguresAddUp` |
| payroll | `PayrollAddsUp` (totals are those of the lines; what was reconciled of an approved journal are the sums of its lines) |
| revenue, invoicing | `ProjectsAddUp` |
| records | `RecordsAreStamped` (a status from a button has its stamp; what neither a button nor a form approved is not implemented; findings are counted) |
| people | `AccessIsComplete` |

Each property of a passing run has a mutant in its module, a definition changed
the way a plausible slip would change the code (a dropped check, a pasted line, a
swapped order), under which TLC finds that property violated. `PROJECT.json`
pairs them.

## Bounds

* **Two workers.** Every property relates one document to the requests on it, and
  every interference in this code is one request's write between another's read and
  write. A third worker adds no new kind of interleaving; the theorems hold for any
  number.
* **Entries, invoices, receipts.** One where overlap on a single document is the
  question (`gl_overlap`, `gl_stale_edit`, `ar_overlap`, `ar_closed_period`). Two
  entries in `gl_serial`, so that numbering and the closing of a period with several
  entries occur; two invoices and two receipts in `ar_careful`, so that a receipt
  pays several invoices and an invoice is paid by several receipts; two invoices in
  `ar_auto_match`.
* **Amounts.** One amount is enough for the journal (balanced, one-sided and empty
  forms all occur, since a side may be 0). In `ar_overlap` receipts and allocations of
  1 or 2 against an invoice of 0 or 2 give under-, exact and over-payment, and amounts that
  differ between a receipt and its allocation. In `ar_careful` the amount is 1 and the
  total 2, so an invoice is paid in two steps.
* **Periods, checklist steps, approval rows.** Two periods in `gl_overlap`, so that an
  entry moves from one to another while one of them closes. `MaxApprovals` bounds the
  rows of an entry: `RowFree` lets a request start only if it will find a free one,
  which keeps the bound from cutting a request short. `Room` does the same for entry
  numbers.
* **Crashes.** One dying request (`gl_serial`, `gl_overlap`, `ar_overlap`): it may die
  before any statement of any view, and the users may then repeat what it did. Two
  half-finished requests on one document are left to the theorems.
* `gl_overlap` and `ar_overlap` use symmetry of workers (and receipts). The runs with
  liveness do not.

* **Payables** (`MCPayables`). Two bills, three payments, one batch, one schedule, one
  upload, two approval rows per bill (a bill that is rejected and submitted again), two workers
  that are two tabs of the clerk's session, one dying request.
  Three payments are one more than a batch of two bills makes, so that a payment by hand can
  take a number inside a batch, and so that a repeated batch can pay a bill twice. A behaviour
  offers one of five groups of requests (`Offerings`): batches, batches with bills that are
  voided, schedules, uploads, approvals. What a group leaves out touches none of the rows that
  it works on. All groups keep requests on one document apart; approvals are offered once more
  with nothing kept apart. Where payments by hand meet a batch no worker dies: there a taken
  number is what ends a run half-way.
* **Operations** (`MCOperations`). What the components that are proved range over are constants
  which the cfg binds; the others have their instance in the module. Each instance is the smallest in which its hazard can happen:
  two transactions and two ledger lines with up to two rules (a rule after a rule) and two items (a second match from a stale page); two
  intercompany transactions of one pair, up to two elimination rules, five entries (a run, its
  eliminations, its reversal); two layers of 1 and 2 units with two sales; two suggestions, a
  requisition and two transfers of two lines; costs 1 to 8 over lives 1 to 4 (every remainder of
  the division); one asset with a transfer and a count in two locations; one return with three
  payments, one use tax accrual; two templates over two dates, one without a limit and one with
  the limit 1; two budget lines, one version, two rows of a sheet; two employees, of whom one has
  other deductions, pay 2 and withholdings of 0 or 3 (more than the pay); two revenue records
  under a contract of 2 or 4 that changes; two invoices of up to two lines; one record of each
  kind that is decided on; two people, one organization, one role. One request may die in each.
  Sums and counts over two rows already tell a total from a lost update; the workers are
  symmetric. A second organization may be founded and is not followed (`Access`): so a sign-up is
  not held up by the bound, and two acceptances of one invitation overlap. The runs
  `bank_auto_match` and `payroll_check` need one worker only, for a sequence of requests is enough.

`gl_*` and `ar_*` check for deadlock: a new request or the closing or reopening of a period is
always possible. `ap`, `operations` and the runs on `MCOperations` do not: their documents
reach final statuses, no new ones arrive beyond the bounds, and a behaviour may end.

## Fairness and assumptions about users

`FairSpec` adds `WF_vars(Continue(w))` for each worker: a process that has taken a
request executes its next statement eventually. That is what a server process
does when it is not killed; a killed one is `Crash`, and the liveness properties
allow for it. No request is ever obliged to arrive: `Start` has no fairness.
`SubmissionReachesQueue` and `CompletionPays` are the two pairs of writes of which
the second could be forgotten or cut off.

The code takes no lock, so several good properties depend on how people work. The
modules make that a parameter and not a hidden guard:

* `Exclusive` (JournalWorkflow): kinds of request of which no other request on the
  same entry overlaps (and, for "close", no other request at all).
* `Careful` (Receivables): "receipt", "invoice" are worked on in one place at a time.
* `Offerings` (Payables): each names the kinds of document, among "bill", "batch", "schedule" and
  "upload", that are worked on in one place at a time (`offered.careful`). The properties that
  need it have it as a premise, `Apart(kind)`.
* In the other modules `MayStart` (or `MayEdit`) keeps two requests on one *document*
  apart; requests on different documents overlap freely, and those are the ones that meet in
  balances, layers, totals, numbers and sessions. In `Controls` decisions and
  edits of one record overlap freely, but a record is entered once and an access review is edited
  by itself (`MayEdit`); in `Planning` no version is made beside an edit of its budget; in
  `RecurringInvoices` one generation runs at a time, because it takes the templates of the whole
  tenant; in `BankReconciliation` one automatic matching runs at a time, and a match is not
  removed before its flag is set. `Access` keeps nothing apart.
* Edit forms have a field for the status and save whatever is chosen, without the stamp or the
  calculation that a button would add. In `Controls` every choice is made; in `Planning` the
  choices are a constant (`Chosen`), over which the theorem ranges and which the run bounds.
* No fairness is stated for these modules: all their properties are safety.

Empty sets for `Exclusive`, `Careful` and `careful` assume nothing. What the properties give up
in this way is real: two edits at once lose one of them, a double click pays twice, a request
that dies leaves what it had committed. The hazards in `PROJECT.json`
name these cases and say that no property covers them: no statement of the code prevents them,
and no text of the repository denies them. Where a text does, a violated run shows it.

## Proofs

TLAPS checks these theorems for every value of the constants. They assume
`ConstantsAssumption`, `ReceivablesAssumption` and `PayablesAssumption`, which type the
constants (`Bounds` does the same, as a hypothesis, where TLC reaches a module only by
`INSTANCE`; the theorems of `Operations_proofs` and `Figures_proofs` list what they need of it: `StockConstants` says that layers hold natural numbers, suggestions are numbered, and the bounds are numbers; `EntityConstants` that the tables of `MultiEntity` are different ones, the transactions finitely many, each of one pair; `PayConstants` that there are finitely many
employees and that pay and withholdings are natural numbers; `ProjectConstants` that there are finitely many
revenue records and that contract amounts are natural numbers; `RegisterConstants` that costs and lives are
positive; `CountConstants` that documents have names of their own; `PlanConstants` that budget lines and sheet
cells are finitely many and that an analysis compares lines of the budget). A run of `operations` has values of
this kind for all of them. What else a theorem needs is a hypothesis that names what *users* keep apart, and
each is a setting that a passing run has:

| hypothesis | says | run |
|---|---|---|
| `WritersApart` | who writes lines of an entry is alone on it | `gl_overlap`, `gl_serial` |
| `EntriesApart` | requests on one entry are kept apart | `gl_serial` |
| `ClosingApart` | a period is closed while nothing else runs | `gl_overlap`, `gl_serial` |
| `ReceiptsApart`, `InvoicesApart` | requests on one receipt, on one invoice, are kept apart | `ar_careful` |
| `NoAutoMatch` | nobody uses the automatic cash application, which adds allocations to completed receipts (`ar_auto_match`) | `ar_careful` |
| `IsFiniteSet(Receipts)` | there are finitely many receipts | every run |

| theorem | statement | argument |
|---|---|---|
| `JournalWorkflow_proofs!TypeCorrect` | `Spec => []TypeOK` | `TypeOK` alone is not inductive: a statement on an entry needs `req[w].j # 0`. `TypeInv` adds `Placed`, what each label needs of the local values. The other components' types are proved alike |
| `...!DecisionsAreRecorded` | `Spec => []DecisionRecorded` | `DecisionInv`: every signed entry has a decided row, and so has the entry of any request whose *copy* is signed. Rows never lose a decision (`DecidedStays`), so a late stale save is harmless |
| `...!SubmittedEntriesBalance` | `WritersApart => (Spec => []BalancedOnceSubmitted)` | `BalanceInv`: the lines of an entry that a request has found balanced stay as they are until it saves, because no request that writes lines is on that entry (`Alone`), and a writer is only on draft entries. Without the hypothesis it is false, as `gl_stale_edit` shows for its sibling |
| `...!ClosedPeriodsStaySettled` | `ClosingApart => (Spec => []ClosedPeriodSettled)` | `ClosedInv`: between counting and closing nothing else runs, and a request that carries an unsettled entry carries an open period with it |
| `...!PostedEntriesAreFinal` | `EntriesApart => (Spec => PostedIsFinal)` | `FlowInv`: two requests are never on one entry, so the copy a request holds is the row it will overwrite, and no view lets a posted one through |
| `...!AuditTrailFollows` | `EntriesApart => (Spec => []AuditFollows)` | `AuditInv`: trail and status agree but between the UPDATE and the signal after it; what `CaptureOldValues` read is still true then |
| `...!NewestRowDecides` | `EntriesApart => (Spec => []LastDecisionStands)` | `RowsInv` follows a request from the row it decides on to the entry it saves, also when it dies in between and the decision is taken again |
| `...!WorkflowImplementsLedger` | `EntriesApart`, `WritersApart`, `ClosingApart` => (`Spec => ImplementsLedger`) | the refinement, step by step under the four invariants above: initial states map to initial states, and every statement to a step of `PostedLedger` or to a stutter. Posting maps to the UPDATE, which finds the entry balanced and its period open; everything before it stutters |
| `Receivables_proofs!StatusPosted` | `Spec => []StatusIsPosted` | `PostInv`: `PostOK` follows a request through the two lines of its entry: the lines it has executed (`Written`) are in the ledger with the amount it is going to save. Journal lines only grow and a receipt's amount never changes (`Grows`), so other workers cannot disturb it |
| `...!StatusFits` | `Spec => []StatusFitsAmounts` | `RowInv`: since rows are overwritten from copies, the relation must hold of every copy and every snapshot as well; and a copy whose total is about to be recalculated must be a draft. `PaymentKeepsRows` shows that `Pay` and `Unpay` preserve it for every amount |
| `...!BothLinesAgree` | `Spec => []EntriesBalance` | `HalfInv`: the lines of an entry differ by what the requests between its two lines have still to write, however many there are; it counts them |
| `...!PostedExactlyOnce` | `ReceiptsApart => (Spec => []PostedOnce)` | `OneEach` (one request per receipt) and `ExactInv`: each line holds the amount exactly when the status says so, up to the lines which the one request has written |
| `...!PaidIsWhatWasReceived` | `ReceiptsApart`, `InvoicesApart`, `NoAutoMatch`, `IsFiniteSet(Receipts)` => (`Spec => []PaidIsReceived`) | `ReadyInv`: no two requests are going to save the same invoice (`InvoicesOnce`), so the copies and snapshots that a request holds still show what the table shows (`Ready`); only entered invoices have allocations. `RowEffect` is the effect of each statement on amounts, allocations and receipts. `ContributionStep`: a statement changes what a receipt contributes only by the payment it makes or takes back (`AppliesContribution`); `SumChange` carries that over to the sum. The invariant speaks of every state, also of those in the middle of the loop over the allocations |
| `Payables_proofs!DecisionsAreRecorded` | `Spec => []DecisionRecorded` | `RecordedInv`: also of the copies that will be saved. Rows are overwritten, but no decided row turns pending again (`DecidedStays`) |
| `...!NewestRowsDecide` | `Spec => []NewestRowDecides` | `NewestInv`: while a bill is pending, its last row is the pending one, or the row of a decision that died before it saved the bill; the request that decides holds the row it has found (`NewestAt`). The premise `Apart("bill")` makes that the only request on the bill |
| `...!TotalsAreLines` | `Spec => []TotalIsLines` | `OneBill`, and `SumsInv`: the lines read into the total are those of the bill until it is saved |
| `...!ExecutedSchedulesArePaid` | `Spec => []ExecutedIsPaid` | `PayInv`: a payment has one owner for good; a request that is going to save a schedule as executed has inserted its payment and its allocation before |
| `...!DocumentsMadeOnce` | `Spec => []MadeOnce` | `ScheduledInv`; and `UploadInv`, by which an upload has led to one bill for each request that died (`aborts`) at most, and one more only when it is linked or its request is about to link it |
| `...!BatchesPayOnce` | `Spec => []BatchPaysOnce` | `PaysInv`: a batch has paid a bill at most `aborts` times, and once more only when it is `Through` with the bill: it is completed, or the loop over it has passed the bill. What other tabs do to the session does not matter, for the run has loaded the bills |
| `...!BatchesAreCounted` | `Spec => []BatchIsCounted` | `CountInv`: the loop's counter is the number of payments of the batch, but for the one whose allocation is still to come |
| `...!SelectionsAreWhole` | `Spec => []SelectionIsWhole` | `WholeInv`: the selection in the session, and in every copy of the session that a request carries, is empty or as many bills as the batch counts; nothing is assumed of overlaps |
| `BankReconciliation_proofs!MatchedHaveItems` | `Spec => []MatchedHasItem` | `FlagInv`: a marked transaction has an item that nobody is about to delete (`Firm`); a request that is going to set the flag has its item in the table (`Made`), and one that deletes an item has taken back the flag before (`Removable`) |
| `...!AutosMatchOnce` | `Spec => []AutoMatchesOnce` | `LineInv`: the one automatic matching that runs has found its line without a live item and inserts at once; what is matched by hand is of another type |
| `RecurringInvoices_proofs!DatesAreBilledOnce` | `Spec => []BilledOnce` | `GenInv` (the rows of a generation's queryset are those of the table, and a template has made one invoice less than its next date), `CountInv` (dates before the next are billed, the next one only when a request is between its invoice and its template or has died there) and `SentInv` |
| `Operations_proofs!MatchesStayAgreed`, `TemplatesBillOnce` | `Operations => []MatchesAgree`, `[]BilledOnce` | the theorems above, carried over to the modules side by side: a behaviour of `Operations` is one of each component, for a step of another component leaves it alone (`BankBehaves`, `RecurringBehaves`). What the constants are typed as is a hypothesis |
| `...!RecordsStayStamped` | `IsFiniteSet(ReviewItems)` => (`Operations => []RecordsAreStamped`) | `RecordInv`: decisions and edits overlap, so what they decided on need not be what they overwrite: the invariant keeps of each what still matters when it saves (`RequestFits`: a move of this kind of record; its copy has the stamps of its status, unless that was chosen (`RowHolds`); "implemented" only over "approved", unless a form overruled that; findings counted from the items as they are) |
| `...!AccessStaysComplete` | `"none" \notin Persons` => (`Operations => []AccessIsComplete`) | `PeopleInv`: no table loses a row (`Grows`), so what a request has seen stays true (`AccessFits`); a founder or a guest whose membership, profile or role is missing has a request that goes on with it, unless one has died (`Underway`). Requests overlap freely |
| `Figures_proofs!AmountsPaid`, `ReturnsArePaid` | `Spec => []PaidIsPayments`, also for `Operations` | `PaidInv`: requests on one return are apart (`Apart`); a return's row is written back from a copy, so the copy's amount must be the table's (`Keeps`); and between linking the entry of a payment and saving the sum the amount lags behind by exactly that payment (`Settled`) |
| `...!StockFigures` | `StockConstants` => (`Operations => []StockAddsUp`) | `Movements`: between the INSERT of a movement and the UPDATE of the item, the item is behind its rows by the quantity that the request was entered with, and its copy is still current, because two adjustments never overlap (`StockApart`). `CogsUsed`: what a calculation has taken from a layer and not recorded is in its request. Both are said of states in which no request has died |
| `...!StockCarriedOutOnce` | `StockConstants` => (`Operations => []CarriedOutOnce`) | `Orders`: what is not yet ordered has purchase orders only of requests that died, and the one that a request has made and not noted; `OnePending` is carried from the query for pending suggestions to the INSERT; `Moved`: the lines that a request has moved are those before the one it is at (`OutDone`, `InDone`). `StockFrames` and `OneRequest` say once which tables a kind of request leaves alone |
| `...!PostingsHaveEntries` | `EntityConstants` => (`Operations => []PostingsAgree`) | `EntityInv`: no two requests work on one document or one pair (`EntityApart`). `Held` says of a request what its rows show meanwhile: the balance is behind by the transaction being posted and the copy of it is not (`BalanceHeld`); it has posted as many entries as it counts down, beyond those that dead requests left (`OwnHeld`). All of them insert into one table of entries, so a step of one request has to be shown harmless to the others once (`InsideOutside`: what is said outside the rows of a request stays), and then looked at only for its own rows |
| `...!RunsAddUp` | `EntityConstants` => (`Operations => []ConsolidationAddsUp`) | the same invariant: the local total of a run is the sum of what it has recorded, which is every entry it has posted but the one in its hands (`ExecuteHeld`; `TrackApart` uses `SumOfRest`); a reversal has undone every elimination it no longer has to (`ReverseHeld`), and an entry that reverses another belongs to the run that has recorded it (`EntryAgrees`) |
| `...!PayrollsAddUp` | `PayConstants` => (`Operations => []PayrollAddsUp`) | `PayInv`: one request at a time works on the journal; while it calculates, its totals are those of the lines it has behind it (`CalculateHeld`, `Behind`), and the lines it has still to visit are as it read them. A reconciliation sums in two statements, between which the lines of an approved journal cannot change, for nothing that changes a line starts then (`CheckHeld`, `LinesStay`) |
| `...!ProjectsAreSummed` | `ProjectConstants` => (`Operations => []ProjectsAddUp`) | `RevenueInv`: a record that is not marked as behind has been computed from what posted records say *now*, whether its row is in the table (`RowStands`) or in the request that is about to save it (`Completes`); posting one by percentage of completion leaves every other one behind. The sum of what is posted then grows by what the posted record adds to its prior amount (`RevenueSums`). `InvoiceInv`: between its header and its totals an invoice is lagging, and the request that will save the totals holds those of the lines it has inserted (`InvoiceHeld`) |
| `Operations_proofs!SchedulesEndAtSalvage` | `RegisterConstants`, `CountConstants` => (`Operations => []ScheduleEndsAtSalvage`) | `GeneratedEnds`: what `Schedule` computes ends at the salvage value, for any positive cost and life: all months but the last take the rounded amount (`MonthlyBound` says by how much they can miss, at most half a cent a month), and the last takes what is left. An edit of the figures leaves the rows, and the asset is marked as `edited`. `RegisterInv` says which assets have such a schedule: all that have been entered, but for the one a request is `Working` on or died over (`Scheduled`) |
| `...!ReconciliationFollowsTheCount` | `RegisterConstants`, `CountConstants` => (`Operations => ReconcileFollowsCount`) | an action property. `CountInv`: where a count has found an asset is where the asset was then, and an asset that has not been moved since is still there (`Stays`, `IsAt`); a reconciliation has put the assets it has passed where the count found them (`Relocated`) |
| `...!FiguresAreCalculated` | `PlanConstants` => (`Operations => []FiguresAddUp`) | `PlanInv`: no two requests are on one document, and what a request holds is what it has added up of the rows behind it: a budget's total (`BudgetHeld`), the two columns of an analysis (`AnalysisHeld`), the rows of a driver, scenario or workforce plan (`SheetHeld`); with one row more the sum is one amount more (`OneMore`), with one row changed it differs by that (`SumChange`). A version copies total and lines of its budget, which nobody edits meanwhile, so it adds up if the budget does. `PlanFrame`: a step on one document leaves the figures of the others |
| `...!TypesAreCorrect` | all of these => (`Operations => []TypesOK`) | the invariants above carry the types of their components; what they leave out (the profiles and schedules of assets that are counted) is `PlaceTypeInv`. Which component is exercised never changes (`AssetSteps`), and `TypesOK` is the type of that one |

Theorems without a hypothesis hold however requests overlap; those about `Tax`, `MultiEntity`,
`BankReconciliation`, `RecurringInvoices`, `Payroll`, `Projects`, `FixedAssets` and `Planning` rest on what `MayStart` of these modules keeps
apart. In each module a lemma (`Effects`, or the like) states once, column by column, what every
statement does; the invariants are proved from it. They were checked with TLC first.

**Induction.** The library's induction theorems take an operator, which no installed prover can
instantiate. `Sums_proofs` does without them: `<` is well-founded on the natural numbers, a
non-empty set of them has a least element (`Least`), hence a set of subsets that contains the
empty set and is closed under adding the chosen element contains them all (`SetInduction`).
`SumUnfold` applies that to the fold of the community modules, once.

**Only model-checked**: `SubmissionReachesQueue` and `CompletionPays`, because liveness under
fairness is beyond the prover, as `ENABLED` is. Every other property of a passing run is a theorem. No module
uses RECURSIVE operators. The violated properties of the other runs are no theorems.

## Divergences found

1. **A posted entry can become a draft again** (`gl_stale_edit`;
   `general_ledger/views.py:382`). `journal_edit` promises that only drafts can be
   edited, but checks the status once and `form.save()` writes all columns later. The
   trace: load a draft in `journal_edit`; submit, approve, post it elsewhere; save.
2. **Cash application applies nothing** (`ar_auto_match`;
   `accounts_receivable/services.py:287`). `src/README.md:1455` promises "applying
   payments to the oldest invoices first". `auto_match_receipt` adds allocations to a
   receipt that is already completed; no invoice's `amount_paid` changes, then or
   later. `receipt_void` will subtract those allocations nevertheless.
3. **Receipts post to closed periods** (`ar_closed_period`;
   `accounts_receivable/services.py:20`). `general_ledger/models.py:179` and
   `src/Accounts.md:275` forbid it; the services insert posted entries without
   `clean()`, and a receipt may be completed or voided after its period was closed.

4. **A second rule matches matched transactions** (`bank_auto_match`;
   `cash_management/services.py:127`). `run_auto_match` is to "Execute auto-match rules
   against unmatched items" (line 77), but the transactions it found unmatched at the
   beginning are passed to every rule.
5. **An adjustment changes the stock and is not posted** (`inv_no_entry`;
   `inventory/services.py:156`). `src/README.md:1598` promises a "GL journal entry for
   adjustments"; the quantity is saved first, and the entry lacks the fiscal period that
   its column requires.
6. **A payroll reconciliation does not look at the totals** (`payroll_check`;
   `payroll/services.py:231`). `src/README.md:1710` promises "comparing journal totals against
   line-level sums", and so does the docstring. `perform_reconciliation` compares sums over the
   lines with each other. The trace: a second calculation dies over its lines, the journal is
   approved with the totals of the first, and is reconciled without an exception.

Behaviour the models keep, or that kept something from being modelled, and that no
text of the repository contradicts unless it is quoted:

* General ledger: a closed checklist is not required (a period whose page was never
  opened has no steps).
* Receivables: receipts may pay draft or void invoices, because the allocation form offers
  all; a partially paid invoice whose last receipt is voided stays "partially paid" with 0
  (`update_payment_status`, `models.py:303`, ignores the status it finds).
* Recurring invoices: `recurring_generate` works on all templates of the tenant, whichever
  template its page shows; a template whose date lies in a closed period is passed over; the
  form lacks the required `next_invoice_date`; the page of a paused template names a URL
  that does not exist.
* Payables: an approval and a rejection that overlap write one row, and an approved bill may be
  left with a row that says "rejected" (`views.py:573`); a tab that was opened before a batch was
  made erases its selection, and the batch can never be processed (`views.py:935`). `payment_complete` and `payment_void` call their services with an argument
  missing and raise, so every payment stays a draft.
* Bank reconciliation: a match from a stale page gives a transaction or a line a second item, and
  removing either takes back the flag of both (`cash_management/views.py:552`).
* Postings without a fiscal period raise where they insert the entry: cash transfers,
  acquisitions, disposals, impairments, goods receipts, cycle counts, landed costs, COGS,
  payroll journals and remittances, use tax, audit adjustments. Write-offs and credit memos
  raise for want of a currency.
* Fixed assets: `asset_edit` changes cost, salvage value and life and keeps the schedule that was
  generated for the old ones (`views.py:322`); rounding may make the last month negative, so that
  the book value rises in it. The depreciation run of the views hides the service of the same name
  (`views.py:485`), so it does not reach it.
* Inventory: `_consume_layers` (`services.py:383`) stops silently when the layers run out:
  a sale of more than there is costs only what there was.
* Entities: with two elimination rules each balance is eliminated twice
  (`services.py:194`); `ConsolidationAddsUp` holds of that.
* Tax: the page of a calculated return that is edited has no button to calculate it again, so
  stale totals may be filed, while a request to calculate is served in any status. A use tax accrual
  is saved as posted before its first assessment fails to post (`services.py:332`). The page of the income tax provision names a URL that does
  not exist.
* Payroll: anything in the column of other deductions makes a reconciliation end with an exception; `Garnishment.total_paid` is never updated, although `src/README.md:1677`
  lists it.
* Budgets: `budget_edit` checks no status; two versions may be current; the variance counts
  the actuals of an account once per line; a scenario edited after its calculation keeps the
  old summary.
* Projects: `src/README.md:1759` says "Revenue recognition creates a posted journal entry",
  and `rev_rec_post` creates none; milestone and completed-contract methods compute nothing;
  the page of a record reads a variable that its view does not pass.
* Audit: `src/README.md:1948` and `:48` list change requests that are submitted, approved and then
  implemented; their form offers every status (`audit/forms.py:172`), so that one person can
  choose "approved", without an approver, and implement the change. The forms of
  statements, reports, packages and filings do the same. `scan_sod_conflicts` reads `user.role_assignments`, a name the models do not define
  (`services.py:49`), and raises; `process_change_approval` is imported and never called; the
  exception scan is a placeholder.
* Accounts: an expired invitation stops a new one to the same address and cannot be accepted.

## Not modelled

The map names some six thousand lines, about a tenth of the Python code. The rest has no
protocol to check:

* **The demonstration data generator** (`core/.../seed_data.py`, more than 8000 lines),
  migrations, admin registrations, URLs, settings, templates and static files.
* **Forms and field lists**: some 5000 lines of form classes and more of `Meta`, choices,
  columns and display methods. The models name the columns that a guard or a property reads.
* **Lists, detail pages, reports, dashboards**: they read, format and paginate. Most views of
  every application are of this kind.
* **Single rows**: customers, vendors, items, warehouses, categories, tax rates, nexus,
  currencies, bank accounts, employees, benefits, insurance, maintenance, project tasks, time
  sheets, expenses, forecasts, transfer pricing, the whole of `company` and `system_admin`
  (whose backup, import and health jobs change a status without a guard and run nothing). A
  form writes the row it loaded; what can go wrong with that is the stale copy which
  `gl_stale_edit` shows.
* **Postings that cannot complete** (listed above), and the steps that only follow them.
  Where something was written before the exception it is modelled: stock adjustments,
  batches, use tax accruals, schedules. Buttons around them, such as approving a purchase
  order or cancelling a cash transfer, are single statements on one row.
* **The tenant of a thread**: `tenants/middleware.py` clears it in `finally` and every view
  sets it again before it queries, so there is no reachable state in which a property could
  fail.
* **Number generation beyond four digits.** `JE-2024-9999` is followed by a number that
  sorts below it; the models number documents with naturals up to a bound. A duplicate
  number is modelled: the second insert fails.
* **Discounts on receipts**: `accounts_receivable/services.py:56` debits the discount to the
  bank account.
* Within the modelled parts: texts, dates, currencies, accounts, permissions; pending and
  rejected approval rows of invoices; credit limits.

## Plan

Every part with a protocol of its own is modelled, and every safety property of a passing run is proved. Left to
model: discounts on receipts, and numbers that run over four digits. Left to prove, when a prover can do it: the two
liveness properties.
