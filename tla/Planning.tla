------------------------------- MODULE Planning -------------------------------
(***************************************************************************)
(* apps/budgeting: a budget with its lines, its versions and the variance  *)
(* analysis of one of its periods, and a sheet: a driver, a scenario or a  *)
(* workforce plan of the budget.                                           *)
(*                                                                         *)
(* All of them are saved row by row and calculated afterwards, in the same *)
(* request or at a button of the page, so that their figures lag behind    *)
(* until a request has calculated them to the end.  lagging records which: *)
(* it is history, the code has no such column.  A row that is not there    *)
(* has amount 0.                                                           *)
(***************************************************************************)
EXTENDS Naturals, Sequences, Sums

CONSTANTS
    Workers,    \* the server processes
    Lines,      \* bound: the lines the budget may have
    InPeriod,   \* those in the period that is analysed
    Versions,   \* bound: the versions that may be made
    Cells,      \* bound: the periods, adjustments or positions of the sheet
    MaxAmount,  \* bound: of a line, a cell and the account of the ledger
    MaxAborts,  \* bound: how many requests may die half-way
    Chosen,     \* bound: the statuses that users choose in forms
    Offerings   \* bound: what users ask for in one behaviour

VARIABLES
    budget,    \* table Budget, with BudgetLineItem
    version,   \* table BudgetVersion
    ledger,    \* what is posted in the period to the account that the lines name
    analysis,  \* table VarianceAnalysis, with VarianceLineItem
    sheet,     \* table PlanningDriver, ScenarioModel or WorkforcePlan, with its rows
    lagging,   \* history: the documents that are not calculated to the end
    req,       \* what each worker holds of the request it serves
    offered,   \* what users ask for
    aborts     \* how many requests have ended half-way

rows == <<budget, version, ledger, analysis, sheet, lagging>>
vars == <<rows, req, offered, aborts>>

None == "none"
Amounts == 0..MaxAmount
Statuses == {"draft", "in_review", "approved", "active", "closed"}

Budget == [status : Statuses \cup {None}, amount : [Lines -> Amounts], total : Nat]
Version == [made : BOOLEAN, snapshot : [Lines -> Amounts], total : Nat]
Analysis == [status : {None, "draft", "generated", "reviewed", "approved"},
             lines : Seq([budget : Amounts, actual : Amounts]),
             budget : Nat, actual : Nat]
\* The total of a scenario stands for its result_summary, which lists what it derived.
Sheet == [kind : {"driver", "scenario", "workforce"}, amount : [Cells -> Amounts],
          derived : [Cells -> Nat], total : Nat]

NoLines == [l \in Lines |-> 0]
NoVersion == [made |-> FALSE, snapshot |-> NoLines, total |-> 0]

Documents == Versions \cup {"budget", "analysis", "sheet"}

Request ==
    [pc : {"idle", "budget_row", "budget_lines", "save_total", "decide",
           "insert_version", "read_lines", "save_version",
           "clear_lines", "find_lines", "compare", "sheet_row", "cells", "calculate"},
     d : Documents \cup {None, "decision"},
     v : Versions \cup {None},          \* the version it made
     status : Statuses,                 \* that a decision saves
     todo : SUBSET (Lines \cup Cells),  \* the rows the loop has left
     amount : [Lines -> Amounts],       \* the budget lines as it read them
     total : Nat, actual : Nat]         \* the totals it carries
Idle == [pc |-> "idle", d |-> None, v |-> None, status |-> "draft", todo |-> {}, amount |-> NoLines,
         total |-> 0, actual |-> 0]

TypeOK ==
    /\ budget \in Budget /\ version \in [Versions -> Version]
    /\ ledger \in Amounts
    /\ analysis \in Analysis /\ sheet \in Sheet
    /\ lagging \subseteq Documents
    /\ req \in [Workers -> Request]
    /\ offered \in Offerings /\ aborts \in Nat

Init ==
    /\ budget = [status |-> None, amount |-> NoLines, total |-> 0]
    /\ version = [v \in Versions |-> NoVersion]
    /\ ledger = 0
    /\ analysis = [status |-> None, lines |-> <<>>, budget |-> 0, actual |-> 0]
    /\ sheet \in {[kind |-> kind, amount |-> [c \in Cells |-> 0],
                   derived |-> [c \in Cells |-> 0], total |-> 0] :
                     kind \in {"driver", "scenario", "workforce"}}
    /\ lagging = {}
    /\ req = [w \in Workers |-> Idle]
    /\ offered \in Offerings
    /\ aborts = 0

-----------------------------------------------------------------------------
At(w, label) == req[w].pc = label
Busy(w) == ~At(w, "idle")
Goto(w, label) == req' = [req EXCEPT ![w].pc = label]
Finish(w) == req' = [req EXCEPT ![w] = Idle]

\* Users do not ask for two changes of one document at the same time, nor for a version of
\* a budget that is being edited; a decision on the budget may overlap with both.
MayStart(w, d) == ~Busy(w) /\ \A v \in Workers : req[v].d # d
Begin(w, label, d) == req' = [req EXCEPT ![w] = [Idle EXCEPT !.pc = label, !.d = d]]

-----------------------------------------------------------------------------
(* Budgets. *)

\* budget_create, or budget_edit, which does not look at the status.
EditBudget(w) ==
    /\ "budget" \in offered /\ MayStart(w, "budget")
    /\ req' = [req EXCEPT ![w] = [Idle EXCEPT !.pc = "budget_row", !.d = "budget",
                                              !.total = budget.total]]
    /\ UNCHANGED <<rows, offered, aborts>>

\* The form has a field for the status; the total is written back as it was loaded.
SaveBudgetRow(w) ==
    /\ At(w, "budget_row")
    /\ \E status \in Chosen :
          budget' = [budget EXCEPT !.status = status, !.total = req[w].total]
    /\ lagging' = lagging \cup {"budget"}
    /\ req' = [req EXCEPT ![w].pc = "budget_lines", ![w].todo = Lines]
    /\ UNCHANGED <<version, ledger, analysis, sheet, offered, aborts>>

\* A line is entered, changed, deleted or left as it is.
SaveLine(w) ==
    /\ At(w, "budget_lines")
    /\ \E l \in req[w].todo, amount \in Amounts :
          /\ budget' = [budget EXCEPT !.amount[l] = amount]
          /\ req' = [req EXCEPT ![w].todo = @ \ {l}]
    /\ UNCHANGED <<version, ledger, analysis, sheet, lagging, offered, aborts>>

SumLines(w) ==
    /\ At(w, "budget_lines") /\ req[w].todo = {}
    /\ req' = [req EXCEPT ![w].pc = "save_total", ![w].total = SumOf(budget.amount)]
    /\ UNCHANGED <<rows, offered, aborts>>

SaveTotal(w) ==
    /\ At(w, "save_total")
    /\ budget' = [budget EXCEPT !.total = req[w].total]
    /\ lagging' = lagging \ {"budget"}
    /\ Finish(w)
    /\ UNCHANGED <<version, ledger, analysis, sheet, offered, aborts>>

\* budget_submit and budget_approve, which save the status and nothing else.
Decide(w) ==
    /\ "decision" \in offered /\ MayStart(w, "decision")
    /\ budget.status \in {"draft", "in_review"}
    /\ req' = [req EXCEPT ![w] = [Idle EXCEPT !.pc = "decide", !.d = "decision",
                  !.status = IF budget.status = "draft" THEN "in_review" ELSE "approved"]]
    /\ UNCHANGED <<rows, offered, aborts>>

SaveDecision(w) ==
    /\ At(w, "decide")
    /\ budget' = [budget EXCEPT !.status = req[w].status]
    /\ Finish(w)
    /\ UNCHANGED <<version, ledger, analysis, sheet, lagging, offered, aborts>>

-----------------------------------------------------------------------------
(* Versions. *)

\* version_create loads the budget when it validates the form.
CreateVersion(w) ==
    /\ "version" \in offered /\ MayStart(w, "budget")
    /\ budget.status # None /\ \E v \in Versions : ~version[v].made
    /\ req' = [req EXCEPT ![w] = [Idle EXCEPT !.pc = "insert_version", !.d = "budget",
                                              !.total = budget.total]]
    /\ UNCHANGED <<rows, offered, aborts>>

InsertVersion(w) ==
    /\ At(w, "insert_version")
    /\ \E v \in {u \in Versions : ~version[u].made} :
          /\ version' = [version EXCEPT ![v].made = TRUE]
          /\ req' = [req EXCEPT ![w].pc = "read_lines", ![w].v = v]
    /\ UNCHANGED <<budget, ledger, analysis, sheet, lagging, offered, aborts>>

ReadLines(w) ==
    /\ At(w, "read_lines")
    /\ req' = [req EXCEPT ![w].pc = "save_version", ![w].amount = budget.amount]
    /\ UNCHANGED <<rows, offered, aborts>>

\* The total is the one of the budget, which may itself lag behind its lines.
SaveVersion(w) ==
    /\ At(w, "save_version")
    /\ version' = [version EXCEPT ![req[w].v].snapshot = req[w].amount,
                                  ![req[w].v].total = req[w].total]
    /\ lagging' = IF "budget" \in lagging THEN lagging \cup {req[w].v} ELSE lagging
    /\ Finish(w)
    /\ UNCHANGED <<budget, ledger, analysis, sheet, offered, aborts>>

-----------------------------------------------------------------------------
(* Variance analysis. *)

\* variance_create: the form has a field for the status here as well.
CreateAnalysis ==
    /\ "analysis" \in offered /\ analysis.status = None
    /\ \E status \in Chosen :
          analysis' = [analysis EXCEPT !.status = status]
    /\ UNCHANGED <<budget, version, ledger, sheet, lagging, req, offered, aborts>>

\* An entry is posted, or reversed, in the period.
PostEntry ==
    /\ "analysis" \in offered
    /\ ledger' \in Amounts
    /\ UNCHANGED <<budget, version, analysis, sheet, lagging, req, offered, aborts>>

\* Whatever the status, also of an analysis that was reviewed or approved.
GenerateVariance(w) ==
    /\ MayStart(w, "analysis")
    /\ analysis.status # None
    /\ Begin(w, "clear_lines", "analysis")
    /\ UNCHANGED <<rows, offered, aborts>>

\* Mutant: what an earlier generation left is kept.
KeepVarianceLines(w) ==
    /\ At(w, "clear_lines")
    /\ lagging' = lagging \cup {"analysis"}
    /\ Goto(w, "find_lines")
    /\ UNCHANGED <<budget, version, ledger, analysis, sheet, offered, aborts>>

ClearVarianceLines(w) ==
    /\ At(w, "clear_lines")
    /\ analysis' = [analysis EXCEPT !.lines = <<>>]
    /\ lagging' = lagging \cup {"analysis"}
    /\ Goto(w, "find_lines")
    /\ UNCHANGED <<budget, version, ledger, sheet, offered, aborts>>

\* The lines of the budget in the period, which may be edited meanwhile.
FindLines(w) ==
    /\ At(w, "find_lines")
    /\ req' = [req EXCEPT ![w].pc = "compare", ![w].amount = budget.amount,
                          ![w].todo = {l \in InPeriod : budget.amount[l] > 0}]
    /\ UNCHANGED <<rows, offered, aborts>>

\* The ledger is summed for each line as its turn comes.
CompareLine(w) ==
    /\ At(w, "compare")
    /\ \E l \in req[w].todo :
          /\ analysis' = [analysis EXCEPT
                !.lines = Append(@, [budget |-> req[w].amount[l], actual |-> ledger])]
          /\ req' = [req EXCEPT ![w].todo = @ \ {l}, ![w].total = @ + req[w].amount[l],
                                ![w].actual = @ + ledger]
    /\ UNCHANGED <<budget, version, ledger, sheet, lagging, offered, aborts>>

SaveAnalysis(w) ==
    /\ At(w, "compare") /\ req[w].todo = {}
    /\ analysis' = [analysis EXCEPT !.status = "generated", !.budget = req[w].total,
                                    !.actual = req[w].actual]
    /\ lagging' = lagging \ {"analysis"}
    /\ Finish(w)
    /\ UNCHANGED <<budget, version, ledger, sheet, offered, aborts>>

-----------------------------------------------------------------------------
(* Sheets. *)

\* driver_, scenario_ and workforce_create and _edit.
EditSheet(w) ==
    /\ "sheet" \in offered /\ MayStart(w, "sheet")
    /\ Begin(w, "sheet_row", "sheet")
    /\ UNCHANGED <<rows, offered, aborts>>

SaveSheetRow(w) ==
    /\ At(w, "sheet_row")
    /\ lagging' = lagging \cup {"sheet"}
    /\ req' = [req EXCEPT ![w].pc = "cells", ![w].todo = Cells]
    /\ UNCHANGED <<budget, version, ledger, analysis, sheet, offered, aborts>>

\* What is derived from a row goes with it when it is deleted.
SaveCell(w) ==
    /\ At(w, "cells")
    /\ \E c \in req[w].todo, amount \in Amounts :
          /\ sheet' = [sheet EXCEPT !.amount[c] = amount,
                                    !.derived[c] = IF amount = 0 THEN 0 ELSE @]
          /\ req' = [req EXCEPT ![w].todo = @ \ {c}]
    /\ UNCHANGED <<budget, version, ledger, analysis, lagging, offered, aborts>>

Present == {c \in Cells : sheet.amount[c] > 0}

\* A scenario is not calculated when it is edited.
EndCells(w) ==
    /\ At(w, "cells") /\ req[w].todo = {}
    /\ IF sheet.kind = "scenario" THEN Finish(w)
       ELSE req' = [req EXCEPT ![w].pc = "calculate", ![w].todo = Present]
    /\ UNCHANGED <<rows, offered, aborts>>

\* driver_calculate and scenario_calculate; a workforce plan has no such button.
Calculate(w) ==
    /\ "sheet" \in offered /\ MayStart(w, "sheet")
    /\ sheet.kind # "workforce"
    /\ req' = [req EXCEPT ![w] = [Idle EXCEPT !.pc = "calculate", !.d = "sheet",
                                              !.todo = Present]]
    /\ UNCHANGED <<rows, offered, aborts>>

\* Quantity times rate, salaries with their benefits, or an adjustment of the budget.
Derived(c) ==
    IF sheet.kind = "scenario" THEN SumOf(budget.amount) + sheet.amount[c]
    ELSE 2 * sheet.amount[c]

CalculateCell(w) ==
    /\ At(w, "calculate")
    /\ \E c \in req[w].todo :
          /\ sheet' = [sheet EXCEPT !.derived[c] = Derived(c)]
          /\ req' = [req EXCEPT ![w].todo = @ \ {c}, ![w].total = @ + Derived(c)]
    /\ lagging' = lagging \cup {"sheet"}
    /\ UNCHANGED <<budget, version, ledger, analysis, offered, aborts>>

\* A driver has no total.
SaveSheet(w) ==
    /\ At(w, "calculate") /\ req[w].todo = {}
    /\ sheet' = IF sheet.kind = "driver" THEN sheet ELSE [sheet EXCEPT !.total = req[w].total]
    /\ lagging' = lagging \ {"sheet"}
    /\ Finish(w)
    /\ UNCHANGED <<budget, version, ledger, analysis, offered, aborts>>

-----------------------------------------------------------------------------
Crash(w) ==
    /\ Busy(w) /\ aborts < MaxAborts
    /\ aborts' = aborts + 1
    /\ Finish(w)
    /\ UNCHANGED <<rows, offered>>

Continue(w) ==
    \/ SaveBudgetRow(w) \/ SaveLine(w) \/ SumLines(w) \/ SaveTotal(w) \/ SaveDecision(w)
    \/ InsertVersion(w) \/ ReadLines(w) \/ SaveVersion(w)
    \/ ClearVarianceLines(w) \/ FindLines(w) \/ CompareLine(w) \/ SaveAnalysis(w)
    \/ SaveSheetRow(w) \/ SaveCell(w) \/ EndCells(w) \/ CalculateCell(w) \/ SaveSheet(w)

Next ==
    \/ CreateAnalysis \/ PostEntry
    \/ \E w \in Workers :
          \/ EditBudget(w) \/ Decide(w) \/ CreateVersion(w) \/ GenerateVariance(w)
          \/ EditSheet(w) \/ Calculate(w)
          \/ Continue(w) \/ Crash(w)

Spec == Init /\ [][Next]_vars

-----------------------------------------------------------------------------
(* Properties. *)

\* The total of a budget is that of its lines.
BudgetAddsUp == "budget" \notin lagging => budget.total = SumOf(budget.amount)

\* The total kept in a version is that of the lines kept in it.
VersionsAddUp ==
    \A v \in Versions : v \notin lagging => version[v].total = SumOf(version[v].snapshot)

\* The totals of an analysis are those of its lines.
VarianceAddsUp ==
    "analysis" \notin lagging =>
        /\ analysis.budget = SumOf([k \in DOMAIN analysis.lines |-> analysis.lines[k].budget])
        /\ analysis.actual = SumOf([k \in DOMAIN analysis.lines |-> analysis.lines[k].actual])

\* The rows of a sheet are calculated from what was entered, and its total from them.
SheetAddsUp ==
    "sheet" \notin lagging =>
        /\ sheet.kind # "scenario" =>
              \A c \in Cells : sheet.derived[c] = 2 * sheet.amount[c]
        /\ sheet.kind # "driver" => sheet.total = SumOf(sheet.derived)

\* A document that was calculated to the end adds up, whatever happens to the other
\* documents and the ledger meanwhile, however often it is calculated again, and also when
\* an earlier request died over it and left rows behind.
FiguresAddUp == BudgetAddsUp /\ VersionsAddUp /\ VarianceAddsUp /\ SheetAddsUp
=============================================================================
