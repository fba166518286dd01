-------------------------------- MODULE Payroll --------------------------------
(***************************************************************************)
(* apps/payroll: a payroll journal with its lines, one for each employee,  *)
(* and the reconciliations made of it.                                     *)
(*                                                                         *)
(* What is withheld from an employee changes at any time; a calculation    *)
(* reads it line by line.  It stands for the taxes; benefits and           *)
(* garnishments, which enter a line in the same way, are left out.         *)
(* Posting to the ledger fails always, for the entry names no fiscal       *)
(* period.                                                                 *)
(* lagging is history, for the code has no such column: a calculation has  *)
(* begun that no calculation has ended.                                    *)
(***************************************************************************)
EXTENDS Integers, Sequences, Sums

CONSTANTS
    Workers,             \* the server processes
    Employees,           \* the employees
    WithOther,           \* those whose line may have other deductions
    Pay,                 \* what an employee earns in the period
    Withheld,            \* bound: what may be withheld from an employee
    MaxReconciliations,  \* bound: how many reconciliations are made
    MaxAborts            \* bound: how many requests may die half-way

VARIABLES
    withheld,        \* what is withheld from each employee
    journal,         \* table PayrollJournal
    line,            \* table PayrollJournalLine, by employee
    reconciliation,  \* table PayrollReconciliation
    lagging,         \* history: whether the last calculation has not ended
    req,             \* what each worker holds of the request it serves
    aborts           \* how many requests have ended half-way

rows == <<withheld, journal, line, reconciliation, lagging>>
vars == <<rows, req, aborts>>

\* A line before it is there, and after it was entered with other deductions or without.
Line == [there : BOOLEAN, other : {0, 1}, gross : Nat, withheld : Nat, net : Int]
NoLine == [there |-> FALSE, other |-> 0, gross |-> 0, withheld |-> 0, net |-> 0]

Journal == [status : {"none", "draft", "calculated", "approved"},
            gross : Nat, deductions : Nat, net : Int]
WithTotals(j, gross, deductions, net) ==
    [status |-> j.status, gross |-> gross, deductions |-> deductions, net |-> net]
Draft == WithTotals([status |-> "draft"], 0, 0, 0)

Reconciliation == [status : {"draft", "reconciled", "exception"},
                   gross : Nat, withheld : Nat, net : Int,
                   final : BOOLEAN]   \* history: made of an approved journal

Request ==
    [pc : {"idle", "insert", "insert_lines", "find_lines", "calculate", "approve", "post",
           "insert_reconciliation", "sum_pay", "sum_taxes", "save_reconciliation"},
     op : {"none", "journal", "reconcile"},
     copy : Journal,               \* the journal as it loaded it, with the sums it makes
     todo : SUBSET Employees,      \* the lines the loop has left
     line : [Employees -> Line],   \* the lines as it read them
     n : Nat]                      \* its reconciliation
Idle == [pc |-> "idle", op |-> "none", copy |-> Draft, todo |-> {},
         line |-> [e \in Employees |-> NoLine], n |-> 0]

TypeOK ==
    /\ withheld \in [Employees -> Withheld]
    /\ journal \in Journal
    /\ line \in [Employees -> Line]
    /\ reconciliation \in Seq(Reconciliation)
    /\ lagging \in BOOLEAN
    /\ req \in [Workers -> Request]
    /\ aborts \in Nat

Init ==
    /\ withheld \in [Employees -> Withheld]
    /\ journal = [Draft EXCEPT !.status = "none"]
    /\ line = [e \in Employees |-> NoLine]
    /\ reconciliation = <<>>
    /\ lagging = FALSE
    /\ req = [w \in Workers |-> Idle]
    /\ aborts = 0

-----------------------------------------------------------------------------
At(w, label) == req[w].pc = label
Busy(w) == ~At(w, "idle")
Finish(w) == req' = [req EXCEPT ![w] = Idle]

\* Users do not ask for two changes of the journal at the same time.
MayStart(w, op) == ~Busy(w) /\ (op = "journal" => \A v \in Workers : req[v].op # op)
Begin(w, op, label) ==
    /\ MayStart(w, op)
    /\ req' = [req EXCEPT ![w] = [Idle EXCEPT !.op = op, !.pc = label, !.copy = journal]]
    /\ UNCHANGED <<rows, aborts>>

\* The columns of the lines, added up.
Gross(lines) == SumOf([e \in Employees |-> lines[e].gross])
Net(lines) == SumOf([e \in Employees |-> lines[e].net])
Taken(lines) == SumOf([e \in Employees |-> lines[e].withheld])
Deducted(lines) == SumOf([e \in Employees |-> lines[e].withheld + lines[e].other])

\* A withholding, a benefit or a garnishment is entered, changed or ended.
ChangeWithheld ==
    /\ \E e \in Employees, amount \in Withheld : withheld' = [withheld EXCEPT ![e] = amount]
    /\ UNCHANGED <<journal, line, reconciliation, lagging, req, aborts>>

-----------------------------------------------------------------------------
(* journal_create: the journal, then its lines, which no view changes afterwards. *)

CreateJournal(w) == journal.status = "none" /\ Begin(w, "journal", "insert")

InsertJournal(w) ==
    /\ At(w, "insert")
    /\ journal' = Draft
    /\ req' = [req EXCEPT ![w].pc = "insert_lines", ![w].todo = Employees]
    /\ UNCHANGED <<withheld, line, reconciliation, lagging, aborts>>

\* An employee may be left out.
InsertLine(w) ==
    /\ At(w, "insert_lines")
    /\ \E e \in req[w].todo :
          /\ req' = [req EXCEPT ![w].todo = @ \ {e}]
          /\ line' \in {line} \cup
                {[line EXCEPT ![e].there = TRUE, ![e].other = other] :
                    other \in IF e \in WithOther THEN {0, 1} ELSE {0}}
    /\ UNCHANGED <<withheld, journal, reconciliation, lagging, aborts>>

EndLines(w) ==
    /\ At(w, "insert_lines") /\ req[w].todo = {}
    /\ Finish(w)
    /\ UNCHANGED <<rows, aborts>>

-----------------------------------------------------------------------------
(* journal_calculate and calculate_payroll_journal. *)

CalculateJournal(w) ==
    journal.status \in {"draft", "calculated"} /\ Begin(w, "journal", "find_lines")

Entered == {e \in Employees : line[e].there}

\* Mutant: the sums start from the totals of the last calculation.
FindLinesKeepingTotals(w) ==
    /\ At(w, "find_lines")
    /\ req' = [req EXCEPT ![w].pc = "calculate", ![w].line = line,
                  ![w].todo = Entered]
    /\ UNCHANGED <<rows, aborts>>

FindLines(w) ==
    /\ At(w, "find_lines")
    /\ req' = [req EXCEPT ![w].pc = "calculate", ![w].line = line,
                  ![w].todo = Entered,
                  ![w].copy = WithTotals(@, 0, 0, 0)]
    /\ UNCHANGED <<rows, aborts>>

\* The withheld part may be more than the pay.
Calculated(row, amount) ==
    [row EXCEPT !.gross = Pay, !.withheld = amount, !.net = Pay - amount - row.other]

\* What is withheld is read for each line as its turn comes.
CalculateLine(w) ==
    /\ At(w, "calculate")
    /\ \E e \in req[w].todo :
          LET row == Calculated(req[w].line[e], withheld[e]) IN
          /\ line' = [line EXCEPT ![e] = row]
          /\ req' = [req EXCEPT ![w].todo = @ \ {e},
                        ![w].copy = WithTotals(@, @.gross + row.gross,
                            @.deductions + row.withheld + row.other, @.net + row.net)]
    /\ lagging' = TRUE
    /\ UNCHANGED <<withheld, journal, reconciliation, aborts>>

SaveTotals(w) ==
    /\ At(w, "calculate") /\ req[w].todo = {}
    /\ journal' = [req[w].copy EXCEPT !.status = "calculated"]
    /\ lagging' = FALSE
    /\ Finish(w)
    /\ UNCHANGED <<withheld, line, reconciliation, aborts>>

\* journal_approve, which saves the row it loaded.
ApproveJournal(w) == journal.status = "calculated" /\ Begin(w, "journal", "approve")

SaveApproval(w) ==
    /\ At(w, "approve")
    /\ journal' = [req[w].copy EXCEPT !.status = "approved"]
    /\ Finish(w)
    /\ UNCHANGED <<withheld, line, reconciliation, lagging, aborts>>

\* journal_post, whose first statement, the insert of the entry, raises.
PostJournal(w) == journal.status = "approved" /\ Begin(w, "journal", "post")

FailToPost(w) ==
    /\ At(w, "post")
    /\ Finish(w)
    /\ UNCHANGED <<rows, aborts>>

-----------------------------------------------------------------------------
(* reconciliation_create and perform_reconciliation. *)

Reconcile(w) ==
    /\ journal.status # "none" /\ Len(reconciliation) < MaxReconciliations
    /\ Begin(w, "reconcile", "insert_reconciliation")

InsertReconciliation(w) ==
    /\ At(w, "insert_reconciliation") /\ Len(reconciliation) < MaxReconciliations
    /\ reconciliation' = Append(reconciliation,
          [status |-> "draft", gross |-> 0, withheld |-> 0, net |-> 0,
           final |-> journal.status = "approved"])
    /\ req' = [req EXCEPT ![w].pc = "sum_pay", ![w].n = Len(reconciliation) + 1]
    /\ UNCHANGED <<withheld, journal, line, lagging, aborts>>

SumPay(w) ==
    /\ At(w, "sum_pay")
    /\ req' = [req EXCEPT ![w].pc = "sum_taxes",
                          ![w].copy = WithTotals(@, Gross(line), @.deductions, Net(line))]
    /\ UNCHANGED <<rows, aborts>>

\* The taxes are summed in statements of their own.
SumTaxes(w) ==
    /\ At(w, "sum_taxes")
    /\ req' = [req EXCEPT ![w].pc = "save_reconciliation",
                          ![w].copy = WithTotals(@, @.gross, Taken(line), @.net)]
    /\ UNCHANGED <<rows, aborts>>

\* The totals of the journal do not enter, nor do the other deductions of its lines.
SaveReconciliation(w) ==
    /\ At(w, "save_reconciliation")
    /\ LET sums == req[w].copy IN
          reconciliation' = [reconciliation EXCEPT ![req[w].n] =
              [@ EXCEPT !.gross = sums.gross, !.withheld = sums.deductions, !.net = sums.net,
                        !.status = IF sums.net = sums.gross - sums.deductions
                                   THEN "reconciled" ELSE "exception"]]
    /\ Finish(w)
    /\ UNCHANGED <<withheld, journal, line, lagging, aborts>>

-----------------------------------------------------------------------------
Crash(w) ==
    /\ Busy(w) /\ aborts < MaxAborts
    /\ aborts' = aborts + 1
    /\ Finish(w)
    /\ UNCHANGED rows

Continue(w) ==
    \/ InsertJournal(w) \/ InsertLine(w) \/ EndLines(w)
    \/ FindLines(w) \/ CalculateLine(w) \/ SaveTotals(w) \/ SaveApproval(w) \/ FailToPost(w)
    \/ InsertReconciliation(w) \/ SumPay(w) \/ SumTaxes(w) \/ SaveReconciliation(w)

Next ==
    \/ ChangeWithheld
    \/ \E w \in Workers :
          \/ CreateJournal(w) \/ CalculateJournal(w) \/ ApproveJournal(w) \/ PostJournal(w)
          \/ Reconcile(w)
          \/ Continue(w) \/ Crash(w)

Spec == Init /\ [][Next]_vars

-----------------------------------------------------------------------------
(* Properties. *)

\* The totals of a calculated or approved journal are those of its lines.
TotalsAreLines ==
    ~lagging /\ journal.status \in {"calculated", "approved"} =>
        /\ journal.gross = Gross(line)
        /\ journal.deductions = Deducted(line)
        /\ journal.net = Net(line)

\* A reconciliation of an approved journal, which sums the columns of its lines in several
\* statements, has the sums of its lines as they stand.
ReconciliationIsLines ==
    \A n \in DOMAIN reconciliation :
        reconciliation[n].final /\ reconciliation[n].status # "draft" =>
            /\ reconciliation[n].gross = Gross(line)
            /\ reconciliation[n].withheld = Taken(line)
            /\ reconciliation[n].net = Net(line)

\* A payroll journal adds up however often it is calculated while what is withheld from its
\* employees changes: what a calculation that died has left, the next one that comes to its
\* end puts right.  Once the journal is approved, nothing changes what was reconciled.
PayrollAddsUp == TotalsAreLines /\ ReconciliationIsLines

\* README.md:1710 and payroll/services.py:231: the reconciliation of a journal "compares
\* journal totals against line-level sums", so that they agree where it finds no exception.
ReconciledAgrees ==
    \A n \in DOMAIN reconciliation :
        reconciliation[n].final /\ reconciliation[n].status = "reconciled" =>
            /\ journal.gross = Gross(line)
            /\ journal.deductions = Deducted(line)
            /\ journal.net = Net(line)
=============================================================================
