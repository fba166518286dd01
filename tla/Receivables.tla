----------------------------- MODULE Receivables -----------------------------
(***************************************************************************)
(* apps/accounts_receivable: invoices and their workflow, receipts and     *)
(* their allocations to invoices, completing and voiding a receipt with    *)
(* the journal entries this posts, and the automatic cash application.     *)
(*                                                                         *)
(* As in JournalWorkflow a request is a sequence of autocommitted          *)
(* statements on local copies of rows, and the statements of different     *)
(* workers interleave.  Statements that write nothing modelled here are    *)
(* left out: the audit trail, the header of a journal entry before its     *)
(* first line, pending and rejected approval rows.  Two requests that read *)
(* the same next number need no action either: the second fails at its     *)
(* first write and leaves the tables as it found them.                     *)
(***************************************************************************)
EXTENDS Naturals, FiniteSets, Sums

CONSTANTS
    Workers,       \* the server processes
    MaxInvoices,   \* bound: invoices are 1..MaxInvoices, by due date
    Receipts,      \* bound: the receipts that may be entered
    Totals,        \* what the lines of an invoice may add up to
    Amounts,       \* what a receipt or an allocation may amount to
    Periods,       \* the fiscal periods
    MaxCrashes,    \* bound: how many requests may die half-way
    Offered,       \* kinds of request the users make
    Careful        \* kinds of document never worked on in two places at once

Ops == {"create_invoice", "edit", "submit", "approve", "reject", "send",
        "void_invoice", "create_receipt", "complete", "void", "auto_match"}

ASSUME ReceivablesAssumption ==
    /\ MaxInvoices \in Nat \ {0}
    /\ Totals \subseteq Nat
    /\ Amounts \subseteq Nat \ {0}
    /\ MaxCrashes \in Nat
    /\ Offered \subseteq Ops
    /\ Careful \subseteq {"invoice", "receipt"}
    /\ 0 \notin Receipts \cup Periods

VARIABLES
    inv,       \* table Invoice: status, total_amount, amount_paid
    lines,     \* table InvoiceLine: what each invoice's lines add up to
    approved,  \* table InvoiceApproval: invoices for which a row of status approved
               \* was written (an overlapping reject may write over it; no property
               \* here depends on that)
    rcpt,      \* table Receipt: status, amount, fiscal_period
    alloc,     \* table ReceiptAllocation: amounts, 0 where there is no row
    gl,        \* the posted journal lines of each receipt: deposit and reversal
    closed,    \* table FiscalPeriod: the column is_closed
    req,       \* what each worker holds of the request it serves
    crashes    \* how many requests have died so far

vars == <<inv, lines, approved, rcpt, alloc, gl, closed, req, crashes>>
tables == <<inv, lines, approved, rcpt, alloc, gl, closed>>

-----------------------------------------------------------------------------
(* Rows and local instances. *)

Invoices == 1..MaxInvoices
Legs == {"bank", "ar"}
Entries == {"deposit", "reversal"}

\* "none" stands for a row that does not exist.  No approval of a write-off gets
\* past its journal entry, so no invoice is ever written off.
InvoiceStatuses == {"none", "draft", "submitted", "approved", "sent",
                    "partially_paid", "paid", "void"}
Invoice == [st : InvoiceStatuses, total : Nat, paid : Nat]
Receipt == [st : {"none", "draft", "completed", "void"}, amt : Nat, per : Periods \cup {0}]

NoInvoice == [st |-> "none", total |-> 0, paid |-> 0]
NoReceipt == [st |-> "none", amt |-> 0, per |-> 0]
NoAmounts == [i \in Invoices |-> 0]
NoLegs == [l \in Legs |-> 0]

Labels == {"idle", "header", "lines", "totals", "approval_row", "update", "allocate",
           "bank", "ar", "save_receipt", "load", "apply", "find_open"}

\* A request: its kind, the statement it executes next, and its local values.
Request ==
    [op : Ops \cup {"none"}, pc : Labels,
     i : Invoices \cup {0},         \* the invoice it works on, 0 for None
     copy : Invoice,                \* its local instance of that row
     amt : Nat,                     \* the total of the submitted line formset
     r : Receipts \cup {0},         \* the receipt it works on, 0 for None
     rec : Receipt,                 \* its local instance of that row
     due : [Invoices -> Nat],       \* the allocations it still has to deal with
     snap : [Invoices -> Invoice]]  \* the invoices as its query returned them

NoSnap == [i \in Invoices |-> NoInvoice]
Idle == [op |-> "none", pc |-> "idle", i |-> 0, copy |-> NoInvoice, amt |-> 0,
         r |-> 0, rec |-> NoReceipt, due |-> NoAmounts, snap |-> NoSnap]

TypeOK ==
    /\ inv \in [Invoices -> Invoice]
    /\ lines \in [Invoices -> Nat]
    /\ approved \subseteq Invoices
    /\ rcpt \in [Receipts -> Receipt]
    /\ alloc \in [Receipts -> [Invoices -> Nat]]
    /\ gl \in [Receipts -> [Entries -> [Legs -> Nat]]]
    /\ closed \in [Periods -> BOOLEAN]
    /\ req \in [Workers -> Request]
    /\ crashes \in 0..MaxCrashes

\* A tenant that has entered nothing yet.
Init ==
    /\ inv = NoSnap
    /\ lines = NoAmounts
    /\ approved = {}
    /\ rcpt = [r \in Receipts |-> NoReceipt]
    /\ alloc = [r \in Receipts |-> NoAmounts]
    /\ gl = [r \in Receipts |-> [e \in Entries |-> NoLegs]]
    /\ closed = [p \in Periods |-> FALSE]
    /\ req = [w \in Workers |-> Idle]
    /\ crashes = 0

-----------------------------------------------------------------------------
(* Scheduling. *)

Busy(w) == req[w].pc # "idle"
At(w, label) == req[w].pc = label
Goto(w, label) == req' = [req EXCEPT ![w].pc = label]

\* The response is sent (or a 500 is): the local values are gone.
Finish(w) == req' = [req EXCEPT ![w] = Idle]

AllocatedTo(r) == {i \in Invoices : alloc[r][i] > 0}

\* The invoices whose rows a request in progress is going to save.
Saves(v) ==
    (IF req[v].i = 0 THEN {} ELSE {req[v].i})
        \cup (IF req[v].op \in {"complete", "void"} THEN AllocatedTo(req[v].r) ELSE {})

\* The code locks nothing.  Careful is an assumption about the users, that they do
\* not work on one receipt, or on one invoice, in two places at once; the empty
\* set assumes nothing.
MayStart(w, op, r, invoices) ==
    /\ op \in Offered
    /\ ~Busy(w)
    /\ "receipt" \in Careful => \A v \in Workers : r # 0 => req[v].r # r
    /\ "invoice" \in Careful => \A v \in Workers : Saves(v) \cap invoices = {}

-----------------------------------------------------------------------------
(* invoice_create and invoice_edit *)

\* The forms offer open periods only.
SomePeriodOpen == \E p \in Periods : ~closed[p]

CreateInvoice(w) ==
    /\ MayStart(w, "create_invoice", 0, {})
    /\ SomePeriodOpen
    /\ \E i \in Invoices, a \in Totals :
          /\ \A k \in Invoices : inv[k].st = "none" <=> k >= i
          /\ inv' = [inv EXCEPT ![i] = [NoInvoice EXCEPT !.st = "draft"]]
          /\ req' = [req EXCEPT ![w] = [Idle EXCEPT !.op = "create_invoice", !.pc = "lines",
                                  !.i = i, !.copy = [NoInvoice EXCEPT !.st = "draft"],
                                  !.amt = a]]
    /\ UNCHANGED <<lines, approved, rcpt, alloc, gl, closed, crashes>>

EditInvoice(w, i) ==
    /\ MayStart(w, "edit", 0, {i})
    /\ SomePeriodOpen
    /\ inv[i].st = "draft"
    /\ \E a \in Totals :
          req' = [req EXCEPT ![w] = [Idle EXCEPT !.op = "edit", !.pc = "header", !.i = i,
                                                 !.copy = inv[i], !.amt = a]]
    /\ UNCHANGED <<tables, crashes>>

\* form.save() of the edited invoice.
SaveHeader(w) ==
    /\ At(w, "header")
    /\ inv' = [inv EXCEPT ![req[w].i] = req[w].copy]
    /\ Goto(w, "lines")
    /\ UNCHANGED <<lines, approved, rcpt, alloc, gl, closed, crashes>>

\* formset.save(): an invoice of the model has one line.
SaveLines(w) ==
    /\ At(w, "lines")
    /\ lines' = [lines EXCEPT ![req[w].i] = req[w].amt]
    /\ Goto(w, "totals")
    /\ UNCHANGED <<inv, approved, rcpt, alloc, gl, closed, crashes>>

\* update_totals: one aggregate query over the lines.
UpdateTotals(w) ==
    /\ At(w, "totals")
    /\ req' = [req EXCEPT ![w].pc = "update", ![w].copy.total = lines[req[w].i]]
    /\ UNCHANGED <<tables, crashes>>

\* invoice.save(): every column of the local instance.
UpdateInvoice(w) ==
    /\ At(w, "update")
    /\ inv' = [inv EXCEPT ![req[w].i] = req[w].copy]
    /\ Finish(w)
    /\ UNCHANGED <<lines, approved, rcpt, alloc, gl, closed, crashes>>

-----------------------------------------------------------------------------
(* The status changes of an invoice. *)

WorkflowOps == {"submit", "approve", "reject", "send", "void_invoice"}

MayChange(op, st) ==
    CASE op = "submit" -> st = "draft"
      [] op \in {"approve", "reject"} -> st = "submitted"
      [] op = "send" -> st = "approved"
      [] op = "void_invoice" -> st \notin {"paid", "void"}

\* Mutant: invoice_reject sets a status that invoices do not have.
NewStatusRejected(op) ==
    CASE op = "submit" -> "submitted"
      [] op = "approve" -> "approved"
      [] op = "reject" -> "rejected"
      [] op = "send" -> "sent"
      [] op = "void_invoice" -> "void"

NewStatus(op) ==
    CASE op = "submit" -> "submitted"
      [] op = "approve" -> "approved"
      [] op = "reject" -> "draft"
      [] op = "send" -> "sent"
      [] op = "void_invoice" -> "void"

ChangeInvoice(w, i, op) ==
    /\ MayStart(w, op, 0, {i})
    /\ inv[i].st # "none" /\ MayChange(op, inv[i].st)
    /\ req' = [req EXCEPT ![w] = [Idle EXCEPT !.op = op, !.i = i,
                            !.pc = IF op = "approve" THEN "approval_row" ELSE "update",
                            !.copy = [inv[i] EXCEPT !.st = NewStatus(op)]]]
    /\ UNCHANGED <<tables, crashes>>

\* invoice_approve decides on the pending row, or adds a row, before it saves the
\* invoice.
SaveApproval(w) ==
    /\ At(w, "approval_row")
    /\ approved' = approved \cup {req[w].i}
    /\ Goto(w, "update")
    /\ UNCHANGED <<inv, lines, rcpt, alloc, gl, closed, crashes>>

-----------------------------------------------------------------------------
(* receipt_create: the receipt, then its allocations one by one.  The form offers *)
(* every invoice, whatever its status, and does not compare the amounts.  The     *)
(* model's receipts give no discount.                                             *)

CreateReceipt(w) ==
    /\ \E r \in Receipts, a \in Amounts, p \in Periods, due \in [Invoices -> Amounts \cup {0}] :
          /\ MayStart(w, "create_receipt", r, {})
          /\ rcpt[r].st = "none"
          /\ ~closed[p]
          /\ due # NoAmounts
          /\ \A i \in Invoices : due[i] > 0 => inv[i].st # "none"
          /\ rcpt' = [rcpt EXCEPT ![r] = [st |-> "draft", amt |-> a, per |-> p]]
          /\ req' = [req EXCEPT ![w] = [Idle EXCEPT !.op = "create_receipt",
                                  !.pc = "allocate", !.r = r, !.due = due]]
    /\ UNCHANGED <<inv, lines, approved, alloc, gl, closed, crashes>>

Todo(w) == {i \in Invoices : req[w].due[i] > 0}

\* What follows the last allocation: only receipt_void still saves the receipt.
AfterAllocations(w) ==
    IF req[w].op = "void"
    THEN req' = [req EXCEPT ![w].due = NoAmounts, ![w].pc = "save_receipt"]
    ELSE Finish(w)

Dealt(w, i) ==
    IF Todo(w) = {i} THEN AfterAllocations(w) ELSE req' = [req EXCEPT ![w].due[i] = 0]

\* unique_together (receipt, invoice): a second row for the pair fails with
\* IntegrityError.  auto_match_receipt takes the invoices by due date.
SaveAllocation(w) ==
    /\ At(w, "allocate")
    /\ \E i \in Todo(w) :
          /\ req[w].op = "auto_match" => \A k \in Todo(w) : i <= k
          /\ \/ /\ alloc[req[w].r][i] = 0
                /\ alloc' = [alloc EXCEPT ![req[w].r][i] = req[w].due[i]]
                /\ Dealt(w, i)
             \/ /\ alloc[req[w].r][i] # 0
                /\ Finish(w)
                /\ UNCHANGED alloc
    /\ UNCHANGED <<inv, lines, approved, rcpt, gl, closed, crashes>>

-----------------------------------------------------------------------------
(* receipt_complete and receipt_void: the journal entry, created with status      *)
(* posted and line by line; then the invoices of the receipt's allocations, as    *)
(* one query returns them; and the receipt, first in one view, last in the other. *)

\* Mutant: receipt_complete without its status check.
MayCompleteAny(op, st) == IF op = "complete" THEN st # "none" ELSE st = "completed"

MayMove(op, st) == IF op = "complete" THEN st = "draft" ELSE st = "completed"

MoveReceipt(w, r, op) ==
    /\ MayStart(w, op, r, AllocatedTo(r))
    /\ MayMove(op, rcpt[r].st)
    /\ req' = [req EXCEPT ![w] = [Idle EXCEPT !.op = op, !.r = r, !.rec = rcpt[r],
                                    !.pc = IF op = "complete" THEN "bank" ELSE "ar"]]
    /\ UNCHANGED <<tables, crashes>>

EntryOf(op) == IF op = "complete" THEN "deposit" ELSE "reversal"

\* Mutant: the receipt is saved before its journal entry has both lines.
SaveAfterFirstLine(op, leg) ==
    CASE op = "complete" -> "save_receipt"
      [] op = "void" /\ leg = "ar" -> "bank"
      [] OTHER -> "load"

AfterLeg(op, leg) ==
    CASE op = "complete" /\ leg = "bank" -> "ar"
      [] op = "complete" /\ leg = "ar" -> "save_receipt"
      [] op = "void" /\ leg = "ar" -> "bank"
      [] op = "void" /\ leg = "bank" -> "load"

\* create_receipt_journal_entry and create_void_receipt_journal_entry: one line.
SaveLeg(w, leg) ==
    /\ At(w, leg)
    /\ gl' = [gl EXCEPT ![req[w].r][EntryOf(req[w].op)][leg] = @ + req[w].rec.amt]
    /\ Goto(w, AfterLeg(req[w].op, leg))
    /\ UNCHANGED <<inv, lines, approved, rcpt, alloc, closed, crashes>>

SaveReceipt(w) ==
    /\ At(w, "save_receipt")
    /\ rcpt' = [rcpt EXCEPT ![req[w].r] = [req[w].rec EXCEPT
                    !.st = IF req[w].op = "complete" THEN "completed" ELSE "void"]]
    /\ IF req[w].op = "complete" THEN Goto(w, "load") ELSE Finish(w)
    /\ UNCHANGED <<inv, lines, approved, alloc, gl, closed, crashes>>

\* Mutant: receipt_complete forgets its loop over the allocations.
LoadNothing(w) ==
    /\ At(w, "load")
    /\ AfterAllocations(w)
    /\ UNCHANGED <<tables, crashes>>

\* allocations.select_related('invoice')
LoadAllocations(w) ==
    /\ At(w, "load")
    /\ LET r == req[w].r IN
          IF AllocatedTo(r) = {} THEN AfterAllocations(w)
          ELSE req' = [req EXCEPT ![w].pc = "apply", ![w].due = alloc[r], ![w].snap = inv]
    /\ UNCHANGED <<tables, crashes>>

UpdatePaymentStatus(row) ==
    IF row.paid >= row.total /\ row.total > 0 THEN [row EXCEPT !.st = "paid"]
    ELSE IF row.paid > 0 THEN [row EXCEPT !.st = "partially_paid"]
    ELSE row

\* Mutant: amount_paid is set instead of increased.
PayOverwrites(row, a) == UpdatePaymentStatus([row EXCEPT !.paid = a])

Pay(row, a) == UpdatePaymentStatus([row EXCEPT !.paid = @ + a])

\* Mutant: receipt_void does not look at paid invoices again.
UnpayKeepStatus(row, a) ==
    UpdatePaymentStatus([row EXCEPT !.paid = IF @ > a THEN @ - a ELSE 0])

Unpay(row, a) ==
    LET back == UpdatePaymentStatus([row EXCEPT !.paid = IF @ > a THEN @ - a ELSE 0]) IN
    IF back.st = "paid" /\ back.paid < back.total
    THEN [back EXCEPT !.st = IF back.paid > 0 THEN "partially_paid" ELSE "sent"]
    ELSE back

\* One allocation of the loop.
ApplyAllocation(w) ==
    /\ At(w, "apply")
    /\ \E i \in Todo(w) :
          LET row == req[w].snap[i]
              a == req[w].due[i]
          IN  /\ inv' = [inv EXCEPT ![i] = IF req[w].op = "complete" THEN Pay(row, a)
                                                                     ELSE Unpay(row, a)]
              /\ Dealt(w, i)
    /\ UNCHANGED <<lines, approved, rcpt, alloc, gl, closed, crashes>>

-----------------------------------------------------------------------------
(* cash_application_auto_match *)

AutoMatch(w, r) ==
    /\ MayStart(w, "auto_match", r, {})
    /\ rcpt[r].st = "completed"
    /\ req' = [req EXCEPT ![w] = [Idle EXCEPT !.op = "auto_match", !.pc = "find_open",
                                              !.r = r, !.rec = rcpt[r]]]
    /\ UNCHANGED <<tables, crashes>>

Balance(row) ==
    IF row.st \in {"sent", "partially_paid", "approved"} /\ row.total > row.paid
    THEN row.total - row.paid ELSE 0

\* The receipt's amount goes to the open invoices, oldest due date first: one gets
\* less than its balance only if nothing is left for the later ones.
IsFifo(due, amount) ==
    LET used == SumOf(due) IN
    /\ used <= amount
    /\ \A i \in Invoices :
          /\ due[i] <= Balance(inv[i])
          /\ due[i] < Balance(inv[i]) =>
                used = amount /\ \A k \in Invoices : k > i => due[k] = 0

FindOpenInvoices(w) ==
    /\ At(w, "find_open")
    /\ \E due \in [Invoices -> 0..req[w].rec.amt] :
          /\ IsFifo(due, req[w].rec.amt)
          /\ IF due = NoAmounts THEN Finish(w)
             ELSE req' = [req EXCEPT ![w].pc = "allocate", ![w].due = due]
    /\ UNCHANGED <<tables, crashes>>

-----------------------------------------------------------------------------
(* What the rest of the system does to these tables: period_close_action and      *)
(* period_reopen_action of the general ledger, and the death of a worker.         *)

\* Entries of receipts are born posted, so none of them keeps a period open.
ClosePeriod(p) ==
    /\ ~closed[p]
    /\ closed' = [closed EXCEPT ![p] = TRUE]
    /\ UNCHANGED <<inv, lines, approved, rcpt, alloc, gl, req, crashes>>

ReopenPeriod(p) ==
    /\ closed[p]
    /\ closed' = [closed EXCEPT ![p] = FALSE]
    /\ UNCHANGED <<inv, lines, approved, rcpt, alloc, gl, req, crashes>>

Crash(w) ==
    /\ Busy(w)
    /\ crashes < MaxCrashes
    /\ crashes' = crashes + 1
    /\ Finish(w)
    /\ UNCHANGED tables

Start(w) ==
    \/ CreateInvoice(w) \/ CreateReceipt(w)
    \/ \E i \in Invoices :
          EditInvoice(w, i) \/ \E op \in WorkflowOps : ChangeInvoice(w, i, op)
    \/ \E r \in Receipts :
          MoveReceipt(w, r, "complete") \/ MoveReceipt(w, r, "void") \/ AutoMatch(w, r)

Continue(w) ==
    \/ SaveHeader(w) \/ SaveLines(w) \/ UpdateTotals(w) \/ UpdateInvoice(w)
    \/ SaveApproval(w) \/ SaveAllocation(w)
    \/ SaveLeg(w, "bank") \/ SaveLeg(w, "ar") \/ SaveReceipt(w)
    \/ LoadAllocations(w) \/ ApplyAllocation(w) \/ FindOpenInvoices(w)

Next ==
    \/ \E w \in Workers : Start(w) \/ Continue(w) \/ Crash(w)
    \/ \E p \in Periods : ClosePeriod(p) \/ ReopenPeriod(p)

Spec == Init /\ [][Next]_vars

\* A request, once taken, is executed to its end; nobody has to send one.
FairSpec == Spec /\ \A w \in Workers : WF_vars(Continue(w))

-----------------------------------------------------------------------------
(* Safety. *)

\* A completed receipt has its deposit in the ledger and a void one its reversal,
\* both lines of it, whatever overlaps and wherever a request dies: the entry is
\* written before the status.
StatusIsPosted ==
    \A r \in Receipts, l \in Legs :
        /\ rcpt[r].st = "completed" => gl[r]["deposit"][l] >= rcpt[r].amt
        /\ rcpt[r].st = "void" => gl[r]["reversal"][l] >= rcpt[r].amt

\* An invoice shown as paid is covered by what was paid, and an invoice shown as
\* partially paid is not, also when the row has been written from a stale copy.
StatusFitsAmounts ==
    \A i \in Invoices :
        /\ inv[i].st = "paid" => inv[i].total > 0 /\ inv[i].paid >= inv[i].total
        /\ inv[i].st = "partially_paid" /\ inv[i].total > 0 => inv[i].paid < inv[i].total

\* Bank and receivables move together: an entry nobody is writing has equal lines.
EntriesBalance ==
    \A r \in Receipts :
        crashes = 0 /\ (\A w \in Workers : req[w].r # r) =>
            \A e \in Entries : gl[r][e]["bank"] = gl[r][e]["ar"]

\* Each receipt is deposited once and reversed once, if its requests do not overlap
\* and none dies.
PostedOnce ==
    \A r \in Receipts, l \in Legs :
        crashes = 0 /\ (\A w \in Workers : req[w].r # r) =>
            /\ gl[r]["deposit"][l] =
                 IF rcpt[r].st \in {"completed", "void"} THEN rcpt[r].amt ELSE 0
            /\ gl[r]["reversal"][l] = IF rcpt[r].st = "void" THEN rcpt[r].amt ELSE 0

\* What receipt r contributes to invoice i: its allocation, from the moment
\* receipt_complete has dealt with it until receipt_void has.
Contribution(r, i) ==
    IF \/ rcpt[r].st # "completed"
       \/ \E w \in Workers : /\ req[w].r = r
                             /\ \/ req[w].op = "complete" /\ At(w, "load")
                                \/ req[w].op = "complete" /\ At(w, "apply") /\ i \in Todo(w)
                                \/ req[w].op = "void" /\ At(w, "apply") /\ i \notin Todo(w)
                                \/ req[w].op = "void" /\ At(w, "save_receipt")
    THEN 0 ELSE alloc[r][i]

\* amount_paid of an invoice is the sum of what its receipts contribute, at every
\* moment and not only between requests.
PaidIsReceived ==
    crashes = 0 =>
        \A i \in Invoices :
            inv[i].paid = SumOf([r \in Receipts |-> Contribution(r, i)])

\* "Cannot create journal entry in a closed period": while a period is closed,
\* nothing is posted to it.
ClosedPeriodKeepsItsEntries ==
    [][\A r \in Receipts, p \in Periods :
          closed[p] /\ rcpt[r].per = p => gl'[r] = gl[r]]_vars

(* Liveness. *)

\* A completed receipt reaches the invoices it is allocated to, unless it is voided
\* or the request died: the receipt and the invoices are saved one after the other.
CompletionPays ==
    \A r \in Receipts, i \in Invoices :
        (rcpt[r].st = "completed" /\ alloc[r][i] > 0) ~>
            (crashes > 0 \/ rcpt[r].st = "void" \/ inv[i].paid >= alloc[r][i])
=============================================================================
