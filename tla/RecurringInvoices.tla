-------------------------- MODULE RecurringInvoices ---------------------------
(***************************************************************************)
(* apps/accounts_receivable: the templates of recurring invoices and the   *)
(* invoices generated from them.                                           *)
(*                                                                         *)
(* Time is counted in the dates of the templates: date k is the k-th time  *)
(* an invoice falls due.  Generation is asked for on the page of one       *)
(* template and works on every active template of the tenant that is due.  *)
(* The form of a template lacks a field it requires (next_invoice_date),   *)
(* so templates are there from the start and never edited.                 *)
(***************************************************************************)
EXTENDS Naturals, Sequences, FiniteSets

CONSTANTS
    Workers,      \* the server processes
    Templates,    \* the templates
    AutoSend,     \* those whose invoices are sent when they are generated
    Limit,        \* occurrences_limit of each template, 0 for none
    EndDate,      \* end_date of each template, 0 for none
    MaxDate,      \* bound: the last date that is reached
    MaxInvoices,  \* bound: how many invoices are inserted
    MaxAborts     \* bound: how many requests may die half-way, or fail on a number

VARIABLES
    today,     \* the last date that has come
    closed,    \* the dates in a closed fiscal period
    template,  \* table RecurringInvoiceTemplate
    bills,     \* table Invoice, by number
    req,       \* what each worker holds of the request it serves
    aborts     \* how many requests have ended half-way

vars == <<today, closed, template, bills, req, aborts>>

Dates == 1..MaxDate
Template == [status : {"active", "paused", "completed", "cancelled"},
             next : 1..MaxDate + 1,     \* next_invoice_date
             made : Nat]                \* occurrences_created

\* An invoice by hand has no template.
Hand == "hand"
Invoice == [of : Templates \cup {Hand}, date : Dates \cup {0},
            status : {"draft", "approved", "sent"}, lines : Nat, total : Nat]
NewInvoice(t, date) ==
    [of |-> t, date |-> date, status |-> IF t \in AutoSend THEN "approved" ELSE "draft",
     lines |-> 0, total |-> 0]

Request ==
    [op : {"none", "hand", "change", "generate"},
     pc : {"idle", "insert_hand", "change", "find", "next", "number", "insert", "lines", "totals",
           "save_invoice", "save_template"},
     t : Templates \cup {Hand},          \* the template it works on
     copy : Template,                    \* as it loaded it
     due : [Templates -> Template],      \* the rows of its queryset
     todo : SUBSET Templates,            \* those the loop has left
     n : Nat,                            \* the number of the invoice
     total : Nat]                        \* the total of the local invoice

First == [status |-> "active", next |-> 1, made |-> 0]
Idle == [op |-> "none", pc |-> "idle", t |-> Hand, copy |-> First,
         due |-> [t \in Templates |-> First], todo |-> {}, n |-> 0, total |-> 0]

TypeOK ==
    /\ today \in Dates /\ closed \subseteq Dates
    /\ template \in [Templates -> Template]
    /\ bills \in Seq(Invoice) /\ Len(bills) <= MaxInvoices
    /\ req \in [Workers -> Request]
    /\ aborts \in Nat

Init ==
    /\ today = 1 /\ closed = {}
    /\ template = [t \in Templates |-> First]
    /\ bills = <<>>
    /\ req = [w \in Workers |-> Idle]
    /\ aborts = 0

-----------------------------------------------------------------------------
At(w, label) == req[w].pc = label
Busy(w) == ~At(w, "idle")
Goto(w, label) == req' = [req EXCEPT ![w].pc = label]
Finish(w) == req' = [req EXCEPT ![w] = Idle]
rows == <<today, closed, template, bills>>

\* Users do not generate next to another generation or to a change of a template, of
\* whichever templates, for a generation takes all of them; invoices are entered by hand
\* at any time.
MayStart(w, op) ==
    /\ ~Busy(w)
    /\ op # "hand" => \A v \in Workers : req[v].op \in {"none", "hand"}

NextDay == today < MaxDate /\ today' = today + 1 /\ UNCHANGED <<closed, template, bills, req, aborts>>

\* The fiscal period of a date is closed or reopened.
ClosePeriod(date) ==
    /\ closed' = IF date \in closed THEN closed \ {date} ELSE closed \cup {date}
    /\ UNCHANGED <<today, template, bills, req, aborts>>

\* recurring_pause toggles, recurring_cancel ends; each saves the row it loaded.
NewStatuses(status) ==
    CASE status = "active" -> {"paused", "cancelled"}
      [] status = "paused" -> {"active", "cancelled"}
      [] OTHER -> {}

ChangeTemplate(w, t) ==
    /\ MayStart(w, "change")
    /\ \E status \in NewStatuses(template[t].status) :
          req' = [req EXCEPT ![w] = [Idle EXCEPT !.op = "change", !.pc = "change", !.t = t,
                                        !.copy = [template[t] EXCEPT !.status = status]]]
    /\ UNCHANGED <<rows, aborts>>

SaveChange(w) ==
    /\ At(w, "change")
    /\ template' = [template EXCEPT ![req[w].t] = req[w].copy]
    /\ Finish(w)
    /\ UNCHANGED <<today, closed, bills, aborts>>

\* invoice_create, which takes a number as the generation does.
EnterInvoice(w) ==
    /\ MayStart(w, "hand") /\ Len(bills) < MaxInvoices
    /\ req' = [req EXCEPT ![w] = [Idle EXCEPT !.op = "hand", !.pc = "insert_hand",
                                              !.n = Len(bills) + 1]]
    /\ UNCHANGED <<rows, aborts>>

-----------------------------------------------------------------------------
(* recurring_generate and generate_recurring_invoices. *)

Generate(w, t) ==
    /\ MayStart(w, "generate")
    /\ template[t].status = "active"
    /\ req' = [req EXCEPT ![w] = [Idle EXCEPT !.op = "generate", !.pc = "find"]]
    /\ UNCHANGED <<rows, aborts>>

FindDue(w) ==
    /\ At(w, "find")
    /\ req' = [req EXCEPT ![w].pc = "next", ![w].due = template,
          ![w].todo = {t \in Templates : template[t].status = "active" /\ template[t].next <= today}]
    /\ UNCHANGED <<rows, aborts>>

\* Mutant: a template that has reached its limit gets one more.
LimitPassed(t, row) ==
    \/ Limit[t] > 0 /\ row.made > Limit[t]
    \/ EndDate[t] > 0 /\ row.next > EndDate[t]

\* The occurrences or the end date of the template are exceeded.
Exhausted(t, row) ==
    \/ Limit[t] > 0 /\ row.made >= Limit[t]
    \/ EndDate[t] > 0 /\ row.next > EndDate[t]

\* The next row of the loop, in the order of the queryset, which is left open: it is
\* completed, passed over because its date is in a closed period, or invoiced.
NextTemplate(w) ==
    /\ At(w, "next")
    /\ \E t \in req[w].todo :
          LET row == req[w].due[t] IN
          req' = [req EXCEPT ![w].todo = @ \ {t}, ![w].t = t,
                    ![w].copy = IF Exhausted(t, row) THEN [row EXCEPT !.status = "completed"]
                                ELSE row,
                    ![w].pc = IF Exhausted(t, row) THEN "save_template"
                              ELSE IF row.next \in closed THEN "next" ELSE "number"]
    /\ UNCHANGED <<rows, aborts>>

EndLoop(w) ==
    /\ At(w, "next") /\ req[w].todo = {}
    /\ Finish(w)
    /\ UNCHANGED <<rows, aborts>>

GenerateNumber(w) ==
    /\ At(w, "number") /\ Len(bills) < MaxInvoices
    /\ req' = [req EXCEPT ![w].pc = "insert", ![w].n = Len(bills) + 1]
    /\ UNCHANGED <<rows, aborts>>

InsertInvoice(w) ==
    /\ req[w].n = Len(bills) + 1
    /\ \/ /\ At(w, "insert_hand")
          /\ bills' = Append(bills, [NewInvoice(Hand, 0) EXCEPT !.lines = 1, !.total = 1])
          /\ Finish(w)
       \/ /\ At(w, "insert")
          /\ bills' = Append(bills, NewInvoice(req[w].t, req[w].copy.next))
          /\ Goto(w, "lines")
    /\ UNCHANGED <<today, closed, template, aborts>>

\* The number was taken meanwhile: the request ends, also the loop.
InsertFails(w) ==
    /\ At(w, "insert") \/ At(w, "insert_hand")
    /\ req[w].n <= Len(bills) /\ aborts < MaxAborts
    /\ aborts' = aborts + 1
    /\ Finish(w)
    /\ UNCHANGED rows

\* The template has one line, which is copied.
CopyLines(w) ==
    /\ At(w, "lines")
    /\ bills' = [bills EXCEPT ![req[w].n].lines = 1]
    /\ Goto(w, "totals")
    /\ UNCHANGED <<today, closed, template, aborts>>

UpdateTotals(w) ==
    /\ At(w, "totals")
    /\ req' = [req EXCEPT ![w].pc = "save_invoice", ![w].total = bills[req[w].n].lines]
    /\ UNCHANGED <<rows, aborts>>

SaveInvoice(w) ==
    /\ At(w, "save_invoice")
    /\ bills' = [bills EXCEPT ![req[w].n].total = req[w].total,
                              ![req[w].n].status = IF req[w].t \in AutoSend THEN "sent" ELSE @]
    /\ req' = [req EXCEPT ![w].pc = "save_template", ![w].copy.next = @ + 1, ![w].copy.made = @ + 1]
    /\ UNCHANGED <<today, closed, template, aborts>>

\* The row of the queryset, changed by the invoice or completed.
SaveTemplate(w) ==
    /\ At(w, "save_template")
    /\ template' = [template EXCEPT ![req[w].t] = req[w].copy]
    /\ Goto(w, "next")
    /\ UNCHANGED <<today, closed, bills, aborts>>

-----------------------------------------------------------------------------
Crash(w) ==
    /\ Busy(w) /\ aborts < MaxAborts
    /\ aborts' = aborts + 1
    /\ Finish(w)
    /\ UNCHANGED rows

Continue(w) ==
    \/ SaveChange(w)
    \/ FindDue(w) \/ NextTemplate(w) \/ EndLoop(w) \/ GenerateNumber(w) \/ InsertInvoice(w)
    \/ InsertFails(w) \/ CopyLines(w) \/ UpdateTotals(w) \/ SaveInvoice(w) \/ SaveTemplate(w)

Next ==
    \/ NextDay
    \/ \E date \in Dates : ClosePeriod(date)
    \/ \E w \in Workers :
          \/ EnterInvoice(w)
          \/ \E t \in Templates : ChangeTemplate(w, t) \/ Generate(w, t)
          \/ Continue(w) \/ Crash(w)

Spec == Init /\ [][Next]_vars

-----------------------------------------------------------------------------
(* Properties. *)

Billed(t, date) == Cardinality({n \in DOMAIN bills : bills[n].of = t /\ bills[n].date = date})

\* Every date of a template that has passed is billed, more than once only after a request
\* that ended half-way, and no date is billed before the ones it follows; the limit and
\* the end date of the template hold; and what was sent by itself has its lines and its total.
BilledOnce ==
    /\ \A t \in Templates :
          /\ \A date \in Dates :
                /\ Billed(t, date) <= 1 + aborts
                /\ date < template[t].next => Billed(t, date) >= 1
                /\ date > template[t].next => Billed(t, date) = 0
          /\ \A last \in {Limit[t], EndDate[t]} \ {0}, date \in Dates :
                date > last => Billed(t, date) = 0
    /\ \A n \in DOMAIN bills : bills[n].status = "sent" => bills[n].lines = 1 /\ bills[n].total = 1
=============================================================================
