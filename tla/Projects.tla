-------------------------------- MODULE Projects -------------------------------
(***************************************************************************)
(* apps/project_costing: the invoices of a project and the records by      *)
(* which its revenue is recognized.                                        *)
(*                                                                         *)
(* A record takes what the posted records of the project have recognized   *)
(* before and computes the rest, when it is created and again at a button; *)
(* posting saves what was computed last, and makes no journal entry.       *)
(* Percentages are halves, and retention is a half or nothing.             *)
(***************************************************************************)
EXTENDS Integers, Sums

CONSTANTS
    Workers,    \* the server processes
    Records,    \* bound: the records that may be created
    Invoices,   \* bound: the invoices that may be created
    Contracts,  \* bound: what the contract may amount to, even numbers
    MaxLines,   \* bound: the lines of an invoice, each of amount 2
    MaxAborts   \* bound: how many requests may die half-way

VARIABLES
    contract,   \* table Project: contract_amount
    retention,  \* table Project: whether a half is retained
    record,     \* table RevenueRecognition
    invoice,    \* table ProjectInvoice, with the number of its lines
    last,       \* history: the cumulative amount of the record that was posted last
    behind,     \* history: records with an amount from before a later posting
    hasty,      \* history: whether such a record was posted as it was
    lagging,    \* history: invoices whose totals were not saved
    req,        \* what each worker holds of the request it serves
    aborts      \* how many requests have died half-way

rows == <<contract, retention, record, invoice, last, behind, hasty, lagging>>
vars == <<rows, req, aborts>>

None == "none"
Record == [status : {None, "draft", "posted"}, by_percentage : BOOLEAN, percentage : 0..2,
           prior : Int, recognized : Int, cumulative : Int]
NoRecord == [status |-> None, by_percentage |-> FALSE, percentage |-> 0,
             prior |-> 0, recognized |-> 0, cumulative |-> 0]
Invoice == [status : {None, "draft", "approved", "void"}, lines : 0..MaxLines,
            subtotal : Nat, retained : Nat, total : Nat]
NoInvoice == [status |-> None, lines |-> 0, subtotal |-> 0, retained |-> 0, total |-> 0]

Request == [pc : {"idle", "prior", "insert_record", "calculate", "post",
                  "insert_invoice", "lines", "totals", "status"},
            d : Records \cup Invoices \cup {None},
            \* What it loaded: the record, the contract and retention of the project, the invoice.
            copy : Record, contract : Contracts, half : BOOLEAN, row : Invoice]
Idle == [pc |-> "idle", d |-> None, copy |-> NoRecord,
         contract |-> CHOOSE c \in Contracts : TRUE, half |-> FALSE, row |-> NoInvoice]

TypeOK ==
    /\ contract \in Contracts /\ retention \in BOOLEAN
    /\ record \in [Records -> Record] /\ invoice \in [Invoices -> Invoice]
    /\ last \in Int /\ behind \subseteq Records /\ hasty \in BOOLEAN
    /\ lagging \subseteq Invoices
    /\ req \in [Workers -> Request]
    /\ aborts \in Nat

Init ==
    /\ contract \in Contracts /\ retention \in BOOLEAN
    /\ record = [r \in Records |-> NoRecord]
    /\ invoice = [i \in Invoices |-> NoInvoice]
    /\ last = 0 /\ behind = {} /\ hasty = FALSE /\ lagging = {}
    /\ req = [w \in Workers |-> Idle]
    /\ aborts = 0

-----------------------------------------------------------------------------
At(w, label) == req[w].pc = label
Busy(w) == ~At(w, "idle")
Goto(w, label) == req' = [req EXCEPT ![w].pc = label]
Finish(w) == req' = [req EXCEPT ![w] = Idle]

\* Users work on a record or an invoice in one place at a time.
MayStart(w, d) == ~Busy(w) /\ \A v \in Workers : req[v].d # d

\* project_edit, which may change the contract and the retention at any time.
EditProject ==
    /\ \E c \in Contracts, half \in BOOLEAN : contract' = c /\ retention' = half
    /\ UNCHANGED <<record, invoice, last, behind, hasty, lagging, req, aborts>>

-----------------------------------------------------------------------------
(* Revenue recognition. *)

CreateRecord(w, r) ==
    /\ MayStart(w, r) /\ record[r].status = None
    /\ \E percentage \in 0..2, by \in BOOLEAN :
          req' = [req EXCEPT ![w] = [Idle EXCEPT !.pc = "prior", !.d = r, !.contract = contract,
                     !.copy = [NoRecord EXCEPT !.status = "draft", !.by_percentage = by,
                                               !.percentage = percentage]]]
    /\ UNCHANGED <<rows, aborts>>

\* rev_rec_calculate, of a record that is not posted.
CalculateRecord(w, r) ==
    /\ MayStart(w, r) /\ record[r].status = "draft"
    /\ req' = [req EXCEPT ![w] = [Idle EXCEPT !.pc = "prior", !.d = r, !.contract = contract,
                                              !.copy = record[r]]]
    /\ UNCHANGED <<rows, aborts>>

Posted == {r \in Records : record[r].status = "posted"}
Recognized(rs) == SumOf([r \in rs |-> record[r].recognized])

\* calculate(): the other methods of recognition compute nothing.
Calculated(row, prior, amount) ==
    LET cumulative == (amount * row.percentage) \div 2 IN
    IF row.by_percentage
    THEN [row EXCEPT !.prior = prior, !.cumulative = cumulative,
                     !.recognized = cumulative - prior]
    ELSE [row EXCEPT !.prior = prior]

\* Mutant: the records that are still drafts are summed as well.
SumAllPrior(w) ==
    /\ At(w, "prior")
    /\ req' = [req EXCEPT ![w].pc = "calculate",
                  ![w].copy = Calculated(@, Recognized(Records \ {req[w].d}), req[w].contract)]
    /\ behind' = behind \ {req[w].d}
    /\ UNCHANGED <<contract, retention, record, invoice, last, hasty, lagging, aborts>>

\* The sum of what the posted records have recognized.
SumPrior(w) ==
    /\ At(w, "prior")
    /\ req' = [req EXCEPT ![w].pc = "calculate",
                  ![w].copy = Calculated(@, Recognized(Posted), req[w].contract)]
    /\ behind' = behind \ {req[w].d}
    /\ UNCHANGED <<contract, retention, record, invoice, last, hasty, lagging, aborts>>

\* The row is inserted or saved.
SaveRecord(w) ==
    /\ At(w, "calculate")
    /\ record' = [record EXCEPT ![req[w].d] = req[w].copy]
    /\ Finish(w)
    /\ UNCHANGED <<contract, retention, invoice, last, behind, hasty, lagging, aborts>>

PostRecord(w, r) ==
    /\ MayStart(w, r) /\ record[r].status = "draft"
    /\ req' = [req EXCEPT ![w] = [Idle EXCEPT !.pc = "post", !.d = r, !.copy = record[r]]]
    /\ UNCHANGED <<rows, aborts>>

\* Every other record is behind from now on.
SavePosted(w) ==
    /\ At(w, "post")
    /\ record' = [record EXCEPT ![req[w].d] = [req[w].copy EXCEPT !.status = "posted"]]
    /\ IF req[w].copy.by_percentage
       THEN /\ last' = req[w].copy.cumulative
            /\ hasty' = (hasty \/ req[w].d \in behind)
            /\ behind' = Records \ (Posted \cup {req[w].d})
       ELSE UNCHANGED <<last, hasty, behind>>
    /\ Finish(w)
    /\ UNCHANGED <<contract, retention, invoice, lagging, aborts>>

-----------------------------------------------------------------------------
(* Invoices. *)

CreateInvoice(w, i) ==
    /\ MayStart(w, i) /\ invoice[i].status = None
    /\ req' = [req EXCEPT ![w] = [Idle EXCEPT !.pc = "insert_invoice", !.d = i,
                                              !.half = retention]]
    /\ UNCHANGED <<rows, aborts>>

InsertInvoice(w) ==
    /\ At(w, "insert_invoice")
    /\ invoice' = [invoice EXCEPT ![req[w].d].status = "draft"]
    /\ lagging' = lagging \cup {req[w].d}
    /\ Goto(w, "lines")
    /\ UNCHANGED <<contract, retention, record, last, behind, hasty, aborts>>

\* The form wants at least one line.
InsertLine(w) ==
    /\ At(w, "lines") /\ invoice[req[w].d].lines < MaxLines
    /\ invoice' = [invoice EXCEPT ![req[w].d].lines = @ + 1]
    /\ UNCHANGED <<contract, retention, record, last, behind, hasty, lagging, req, aborts>>

\* The lines are summed, and the project that the form loaded says what is retained.
SumInvoice(w) ==
    /\ At(w, "lines") /\ invoice[req[w].d].lines > 0
    /\ LET subtotal == 2 * invoice[req[w].d].lines
           retained == IF req[w].half THEN subtotal \div 2 ELSE 0 IN
          req' = [req EXCEPT ![w].pc = "totals",
                     ![w].row = [status |-> "draft", lines |-> invoice[req[w].d].lines,
                                 subtotal |-> subtotal, retained |-> retained,
                                 total |-> subtotal - retained]]
    /\ UNCHANGED <<rows, aborts>>

SaveTotals(w) ==
    /\ At(w, "totals")
    /\ invoice' = [invoice EXCEPT ![req[w].d] = req[w].row]
    /\ lagging' = lagging \ {req[w].d}
    /\ Finish(w)
    /\ UNCHANGED <<contract, retention, record, last, behind, hasty, aborts>>

\* invoice_approve takes drafts; no view leads to "paid", so invoice_void takes anything.
ChangeInvoice(w, i) ==
    /\ MayStart(w, i) /\ invoice[i].status # None
    /\ \E status \in {"approved", "void"} :
          /\ status = "approved" => invoice[i].status = "draft"
          /\ req' = [req EXCEPT ![w] = [Idle EXCEPT !.pc = "status", !.d = i,
                                            !.row = [invoice[i] EXCEPT !.status = status]]]
    /\ UNCHANGED <<rows, aborts>>

SaveStatus(w) ==
    /\ At(w, "status")
    /\ invoice' = [invoice EXCEPT ![req[w].d] = req[w].row]
    /\ Finish(w)
    /\ UNCHANGED <<contract, retention, record, last, behind, hasty, lagging, aborts>>

-----------------------------------------------------------------------------
\* A record whose calculation was not saved is behind.
Crash(w) ==
    /\ Busy(w) /\ aborts < MaxAborts
    /\ aborts' = aborts + 1
    /\ behind' = IF At(w, "calculate") THEN behind \cup {req[w].d} ELSE behind
    /\ Finish(w)
    /\ UNCHANGED <<contract, retention, record, invoice, last, hasty, lagging>>

Continue(w) ==
    \/ SumPrior(w) \/ SaveRecord(w) \/ SavePosted(w)
    \/ InsertInvoice(w) \/ InsertLine(w) \/ SumInvoice(w) \/ SaveTotals(w) \/ SaveStatus(w)

Next ==
    \/ EditProject
    \/ \E w \in Workers :
          \/ \E r \in Records : CreateRecord(w, r) \/ CalculateRecord(w, r) \/ PostRecord(w, r)
          \/ \E i \in Invoices : CreateInvoice(w, i) \/ ChangeInvoice(w, i)
          \/ Continue(w) \/ Crash(w)

Spec == Init /\ [][Next]_vars

-----------------------------------------------------------------------------
(* Properties. *)

\* What the posted records have recognized adds up to the cumulative amount of the last
\* one, unless a record was posted without being calculated again after another posting.
RevenueAddsUp == ~hasty => Recognized(Posted) = last

\* The totals of an invoice are those of its lines.
InvoicesAddUp ==
    \A i \in Invoices \ lagging :
        invoice[i].subtotal = 2 * invoice[i].lines
        /\ invoice[i].total = invoice[i].subtotal - invoice[i].retained

\* Revenue and invoices of a project add up while contract and retention are edited and
\* records are created, calculated and posted side by side; only a record posted without
\* a new calculation, or an invoice whose request died, breaks it.
ProjectsAddUp == RevenueAddsUp /\ InvoicesAddUp
=============================================================================
