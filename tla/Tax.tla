--------------------------------- MODULE Tax ----------------------------------
(***************************************************************************)
(* apps/tax: tax returns with their payments, and the accrual of use tax.  *)
(*                                                                         *)
(* A payment posts an entry only where the jurisdiction of the return has  *)
(* an active rate, and only into the fiscal period of the return, which    *)
(* its form leaves optional; use tax names no fiscal period at all, and an *)
(* entry without one is refused by the database.                           *)
(* The amounts calculated for a return, and the lines of entries, are left *)
(* out; every payment is of amount 1.                                      *)
(***************************************************************************)
EXTENDS Naturals, Sequences

CONSTANTS
    Workers,       \* the server processes
    Returns,       \* bound: the tax returns that may be entered
    Assessments,   \* bound: the use tax assessments that may be entered
    Accruals,      \* bound: the use tax accruals that may be entered
    MaxPayments,   \* bound: how many payments a return gets
    MaxAborts      \* bound: how many requests may die half-way, or fail on a number

VARIABLES
    return,      \* table TaxReturn
    payments,    \* table TaxReturnPayment: of each payment, whether its entry is posted
    rate,        \* whether the jurisdiction has an active rate
    assessment,  \* table UseTaxAssessment: status
    accrual,     \* table UseTaxAccrual, with the assessments it totals
    req,         \* what each worker holds of the request it serves
    aborts       \* how many requests have ended half-way

useTax == <<assessment, accrual>>
vars == <<return, payments, rate, useTax, req, aborts>>

None == "none"
Return == [status : {None, "draft", "calculated", "filed"},
           period : BOOLEAN,      \* it has a fiscal period
           paid : Nat]            \* amount_paid
NoReturn == [status |-> None, period |-> FALSE, paid |-> 0]

PaymentState == {"recorded", "posted"}

Accrual == [status : {None, "draft", "posted"}, of : SUBSET Assessments]
NoAccrual == [status |-> None, of |-> {}]

Request == [pc : {"idle", "edit", "file", "calculate", "insert", "post", "link", "sum", "save",
                  "find", "save_accrual", "accrue"},
            d : Returns \cup Assessments \cup Accruals \cup {None},
            copy : Return,        \* the return as it loaded it
            found : SUBSET Assessments]
Idle == [pc |-> "idle", d |-> None, copy |-> NoReturn, found |-> {}]

TypeOK ==
    /\ return \in [Returns -> Return]
    /\ payments \in [Returns -> Seq(PaymentState)]
    /\ rate \in BOOLEAN
    /\ assessment \in [Assessments -> {None, "pending"}]
    /\ accrual \in [Accruals -> Accrual]
    /\ req \in [Workers -> Request]
    /\ aborts \in Nat

Init ==
    /\ return = [r \in Returns |-> NoReturn] /\ payments = [r \in Returns |-> <<>>]
    /\ rate \in BOOLEAN
    /\ assessment = [a \in Assessments |-> None]
    /\ accrual = [u \in Accruals |-> NoAccrual]
    /\ req = [w \in Workers |-> Idle]
    /\ aborts = 0

-----------------------------------------------------------------------------
At(w, label) == req[w].pc = label
Busy(w) == ~At(w, "idle")
Finish(w) == req' = [req EXCEPT ![w] = Idle]

\* One request at a time for each return, assessment and accrual.
MayStart(w, d) == ~Busy(w) /\ \A v \in Workers : req[v].d # d
Begin(w, label, d) == req' = [req EXCEPT ![w] = [Idle EXCEPT !.pc = label, !.d = d]]

-----------------------------------------------------------------------------
(* Tax returns. *)

CreateReturn(r, period) ==
    /\ return[r].status = None
    /\ return' = [return EXCEPT ![r].status = "draft", ![r].period = period]
    /\ UNCHANGED <<payments, rate, useTax, req, aborts>>

\* return_edit and return_file look at the status; return_calculate does not, so that a
\* return that was filed is calculated again and may be filed again.
Load(w, label, r) ==
    /\ MayStart(w, r)
    /\ \/ label = "edit" /\ return[r].status \in {"draft", "calculated"}
       \/ label = "calculate" /\ return[r].status # None
       \/ label = "file" /\ return[r].status = "calculated"
       \/ label = "insert" /\ return[r].status # None /\ Len(payments[r]) < MaxPayments
    /\ req' = [req EXCEPT ![w] = [Idle EXCEPT !.pc = label, !.d = r, !.copy = return[r]]]
    /\ UNCHANGED <<return, payments, rate, useTax, aborts>>

\* What each writes back in place of what it loaded; the form may set or clear the period.
Written(w) ==
    LET row == req[w].copy IN
    CASE At(w, "edit") -> {[row EXCEPT !.period = period] : period \in BOOLEAN}
      [] At(w, "calculate") -> {[row EXCEPT !.status = "calculated"]}
      [] At(w, "file") -> {[row EXCEPT !.status = "filed"]}
      [] OTHER -> {}

\* return_edit, return_calculate or return_file saves the whole row it loaded.
SaveChange(w) ==
    /\ \E row \in Written(w) : return' = [return EXCEPT ![req[w].d] = row]
    /\ Finish(w)
    /\ UNCHANGED <<payments, rate, useTax, aborts>>

-----------------------------------------------------------------------------
(* return_payment. *)

InsertPayment(w) ==
    /\ At(w, "insert")
    /\ payments' = [payments EXCEPT ![req[w].d] = Append(@, "recorded")]
    /\ req' = [req EXCEPT ![w].pc = "post"]
    /\ UNCHANGED <<return, rate, useTax, aborts>>

\* post_return_payment: without a rate it returns, without a fiscal period the insert of
\* the entry raises; either way the payment stays, without an entry.
PostEntry(w) ==
    /\ At(w, "post")
    /\ req' = IF rate /\ req[w].copy.period THEN [req EXCEPT ![w].pc = "link"]
              ELSE [req EXCEPT ![w] = Idle]
    /\ UNCHANGED <<return, payments, rate, useTax, aborts>>

LinkEntry(w) ==
    /\ At(w, "link")
    /\ LET r == req[w].d IN payments' = [payments EXCEPT ![r][Len(payments[r])] = "posted"]
    /\ req' = [req EXCEPT ![w].pc = "sum"]
    /\ UNCHANGED <<return, rate, useTax, aborts>>

\* Mutant: the payment that was just made is added to what the loaded row says.
AddPayment(w) ==
    /\ At(w, "sum")
    /\ req' = [req EXCEPT ![w].pc = "save", ![w].copy.paid = @ + 1]
    /\ UNCHANGED <<return, payments, rate, useTax, aborts>>

\* All payments of the return, also those without an entry.
SumPayments(w) ==
    /\ At(w, "sum")
    /\ req' = [req EXCEPT ![w].pc = "save", ![w].copy.paid = Len(payments[req[w].d])]
    /\ UNCHANGED <<return, payments, rate, useTax, aborts>>

SavePaid(w) ==
    /\ At(w, "save")
    /\ return' = [return EXCEPT ![req[w].d] = req[w].copy]
    /\ Finish(w)
    /\ UNCHANGED <<payments, rate, useTax, aborts>>

\* A rate of the jurisdiction is entered, activated or deactivated.
ChangeRate ==
    /\ rate' = ~rate
    /\ UNCHANGED <<return, payments, useTax, req, aborts>>

-----------------------------------------------------------------------------
(* Use tax. *)

CreateAssessment(a) ==
    /\ assessment[a] = None
    /\ assessment' = [assessment EXCEPT ![a] = "pending"]
    /\ UNCHANGED <<return, payments, rate, accrual, req, aborts>>

CreateAccrual(u) ==
    /\ accrual[u].status = None
    /\ accrual' = [accrual EXCEPT ![u].status = "draft"]
    /\ UNCHANGED <<return, payments, rate, assessment, req, aborts>>

Accrue(w, a) ==
    /\ MayStart(w, a)
    /\ assessment[a] = "pending"
    /\ Begin(w, "accrue", a)
    /\ UNCHANGED <<return, payments, rate, useTax, aborts>>

PostAccrual(w, u) ==
    /\ MayStart(w, u)
    /\ accrual[u].status = "draft"
    /\ Begin(w, "find", u)
    /\ UNCHANGED <<return, payments, rate, useTax, aborts>>

\* The pending assessments of the period; without any the accrual stays a draft.
FindPending(w) ==
    /\ At(w, "find")
    /\ LET pending == {a \in Assessments : assessment[a] = "pending"} IN
          req' = IF pending = {} THEN [req EXCEPT ![w] = Idle]
                 ELSE [req EXCEPT ![w].pc = "save_accrual", ![w].found = pending]
    /\ UNCHANGED <<return, payments, rate, useTax, aborts>>

\* The accrual is posted before its assessments are accrued.
SaveAccrual(w) ==
    /\ At(w, "save_accrual")
    /\ accrual' = [accrual EXCEPT ![req[w].d] = [status |-> "posted", of |-> req[w].found]]
    /\ req' = [req EXCEPT ![w].pc = "accrue"]
    /\ UNCHANGED <<return, payments, rate, assessment, aborts>>

\* accrue_use_tax inserts an entry without a fiscal period first of all, and raises.
FailToAccrue(w) ==
    /\ At(w, "accrue")
    /\ Finish(w)
    /\ UNCHANGED <<return, payments, rate, useTax, aborts>>

-----------------------------------------------------------------------------
Crash(w) ==
    /\ Busy(w) /\ aborts < MaxAborts
    /\ aborts' = aborts + 1
    /\ Finish(w)
    /\ UNCHANGED <<return, payments, rate, useTax>>

Continue(w) ==
    \/ SaveChange(w)
    \/ InsertPayment(w) \/ PostEntry(w) \/ LinkEntry(w) \/ SumPayments(w) \/ SavePaid(w)
    \/ FindPending(w) \/ SaveAccrual(w) \/ FailToAccrue(w)

Next ==
    \/ ChangeRate
    \/ \E r \in Returns, period \in BOOLEAN : CreateReturn(r, period)
    \/ \E a \in Assessments : CreateAssessment(a)
    \/ \E u \in Accruals : CreateAccrual(u)
    \/ \E w \in Workers :
          \/ \E r \in Returns, label \in {"edit", "calculate", "file", "insert"} :
                Load(w, label, r)
          \/ \E a \in Assessments : Accrue(w, a)
          \/ \E u \in Accruals : PostAccrual(w, u)
          \/ Continue(w) \/ Crash(w)

Spec == Init /\ [][Next]_vars

-----------------------------------------------------------------------------
(* Properties. *)

\* The amount paid of r is the number of its payments up to the last one with an entry.
Counted(r) ==
    LET posted == {k \in DOMAIN payments[r] : payments[r][k] = "posted"} IN
    /\ return[r].paid \in posted \cup {0}
    /\ \A k \in posted : k <= return[r].paid

\* Unless a request died half-way, what a return is said to have been paid is all its
\* payments up to the last one that has an entry: a payment that was recorded while the
\* rate or the period was missing is counted as soon as a later one is posted, and no edit,
\* calculation or filing in between takes anything back.
PaidIsPayments ==
    aborts = 0 =>
        \A r \in Returns : (\A w \in Workers : req[w].d # r) => Counted(r)
=============================================================================
