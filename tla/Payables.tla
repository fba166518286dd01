------------------------------- MODULE Payables -------------------------------
(***************************************************************************)
(* apps/accounts_payable: bills and their approval, payments entered by    *)
(* hand, the batch that pays selected bills, scheduled payments, and bills *)
(* made from uploaded documents.                                           *)
(*                                                                         *)
(* A request is a sequence of autocommitted statements, as in Receivables. *)
(* The bills of a batch live in the session of the clerk who made it, in   *)
(* as many browser tabs as there are Clerks: the session is read when a    *)
(* request arrives and written back whole with the response of every       *)
(* request (SESSION_SAVE_EVERY_REQUEST), not with a 500.                   *)
(*                                                                         *)
(* payment_complete and payment_void call their journal entry functions    *)
(* with an argument missing and raise before they write anything: every    *)
(* payment stays a draft and every amount_paid stays 0, so the model has   *)
(* neither column.                                                         *)
(***************************************************************************)
EXTENDS Naturals, FiniteSets

CONSTANTS
    Workers,       \* the server processes
    Clerks,        \* the workers whose requests come from the one shared session
    MaxBills,      \* bound: bills are 1..MaxBills, in the order of their numbers
    MaxApprovals,  \* bound: approval rows per bill, 1..MaxApprovals by created_at
    MaxPayments,   \* bound: payments are 1..MaxPayments, by payment_number
    Batches,       \* bound: the batches that may be made
    Schedules,     \* bound: the scheduled payments that may be entered
    Uploads,       \* the uploaded documents, read by OCR elsewhere
    Totals,        \* what the lines of a bill, or a document, may add up to
    Offerings      \* what may happen: in a behaviour, users make the requests of one
                   \* of these, take its care, and so many workers die half-way

Ops == {"create_bill", "edit_bill", "submit", "approve", "reject", "void_bill",
        "create_payment", "create_batch", "process", "schedule", "execute", "cancel",
        "create_from_upload"}

\* Kinds of document that careful users never work on in two places at once.
Kinds == {"bill", "batch", "schedule", "upload"}

ASSUME PayablesAssumption ==
    /\ Clerks \subseteq Workers
    /\ MaxBills \in Nat \ {0}
    /\ MaxApprovals \in Nat
    /\ MaxPayments \in Nat
    /\ Totals \subseteq Nat \ {0}
    /\ Offerings \subseteq [ops : SUBSET Ops, careful : SUBSET Kinds, crashes : Nat]
    /\ 0 \notin Batches \cup Schedules \cup Uploads
    /\ Batches \cap Schedules = {} /\ Batches \cap Uploads = {} /\ Schedules \cap Uploads = {}
    /\ "form" \notin Batches \cup Schedules \cup Uploads
    /\ "none" \notin Batches \cup Schedules

VARIABLES
    bill,      \* table Bill: status, total_amount and where the bill came from
    lines,     \* table BillLine: what each bill's lines add up to, 0 for none
    approval,  \* table BillApproval: the status of each row of each bill
    pay,       \* table Payment, all drafts: where each came from, "none" for no row
    alloc,     \* table PaymentAllocation: amounts, 0 where there is no row
    batch,     \* table PaymentBatch: status, payment_count
    sched,     \* table ScheduledPayment: status, bill, amount, payment
    upload,    \* table BillUpload: bill, 0 for NULL
    session,   \* the clerk's session: the bills selected for each batch
    req,       \* what each worker holds of the request it serves
    offered,   \* what may happen in this behaviour
    aborts     \* how many requests have ended half-way: died, or failed an INSERT

vars == <<bill, lines, approval, pay, alloc, batch, sched, upload, session, req, offered,
          aborts>>
bills == <<bill, lines, approval>>
payments == <<pay, alloc>>
documents == <<batch, sched, upload>>

-----------------------------------------------------------------------------
(* Rows and local instances. *)

Bills == 1..MaxBills
Payments == 1..MaxPayments
Rows == 1..MaxApprovals
Docs == Batches \cup Schedules \cup Uploads

\* A row that does not exist has status "none".
Bill == [st : {"none", "draft", "pending_approval", "approved", "void"},
         total : Nat, from : Uploads \cup {"form"}]
Batch == [st : {"none", "draft", "completed"}, count : Nat]
RowStatus == {"none", "pending", "approved", "rejected"}
Schedule == [st : {"none", "scheduled", "executed", "cancelled"},
             b : Bills \cup {0}, amt : Nat, p : Payments \cup {0}]

NoBill == [st |-> "none", total |-> 0, from |-> "form"]
NoSchedule == [st |-> "none", b |-> 0, amt |-> 0, p |-> 0]
NoBills == [b \in Bills |-> 0]
NoRows == [r \in Rows |-> "none"]
NoSelection == [x \in Batches |-> {}]

Labels == {"idle", "header", "lines", "totals", "find_row", "approval_row", "update",
           "count", "eligible", "select", "number", "insert", "allocate", "save_batch",
           "save_schedule", "insert_bill", "link", "respond"}

\* A request: its kind, the statement it executes next, and its local values.
Request ==
    [op : Ops \cup {"none"}, pc : Labels,
     b : Bills \cup {0},            \* the bill it works on, 0 for none
     copy : Bill,                   \* its local instance of that row
     rec : Rows \cup {0},           \* the pending approval row it found, 0 for none
     amt : Nat,                     \* the total of the submitted line formset
     d : Docs \cup {0},             \* the batch, schedule or upload it works on
     row : Schedule,                \* its local instance, if that is a schedule
     p : Payments \cup {0},         \* the payment it creates, by its number
     due : [Bills -> Nat],          \* the allocations it still has to write
     made : Nat,                    \* created_count of batch_process
     sess : [Batches -> SUBSET Bills]]   \* the session as the request has it

Idle == [op |-> "none", pc |-> "idle", b |-> 0, copy |-> NoBill, rec |-> 0, amt |-> 0,
         d |-> 0, row |-> NoSchedule, p |-> 0, due |-> NoBills, made |-> 0,
         sess |-> NoSelection]

TypeOK ==
    /\ bill \in [Bills -> Bill]
    /\ lines \in [Bills -> Nat]
    /\ approval \in [Bills -> [Rows -> RowStatus]]
    /\ pay \in [Payments -> {"none", "form"} \cup Batches \cup Schedules]
    /\ alloc \in [Payments -> [Bills -> Nat]]
    /\ batch \in [Batches -> Batch]
    /\ sched \in [Schedules -> Schedule]
    /\ upload \in [Uploads -> Bills \cup {0}]
    /\ session \in [Batches -> SUBSET Bills]
    /\ req \in [Workers -> Request]
    /\ offered \in Offerings
    /\ aborts \in Nat

\* A tenant that has only uploaded its documents.
Init ==
    /\ bill = [b \in Bills |-> NoBill]
    /\ lines = NoBills
    /\ approval = [b \in Bills |-> NoRows]
    /\ pay = [p \in Payments |-> "none"]
    /\ alloc = [p \in Payments |-> NoBills]
    /\ batch = [x \in Batches |-> [st |-> "none", count |-> 0]]
    /\ sched = [s \in Schedules |-> NoSchedule]
    /\ upload = [u \in Uploads |-> 0]
    /\ session = NoSelection
    /\ req = [w \in Workers |-> Idle]
    /\ offered \in Offerings
    /\ aborts = 0

-----------------------------------------------------------------------------
(* Scheduling. *)

Busy(w) == req[w].pc # "idle"
At(w, label) == req[w].pc = label
Goto(w, label) == req' = [req EXCEPT ![w].pc = label]

\* A request that arrives: SessionMiddleware gives it the session as it is now.
Arrive(w, r) ==
    req' = [req EXCEPT ![w] = [r EXCEPT !.sess = IF w \in Clerks THEN session ELSE @]]

\* The response is sent: SessionMiddleware saves the whole session.
Respond(w) ==
    /\ req' = [req EXCEPT ![w] = Idle]
    /\ session' = IF w \in Clerks THEN req[w].sess ELSE session
    /\ UNCHANGED aborts

\* The worker dies, or answers 500 after an IntegrityError.
Abort(w) ==
    /\ req' = [req EXCEPT ![w] = Idle]
    /\ aborts' = aborts + 1
    /\ UNCHANGED session

\* The code locks nothing.  Care is an assumption about the users of a behaviour.
Apart(kind) == kind \in offered.careful

MayStart(w, op, b, d) ==
    /\ op \in offered.ops
    /\ ~Busy(w)
    /\ Apart("bill") /\ b # 0 => \A v \in Workers : req[v].b # b
    /\ \/ d \in Batches /\ Apart("batch")
       \/ d \in Schedules /\ Apart("schedule")
       \/ d \in Uploads /\ Apart("upload")
       => \A v \in Workers : req[v].d # d

-----------------------------------------------------------------------------
(* Bills: bill_create, bill_edit and the changes of their status. *)

IsNext(b) == \A k \in Bills : bill[k].st = "none" <=> k >= b

CreateBill(w) ==
    /\ MayStart(w, "create_bill", 0, 0)
    /\ \E b \in Bills, a \in Totals :
          /\ IsNext(b)
          /\ bill' = [bill EXCEPT ![b] = [NoBill EXCEPT !.st = "draft"]]
          /\ Arrive(w, [Idle EXCEPT !.op = "create_bill", !.pc = "lines", !.b = b,
                                    !.copy = [NoBill EXCEPT !.st = "draft"], !.amt = a])
    /\ UNCHANGED <<lines, approval, payments, documents, session, aborts>>

EditBill(w, b) ==
    /\ MayStart(w, "edit_bill", b, 0)
    /\ bill[b].st = "draft"
    /\ \E a \in Totals :
          Arrive(w, [Idle EXCEPT !.op = "edit_bill", !.pc = "header", !.b = b,
                                 !.copy = bill[b], !.amt = a])
    /\ UNCHANGED <<bills, payments, documents, session, aborts>>

SaveHeader(w) ==
    /\ At(w, "header")
    /\ bill' = [bill EXCEPT ![req[w].b] = req[w].copy]
    /\ Goto(w, "lines")
    /\ UNCHANGED <<lines, approval, payments, documents, session, aborts>>

\* formset.save(): a bill of the model has at most one line.
SaveLines(w) ==
    /\ At(w, "lines")
    /\ lines' = [lines EXCEPT ![req[w].b] = req[w].amt]
    /\ Goto(w, "totals")
    /\ UNCHANGED <<bill, approval, payments, documents, session, aborts>>

\* Mutant: the views do not call update_totals.
KeepTotals(w) ==
    /\ At(w, "totals")
    /\ Goto(w, "update")
    /\ UNCHANGED <<bills, payments, documents, session, aborts>>

UpdateTotals(w) ==
    /\ At(w, "totals")
    /\ req' = [req EXCEPT ![w].pc = "update", ![w].copy.total = lines[req[w].b]]
    /\ UNCHANGED <<bills, payments, documents, session, aborts>>

\* bill.save(): every column of the local instance.  bill_submit inserts the pending
\* approval row after it.
UpdateBill(w) ==
    /\ At(w, "update")
    /\ bill' = [bill EXCEPT ![req[w].b] = req[w].copy]
    /\ IF req[w].op = "submit"
       THEN Goto(w, "approval_row") /\ UNCHANGED <<session, aborts>>
       ELSE Respond(w)
    /\ UNCHANGED <<lines, approval, payments, documents>>

WorkflowOps == {"submit", "approve", "reject", "void_bill"}

MayChange(op, st) ==
    CASE op = "submit" -> st = "draft"
      [] op \in {"approve", "reject"} -> st = "pending_approval"
      [] op = "void_bill" -> st # "void"

\* Mutant: bill_reject sets a status that bills do not have.
NewStatusRejected(op) ==
    CASE op = "submit" -> "pending_approval"
      [] op = "approve" -> "approved"
      [] op = "reject" -> "rejected"
      [] op = "void_bill" -> "void"

NewStatus(op) ==
    CASE op = "submit" -> "pending_approval"
      [] op = "approve" -> "approved"
      [] op = "reject" -> "draft"
      [] op = "void_bill" -> "void"

Decisions == {"approve", "reject"}

\* Mutant: bill_approve records nothing.
ChangeBillNoRow(w, b, op) ==
    /\ MayStart(w, op, b, 0)
    /\ bill[b].st # "none" /\ MayChange(op, bill[b].st)
    /\ Arrive(w, [Idle EXCEPT !.op = op, !.b = b,
                              !.pc = IF op = "reject" THEN "find_row" ELSE "update",
                              !.copy = [bill[b] EXCEPT !.st = NewStatus(op)]])
    /\ UNCHANGED <<bills, payments, documents, session, aborts>>

ChangeBill(w, b, op) ==
    /\ MayStart(w, op, b, 0)
    /\ bill[b].st # "none" /\ MayChange(op, bill[b].st)
    /\ Arrive(w, [Idle EXCEPT !.op = op, !.b = b,
                              !.pc = IF op \in Decisions THEN "find_row" ELSE "update",
                              !.copy = [bill[b] EXCEPT !.st = NewStatus(op)]])
    /\ UNCHANGED <<bills, payments, documents, session, aborts>>

\* approvals.filter(status='pending').first(), the newest first: the row that
\* submission inserted, or None.
FindRow(w) ==
    /\ At(w, "find_row")
    /\ LET open == {r \in Rows : approval[req[w].b][r] = "pending"} IN
       \E r \in Rows \cup {0} :
          /\ IF open = {} THEN r = 0 ELSE r \in open /\ \A o \in open : o <= r
          /\ req' = [req EXCEPT ![w].rec = r, ![w].pc = "approval_row"]
    /\ UNCHANGED <<bills, payments, documents, session, aborts>>

\* Mutant: bill_reject finds the row and saves it as it was.
RecordedPending(op) == CASE op \in {"submit", "reject"} -> "pending"
                         [] op = "approve" -> "approved"

Recorded(op) == CASE op = "submit" -> "pending"
                  [] op = "approve" -> "approved"
                  [] op = "reject" -> "rejected"

IsNextRow(b, r) == \A k \in Rows : approval[b][k] = "none" <=> k >= r

\* A decision is saved over the row it found, whatever that row says by now, or
\* inserted when it found none.
SaveApproval(w) ==
    /\ At(w, "approval_row")
    /\ \E r \in Rows :
          /\ IF req[w].rec = 0 THEN IsNextRow(req[w].b, r) ELSE r = req[w].rec
          /\ approval' = [approval EXCEPT ![req[w].b][r] = Recorded(req[w].op)]
    /\ IF req[w].op = "submit"
       THEN Respond(w)
       ELSE Goto(w, "update") /\ UNCHANGED <<session, aborts>>
    /\ UNCHANGED <<bill, lines, payments, documents>>

-----------------------------------------------------------------------------
(* Creating payments.  payment_create, batch_process and schedule_execute all     *)
(* read the highest number, insert the payment with the next one, and then its    *)
(* allocations; a number taken in between fails on unique_together.               *)

Todo(w) == {b \in Bills : req[w].due[b] > 0}

\* The payment form offers every bill.
CreatePayment(w) ==
    /\ MayStart(w, "create_payment", 0, 0)
    /\ \E due \in [Bills -> Totals \cup {0}] :
          /\ due # NoBills
          /\ \A b \in Bills : due[b] > 0 => bill[b].st # "none"
          /\ Arrive(w, [Idle EXCEPT !.op = "create_payment", !.pc = "number", !.due = due])
    /\ UNCHANGED <<bills, payments, documents, session, aborts>>

GenerateNumber(w) ==
    /\ At(w, "number")
    /\ \E p \in Payments :
          /\ \A q \in Payments : pay[q] = "none" <=> q >= p
          /\ req' = [req EXCEPT ![w].p = p, ![w].pc = "insert"]
    /\ UNCHANGED <<bills, payments, documents, session, aborts>>

Source(w) == IF req[w].op = "create_payment" THEN "form" ELSE req[w].d

InsertPayment(w) ==
    /\ At(w, "insert")
    /\ \/ /\ pay[req[w].p] = "none"
          /\ pay' = [pay EXCEPT ![req[w].p] = Source(w)]
          /\ Goto(w, "allocate")
          /\ UNCHANGED <<session, aborts>>
       \/ /\ pay[req[w].p] # "none"
          /\ Abort(w)
          /\ UNCHANGED pay
    /\ UNCHANGED <<bills, alloc, documents>>

\* What follows an allocation: the next bill of a batch is paid by a payment of its
\* own, the next allocation of a form belongs to the same payment.
AfterAllocation(w, rest) ==
    IF req[w].op = "process" THEN (IF rest = NoBills THEN "save_batch" ELSE "number")
    ELSE IF req[w].op = "execute" THEN "save_schedule"
    ELSE "allocate"

SaveAllocation(w) ==
    /\ At(w, "allocate")
    /\ \E b \in Todo(w) :
          LET rest == [req[w].due EXCEPT ![b] = 0] IN
          /\ alloc' = [alloc EXCEPT ![req[w].p][b] = req[w].due[b]]
          /\ IF req[w].op = "create_payment" /\ rest = NoBills
             THEN Respond(w)
             ELSE /\ req' = [req EXCEPT ![w].due = rest, ![w].made = @ + 1,
                                        ![w].pc = AfterAllocation(w, rest)]
                  /\ UNCHANGED <<session, aborts>>
    /\ UNCHANGED <<bills, pay, documents>>

-----------------------------------------------------------------------------
(* Batches.  Only requests in the clerk's session find the selection; for anybody  *)
(* else batch_process finds no eligible bill and changes nothing.                 *)

\* The page lists the approved bills.
CreateBatch(w, x) ==
    /\ w \in Clerks /\ MayStart(w, "create_batch", 0, 0)
    /\ batch[x].st = "none"
    /\ batch' = [batch EXCEPT ![x].st = "draft"]
    /\ \E due \in [Bills -> 0..1] :
          /\ \A b \in Bills : due[b] = 1 => bill[b].st = "approved"
          /\ Arrive(w, [Idle EXCEPT !.op = "create_batch", !.pc = "count", !.d = x, !.due = due])
    /\ UNCHANGED <<bills, payments, sched, upload, session, aborts>>

\* batch.save() with the totals of the selection, which then goes to the session.
CountBatch(w) ==
    /\ At(w, "count")
    /\ batch' = [batch EXCEPT ![req[w].d] = [st |-> "draft", count |-> Cardinality(Todo(w))]]
    /\ req' = [req EXCEPT ![w].sess[req[w].d] = Todo(w), ![w].pc = "respond"]
    /\ UNCHANGED <<bills, payments, sched, upload, session, aborts>>

SendResponse(w) ==
    /\ At(w, "respond")
    /\ Respond(w)
    /\ UNCHANGED <<bills, payments, documents>>

ProcessBatch(w, x) ==
    /\ w \in Clerks /\ MayStart(w, "process", 0, x)
    /\ batch[x].st = "draft"
    /\ Arrive(w, [Idle EXCEPT !.op = "process", !.pc = "eligible", !.d = x])
    /\ UNCHANGED <<bills, payments, documents, session, aborts>>

Eligible(w) == {b \in req[w].sess[req[w].d] : bill[b].st = "approved"}

\* selected_bills.exists()
FindEligible(w) ==
    /\ At(w, "eligible")
    /\ IF Eligible(w) = {} THEN Respond(w)
                           ELSE Goto(w, "select") /\ UNCHANGED <<session, aborts>>
    /\ UNCHANGED <<bills, payments, documents>>

\* The second query, which the loop iterates over.  A bill is paid in full.
SelectBills(w) ==
    /\ At(w, "select")
    /\ LET due == [b \in Bills |-> IF b \in Eligible(w) THEN bill[b].total ELSE 0] IN
          req' = [req EXCEPT ![w].due = due,
                             ![w].pc = IF due = NoBills THEN "save_batch" ELSE "number"]
    /\ UNCHANGED <<bills, payments, documents, session, aborts>>

\* Mutant: batch_process neither completes the batch nor drops its selection.
SaveBatchForgotten(w) ==
    /\ At(w, "save_batch")
    /\ Goto(w, "respond")
    /\ UNCHANGED <<bills, payments, documents, session, aborts>>

\* Mutant: batch_process does not correct payment_count.
SaveBatchOldCount(w) ==
    /\ At(w, "save_batch")
    /\ batch' = [batch EXCEPT ![req[w].d].st = "completed"]
    /\ req' = [req EXCEPT ![w].sess[req[w].d] = {}, ![w].pc = "respond"]
    /\ UNCHANGED <<bills, payments, sched, upload, session, aborts>>

\* Mutant: the batch stays a draft and keeps its selection, but counts what it has paid.
SaveBatchDraft(w) ==
    /\ At(w, "save_batch")
    /\ batch' = [batch EXCEPT ![req[w].d] = [st |-> "draft", count |-> req[w].made]]
    /\ Goto(w, "respond")
    /\ UNCHANGED <<bills, payments, sched, upload, session, aborts>>

SaveBatch(w) ==
    /\ At(w, "save_batch")
    /\ batch' = [batch EXCEPT ![req[w].d] = [st |-> "completed", count |-> req[w].made]]
    /\ req' = [req EXCEPT ![w].sess[req[w].d] = {}, ![w].pc = "respond"]
    /\ UNCHANGED <<bills, payments, sched, upload, session, aborts>>

-----------------------------------------------------------------------------
(* Scheduled payments. *)

SchedulePayment(w, s) ==
    /\ MayStart(w, "schedule", 0, 0)
    /\ sched[s].st = "none"
    /\ \E b \in Bills, a \in Totals :
          /\ bill[b].st # "none"
          /\ sched' = [sched EXCEPT ![s] = [st |-> "scheduled", b |-> b, amt |-> a, p |-> 0]]
    /\ UNCHANGED <<bills, payments, batch, upload, session, req, aborts>>

\* Mutant: schedule_execute does not look at the status.
ExecuteAnySchedule(w, s) ==
    /\ MayStart(w, "execute", 0, s)
    /\ sched[s].st # "none"
    /\ Arrive(w, [Idle EXCEPT !.op = "execute", !.pc = "number", !.d = s, !.row = sched[s],
                              !.due = [NoBills EXCEPT ![sched[s].b] = sched[s].amt]])
    /\ UNCHANGED <<bills, payments, documents, session, aborts>>

\* An open fiscal period and a bank account are taken to exist: without them the
\* views return before they write.
ExecuteSchedule(w, s) ==
    /\ MayStart(w, "execute", 0, s)
    /\ sched[s].st = "scheduled"
    /\ Arrive(w, [Idle EXCEPT !.op = "execute", !.pc = "number", !.d = s, !.row = sched[s],
                              !.due = [NoBills EXCEPT ![sched[s].b] = sched[s].amt]])
    /\ UNCHANGED <<bills, payments, documents, session, aborts>>

CancelSchedule(w, s) ==
    /\ MayStart(w, "cancel", 0, s)
    /\ sched[s].st = "scheduled"
    /\ Arrive(w, [Idle EXCEPT !.op = "cancel", !.pc = "save_schedule", !.d = s,
                              !.row = sched[s]])
    /\ UNCHANGED <<bills, payments, documents, session, aborts>>

\* Mutant: schedule_execute saves the schedule without its payment.
SaveScheduleBare(w) ==
    /\ At(w, "save_schedule")
    /\ sched' = [sched EXCEPT ![req[w].d] = [req[w].row EXCEPT
                    !.st = IF req[w].op = "execute" THEN "executed" ELSE "cancelled"]]
    /\ Respond(w)
    /\ UNCHANGED <<bills, payments, batch, upload>>

SaveSchedule(w) ==
    /\ At(w, "save_schedule")
    /\ sched' = [sched EXCEPT ![req[w].d] =
                    IF req[w].op = "execute"
                    THEN [req[w].row EXCEPT !.st = "executed", !.p = req[w].p]
                    ELSE [req[w].row EXCEPT !.st = "cancelled"]]
    /\ Respond(w)
    /\ UNCHANGED <<bills, payments, batch, upload>>

-----------------------------------------------------------------------------
(* bill_upload_create_bill: a bill with a total and no lines, then the link. *)

CreateFromUpload(w, u) ==
    /\ MayStart(w, "create_from_upload", 0, u)
    /\ upload[u] = 0
    /\ \E a \in Totals :
          Arrive(w, [Idle EXCEPT !.op = "create_from_upload", !.pc = "insert_bill",
                                 !.d = u, !.amt = a])
    /\ UNCHANGED <<bills, payments, documents, session, aborts>>

InsertBill(w) ==
    /\ At(w, "insert_bill")
    /\ \E b \in Bills :
          /\ IsNext(b)
          /\ bill' = [bill EXCEPT ![b] = [st |-> "draft", total |-> req[w].amt,
                                          from |-> req[w].d]]
          /\ req' = [req EXCEPT ![w].b = b, ![w].pc = "link"]
    /\ UNCHANGED <<lines, approval, payments, documents, session, aborts>>

LinkUpload(w) ==
    /\ At(w, "link")
    /\ upload' = [upload EXCEPT ![req[w].d] = req[w].b]
    /\ Respond(w)
    /\ UNCHANGED <<bills, payments, batch, sched>>

-----------------------------------------------------------------------------
Crash(w) ==
    /\ Busy(w)
    /\ aborts < offered.crashes
    /\ Abort(w)
    /\ UNCHANGED <<bills, payments, documents>>

Start(w) ==
    \/ CreateBill(w) \/ CreatePayment(w)
    \/ \E b \in Bills : EditBill(w, b) \/ \E op \in WorkflowOps : ChangeBill(w, b, op)
    \/ \E x \in Batches : CreateBatch(w, x) \/ ProcessBatch(w, x)
    \/ \E s \in Schedules :
          SchedulePayment(w, s) \/ ExecuteSchedule(w, s) \/ CancelSchedule(w, s)
    \/ \E u \in Uploads : CreateFromUpload(w, u)

Continue(w) ==
    \/ SaveHeader(w) \/ SaveLines(w) \/ UpdateTotals(w) \/ UpdateBill(w)
    \/ FindRow(w) \/ SaveApproval(w)
    \/ GenerateNumber(w) \/ InsertPayment(w) \/ SaveAllocation(w)
    \/ CountBatch(w) \/ FindEligible(w) \/ SelectBills(w) \/ SaveBatch(w) \/ SendResponse(w)
    \/ SaveSchedule(w) \/ InsertBill(w) \/ LinkUpload(w)

Next == /\ \E w \in Workers : Start(w) \/ Continue(w) \/ Crash(w)
        /\ UNCHANGED offered

Spec == Init /\ [][Next]_vars

-----------------------------------------------------------------------------
(* Safety. *)

\* The payments that batch_process has made of batch x for bill b.
BatchPayments(x, b) == {p \in Payments : pay[p] = x /\ alloc[p][b] > 0}

\* A batch that is processed in one place at a time pays a bill once, with any other
\* tab of the clerk writing back an old session; what it pays twice is due to a run that
\* ended half-way, by a crash or because a payment entered meanwhile took its number.
BatchPaysOnce ==
    Apart("batch") => \A x \in Batches, b \in Bills :
        Cardinality(BatchPayments(x, b)) <= 1 + aborts

\* A batch shown as completed counts the payments that carry its number, as long as
\* no request has ended half-way.
BatchIsCounted ==
    aborts = 0 /\ Apart("batch") => \A x \in Batches : batch[x].st = "completed" =>
        batch[x].count = Cardinality({p \in Payments : pay[p] = x})

\* The session holds every bill that a draft batch was made of, or none: tabs that
\* overlap and requests that die can erase the selection, never leave a part of it to
\* be paid and the batch completed.
SelectionIsWhole ==
    \A x \in Batches : batch[x].st = "draft" /\ session[x] # {} =>
        Cardinality(session[x]) = batch[x].count

\* An executed schedule points to a payment that allocates its amount to its bill,
\* whatever overlaps and wherever a request dies: the schedule is saved last.
ExecutedIsPaid ==
    \A s \in Schedules : sched[s].st = "executed" =>
        sched[s].p # 0 /\ pay[sched[s].p] = s /\ alloc[sched[s].p][sched[s].b] = sched[s].amt

\* Without requests that end half-way, and with no schedule executed or cancelled in
\* two places at once, a payment made from a schedule is the one it points to.
ScheduledOnce ==
    aborts = 0 /\ Apart("schedule") => \A s \in Schedules, p \in Payments :
        pay[p] = s /\ (\A w \in Workers : req[w].d # s) => sched[s].st = "executed" /\ sched[s].p = p

\* An uploaded document becomes one bill, up to requests that ended half-way.
UploadedOnce ==
    Apart("upload") => \A u \in Uploads :
        Cardinality({b \in Bills : bill[b].from = u}) <= 1 + aborts

\* Nothing is made twice from one schedule or one uploaded document.
MadeOnce == ScheduledOnce /\ UploadedOnce

\* The total that is approved and paid is what the lines add up to, if the bill has
\* lines and no request on it is in progress or ended half-way.
TotalIsLines ==
    aborts = 0 /\ Apart("bill") => \A b \in Bills :
        lines[b] > 0 /\ (\A w \in Workers : req[w].b # b) => bill[b].total = lines[b]

\* The newest approval row of bill b has status st.
Newest(b, st) ==
    \E r \in Rows : approval[b][r] = st /\ \A k \in Rows : k > r => approval[b][k] = "none"

\* An approved bill has a row with a decision, whatever overlaps: the row is saved
\* first, and no decision turns pending again.
DecisionRecorded ==
    \A b \in Bills : bill[b].st = "approved" =>
        \E r \in Rows : approval[b][r] \in {"approved", "rejected"}

\* Approving and rejecting overwrite one row.  If no bill is worked on in two places at
\* once, its newest row still tells how it came to its status, wherever requests die:
\* approved if it is approved, rejected if it is a draft again.
NewestRowDecides ==
    Apart("bill") => \A b \in Bills :
        /\ bill[b].st = "approved" => Newest(b, "approved")
        /\ bill[b].st = "draft" => approval[b] = NoRows \/ Newest(b, "rejected")
=============================================================================
