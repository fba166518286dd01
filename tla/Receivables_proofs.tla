-------------------------- MODULE Receivables_proofs --------------------------
(***************************************************************************)
(* Theorems about Receivables, for any number of workers, invoices,        *)
(* receipts and periods, any amounts, any overlap and any crashes: types,  *)
(* what the status of a receipt says about the ledger, and the status of   *)
(* an invoice about its amounts.                                           *)
(***************************************************************************)
EXTENDS Receivables, Sums_proofs, FiniteSetTheorems, TLAPS

-----------------------------------------------------------------------------
(* Types.  TypeOK lets a request have no invoice or receipt; it is inductive   *)
(* together with what each statement needs of them.                            *)

InvoiceLabels == {"header", "lines", "totals", "approval_row", "update"}
MoveLabels == {"bank", "ar", "save_receipt", "load", "apply"}

Placed(q) ==
    /\ q.pc \in InvoiceLabels => q.i \in Invoices
    /\ q.pc \in {"allocate", "find_open"} \cup MoveLabels => q.r \in Receipts
    /\ q.pc \in {"bank", "ar"} => q.op \in {"complete", "void"}

Local == {q \in Request : Placed(q)}

TypeInv == TypeOK /\ req \in [Workers -> Local]

\* The rows and local values of the initial state are well typed.
LEMMA EmptyTypes ==
    /\ NoInvoice \in Invoice
    /\ NoReceipt \in Receipt
    /\ NoAmounts \in [Invoices -> Nat]
    /\ NoSnap \in [Invoices -> Invoice]
    /\ Idle \in Local
<1>1. NoInvoice \in Invoice
  BY DEF NoInvoice, Invoice, InvoiceStatuses
<1>2. NoReceipt \in Receipt
  BY DEF NoReceipt, Receipt
<1>3. NoAmounts \in [Invoices -> Nat] /\ NoSnap \in [Invoices -> Invoice]
  BY <1>1 DEF NoAmounts, NoSnap
<1>4. Idle \in Request
  BY <1>1, <1>2, <1>3 DEF Idle, Request, Labels
<1> QED
  BY <1>1, <1>2, <1>3, <1>4 DEF Local, Placed, Idle, InvoiceLabels, MoveLabels

\* What the types say of the local values of one worker.
LEMMA LocalTypes ==
    ASSUME TypeInv, NEW w \in Workers
    PROVE  /\ req[w] \in Local /\ req[w] \in Request /\ Placed(req[w])
           /\ req[w].op \in Ops \cup {"none"}
           /\ req[w].copy \in Invoice
           /\ req[w].amt \in Nat
           /\ req[w].rec \in Receipt
           /\ req[w].rec.amt \in Nat
           /\ req[w].due \in [Invoices -> Nat]
           /\ req[w].snap \in [Invoices -> Invoice]
  BY DEF TypeInv, Local, Request, Receipt

\* A step that writes no table keeps the types if the worker's new local values
\* are well typed.
LEMMA LocalStep ==
    ASSUME TypeInv, NEW w \in Workers, NEW q \in Local,
           req' = [req EXCEPT ![w] = q], UNCHANGED <<tables, crashes>>
    PROVE  TypeInv'
  BY DEF TypeInv, TypeOK, tables, Local

LEMMA FinishType ==
    ASSUME TypeInv, NEW w \in Workers, Finish(w)
    PROVE  req' \in [Workers -> Local]
  BY EmptyTypes DEF Finish, TypeInv

\* Moving on to another statement about the same document.
LEMMA GotoType ==
    ASSUME TypeInv, NEW w \in Workers, NEW label \in Labels, Goto(w, label),
           Placed([req[w] EXCEPT !.pc = label])
    PROVE  req' \in [Workers -> Local]
<1>1. [req[w] EXCEPT !.pc = label] \in Request
  BY LocalTypes DEF Request
<1> QED BY <1>1 DEF Goto, TypeInv, Local

\* After the last allocation a request still has its receipt.
LEMMA AfterAllocationsType ==
    ASSUME TypeInv, NEW w \in Workers, AfterAllocations(w), req[w].r \in Receipts
    PROVE  req' \in [Workers -> Local]
<1> DEFINE q == [req[w] EXCEPT !.due = NoAmounts, !.pc = "save_receipt"]
<1>1. q \in Request
  BY LocalTypes, EmptyTypes DEF Request, Labels
<1>2. Placed(q)
  BY <1>1, LocalTypes DEF Placed, Request, InvoiceLabels, MoveLabels
<1>3. CASE req[w].op = "void"
  <2>1. req' = [req EXCEPT ![w] = q]
    BY <1>3 DEF AfterAllocations
  <2> QED BY <1>1, <1>2, <2>1 DEF TypeInv, Local
<1>4. CASE req[w].op # "void"
  BY <1>4, FinishType DEF AfterAllocations
<1> QED BY <1>3, <1>4

LEMMA DealtType ==
    ASSUME TypeInv, NEW w \in Workers, NEW i \in Invoices, Dealt(w, i),
           req[w].r \in Receipts
    PROVE  req' \in [Workers -> Local]
<1> DEFINE q == [req[w] EXCEPT !.due = [req[w].due EXCEPT ![i] = 0]]
<1>1. q \in Request
  BY LocalTypes DEF Request
<1>2. Placed(q)
  BY <1>1, LocalTypes DEF Placed, Request, InvoiceLabels, MoveLabels
<1>3. CASE Todo(w) = {i}
  BY <1>3, AfterAllocationsType DEF Dealt
<1>4. CASE Todo(w) # {i}
  <2>1. req' = [req EXCEPT ![w] = q]
    BY <1>4 DEF Dealt
  <2> QED BY <1>1, <1>2, <2>1 DEF TypeInv, Local
<1> QED BY <1>3, <1>4

\* A step that writes tables keeps the types if each of them does.
LEMMA TypesTogether ==
    ASSUME req' \in [Workers -> Local],
           inv' \in [Invoices -> Invoice], lines' \in [Invoices -> Nat],
           approved' \subseteq Invoices, rcpt' \in [Receipts -> Receipt],
           alloc' \in [Receipts -> [Invoices -> Nat]],
           gl' \in [Receipts -> [Entries -> [Legs -> Nat]]],
           closed' \in [Periods -> BOOLEAN], crashes' \in 0..MaxCrashes
    PROVE  TypeInv'
  BY DEF TypeInv, TypeOK, Local

LEMMA InitTypes == Init => TypeInv
<1> SUFFICES ASSUME Init PROVE TypeInv
  OBVIOUS
<1>1. 0 \in 0..MaxCrashes
  BY ReceivablesAssumption
<1>2. gl \in [Receipts -> [Entries -> [Legs -> Nat]]]
  BY DEF Init, NoLegs
<1> QED
  BY <1>1, <1>2, EmptyTypes DEF Init, TypeInv, TypeOK, Local

\* Saving an invoice row.
LEMMA SaveInvoiceType ==
    ASSUME TypeInv, NEW i \in Invoices, NEW row \in Invoice,
           inv' = [inv EXCEPT ![i] = row]
    PROVE  inv' \in [Invoices -> Invoice]
  BY DEF TypeInv, TypeOK

\* update_payment_status and the two changes of amount_paid yield invoice rows.
LEMMA PaymentTypes ==
    ASSUME NEW row \in Invoice, NEW a \in Nat
    PROVE  /\ UpdatePaymentStatus(row) \in Invoice
           /\ Pay(row, a) \in Invoice
           /\ Unpay(row, a) \in Invoice
<1>1. ASSUME NEW x \in Invoice PROVE UpdatePaymentStatus(x) \in Invoice
  BY <1>1 DEF UpdatePaymentStatus, Invoice, InvoiceStatuses
<1>2. [row EXCEPT !.paid = @ + a] \in Invoice
  BY DEF Invoice
<1>3. [row EXCEPT !.paid = IF @ > a THEN @ - a ELSE 0] \in Invoice
  BY DEF Invoice
<1>4. ASSUME NEW x \in Invoice, NEW st \in InvoiceStatuses PROVE [x EXCEPT !.st = st] \in Invoice
  BY <1>4 DEF Invoice
<1>5. {"partially_paid", "sent"} \subseteq InvoiceStatuses
  BY DEF InvoiceStatuses
<1> DEFINE back == UpdatePaymentStatus([row EXCEPT !.paid = IF @ > a THEN @ - a ELSE 0])
<1>6. back \in Invoice
  BY <1>1, <1>3
<1>7. Unpay(row, a) \in Invoice
  <2> HIDE DEF back
  <2>1. Unpay(row, a) = IF back.st = "paid" /\ back.paid < back.total
                        THEN [back EXCEPT !.st = IF back.paid > 0 THEN "partially_paid" ELSE "sent"]
                        ELSE back
    BY DEF Unpay, back
  <2> QED BY <2>1, <1>4, <1>5, <1>6
<1> QED BY <1>1, <1>2, <1>7 DEF Pay

LEMMA NewStatusType ==
    ASSUME NEW op \in WorkflowOps
    PROVE  NewStatus(op) \in InvoiceStatuses \ {"none", "partially_paid", "paid"}
  BY DEF WorkflowOps, NewStatus, InvoiceStatuses

LEMMA StartTypes ==
    ASSUME TypeInv, NEW w \in Workers, Start(w)
    PROVE  TypeInv'
<1> USE DEF Placed, InvoiceLabels, MoveLabels, Local
<1>t. TypeOK
  BY DEF TypeInv
<1>1. CASE CreateInvoice(w)
  <2> DEFINE row == [NoInvoice EXCEPT !.st = "draft"]
  <2>1. PICK i \in Invoices, a \in Totals :
           /\ inv' = [inv EXCEPT ![i] = row]
           /\ req' = [req EXCEPT ![w] = [Idle EXCEPT !.op = "create_invoice", !.pc = "lines",
                         !.i = i, !.copy = row, !.amt = a]]
    BY <1>1 DEF CreateInvoice
  <2>2. row \in Invoice
    BY EmptyTypes DEF Invoice, InvoiceStatuses
  <2>3. a \in Nat
    BY ReceivablesAssumption
  <2>4. [Idle EXCEPT !.op = "create_invoice", !.pc = "lines", !.i = i, !.copy = row,
                     !.amt = a] \in Local
    BY <2>2, <2>3, EmptyTypes DEF Request, Idle, Ops, Labels
  <2>5. req' \in [Workers -> Local]
    BY <2>1, <2>4 DEF TypeInv
  <2>6. inv' \in [Invoices -> Invoice]
    BY <2>1, <2>2, SaveInvoiceType
  <2> QED BY <1>t, <1>1, <2>5, <2>6, TypesTogether DEF CreateInvoice, TypeOK
<1>2. CASE CreateReceipt(w)
  <2>1. PICK r \in Receipts, a \in Amounts, p \in Periods, due \in [Invoices -> Amounts \cup {0}] :
           /\ MayStart(w, "create_receipt", r, {})
           /\ rcpt[r].st = "none"
           /\ ~closed[p]
           /\ due # NoAmounts
           /\ \A i \in Invoices : due[i] > 0 => inv[i].st # "none"
           /\ rcpt' = [rcpt EXCEPT ![r] = [st |-> "draft", amt |-> a, per |-> p]]
           /\ req' = [req EXCEPT ![w] = [Idle EXCEPT !.op = "create_receipt",
                                   !.pc = "allocate", !.r = r, !.due = due]]
    BY <1>2, Zenon DEF CreateReceipt
  <2>2. a \in Nat /\ due \in [Invoices -> Nat]
    <3>1. Amounts \subseteq Nat /\ Amounts \cup {0} \subseteq Nat
      BY ReceivablesAssumption
    <3>2. \A i \in Invoices : due[i] \in Nat
      BY <3>1
    <3> QED BY <3>1, <3>2
  <2>3. [st |-> "draft", amt |-> a, per |-> p] \in Receipt
    BY <2>2 DEF Receipt
  <2>4. [Idle EXCEPT !.op = "create_receipt", !.pc = "allocate", !.r = r, !.due = due] \in Local
    BY <2>2, EmptyTypes DEF Request, Idle, Ops, Labels
  <2>5. req' \in [Workers -> Local]
    BY <2>1, <2>4 DEF TypeInv
  <2>6. rcpt' \in [Receipts -> Receipt]
    BY <1>t, <2>1, <2>3 DEF TypeOK
  <2> QED BY <1>t, <1>2, <2>5, <2>6, TypesTogether DEF CreateReceipt, TypeOK
<1>3. ASSUME NEW i \in Invoices, EditInvoice(w, i) PROVE TypeInv'
  <2>1. PICK a \in Totals :
           req' = [req EXCEPT ![w] = [Idle EXCEPT !.op = "edit", !.pc = "header", !.i = i,
                                                  !.copy = inv[i], !.amt = a]]
    BY <1>3 DEF EditInvoice
  <2>2. inv[i] \in Invoice /\ a \in Nat
    BY <1>t, ReceivablesAssumption DEF TypeOK
  <2>3. [Idle EXCEPT !.op = "edit", !.pc = "header", !.i = i, !.copy = inv[i],
                     !.amt = a] \in Local
    BY <2>2, EmptyTypes DEF Request, Idle, Ops, Labels
  <2> QED BY <1>3, <2>1, <2>3, LocalStep DEF EditInvoice
<1>4. ASSUME NEW i \in Invoices, NEW op \in WorkflowOps, ChangeInvoice(w, i, op)
      PROVE  TypeInv'
  <2> DEFINE row == [inv[i] EXCEPT !.st = NewStatus(op)]
             label == IF op = "approve" THEN "approval_row" ELSE "update"
             q == [Idle EXCEPT !.op = op, !.i = i, !.pc = label, !.copy = row]
  <2>1. row \in Invoice
    BY <1>t, NewStatusType DEF TypeOK, Invoice
  <2>2. label \in {"approval_row", "update"} /\ op \in Ops
    BY DEF WorkflowOps, Ops
  <2>3. q \in Local
    <3> HIDE DEF row, label
    <3> QED BY <2>1, <2>2, EmptyTypes DEF Request, Idle, Labels
  <2>4. req' = [req EXCEPT ![w] = q]
    BY <1>4 DEF ChangeInvoice
  <2> QED BY <1>4, <2>3, <2>4, LocalStep DEF ChangeInvoice
<1>5. ASSUME NEW r \in Receipts, NEW op \in {"complete", "void"}, MoveReceipt(w, r, op)
      PROVE  TypeInv'
  <2> DEFINE label == IF op = "complete" THEN "bank" ELSE "ar"
             q == [Idle EXCEPT !.op = op, !.r = r, !.rec = rcpt[r], !.pc = label]
  <2>1. rcpt[r] \in Receipt /\ label \in {"bank", "ar"} /\ op \in Ops
    BY <1>t DEF TypeOK, Ops
  <2>2. q \in Local
    <3> HIDE DEF label
    <3> QED BY <2>1, EmptyTypes DEF Request, Idle, Labels
  <2>3. req' = [req EXCEPT ![w] = q]
    BY <1>5 DEF MoveReceipt
  <2> QED BY <1>5, <2>2, <2>3, LocalStep DEF MoveReceipt
<1>6. ASSUME NEW r \in Receipts, AutoMatch(w, r) PROVE TypeInv'
  <2>1. rcpt[r] \in Receipt
    BY <1>t DEF TypeOK
  <2>2. [Idle EXCEPT !.op = "auto_match", !.pc = "find_open", !.r = r,
                     !.rec = rcpt[r]] \in Local
    BY <2>1, EmptyTypes DEF Request, Idle, Ops, Labels
  <2> QED BY <1>6, <2>2, LocalStep DEF AutoMatch
<1> QED
  BY <1>1, <1>2, <1>3, <1>4, <1>5, <1>6 DEF Start

LEMMA ContinueTypes ==
    ASSUME TypeInv, NEW w \in Workers, Continue(w)
    PROVE  TypeInv'
<1> DEFINE q == req[w]
<1>0. /\ q \in Local /\ q \in Request /\ Placed(q)
      /\ q.op \in Ops \cup {"none"}
      /\ q.copy \in Invoice
      /\ q.amt \in Nat
      /\ q.rec \in Receipt
      /\ q.rec.amt \in Nat
      /\ q.due \in [Invoices -> Nat]
      /\ q.snap \in [Invoices -> Invoice]
  BY LocalTypes
<1>t. TypeOK
  BY DEF TypeInv
<1>1. CASE SaveHeader(w)
  <2>1. q.i \in Invoices /\ q.pc = "header"
    BY <1>0, <1>1 DEF SaveHeader, At, Placed, InvoiceLabels
  <2>2. Placed([q EXCEPT !.pc = "lines"])
    BY <1>0, <2>1 DEF Placed, Request, InvoiceLabels, MoveLabels
  <2>3. req' \in [Workers -> Local]
    BY <1>1, <2>2, GotoType DEF SaveHeader, Labels
  <2>4. inv' \in [Invoices -> Invoice]
    BY <1>0, <1>1, <2>1, SaveInvoiceType DEF SaveHeader
  <2> QED BY <1>t, <1>1, <2>3, <2>4, TypesTogether DEF SaveHeader, TypeOK
<1>2. CASE SaveLines(w)
  <2>1. q.i \in Invoices /\ q.pc = "lines"
    BY <1>0, <1>2 DEF SaveLines, At, Placed, InvoiceLabels
  <2>2. Placed([q EXCEPT !.pc = "totals"])
    BY <1>0, <2>1 DEF Placed, Request, InvoiceLabels, MoveLabels
  <2>3. req' \in [Workers -> Local]
    BY <1>2, <2>2, GotoType DEF SaveLines, Labels
  <2>4. lines' \in [Invoices -> Nat]
    BY <1>0, <1>t, <1>2 DEF SaveLines, TypeOK
  <2> QED BY <1>t, <1>2, <2>3, <2>4, TypesTogether DEF SaveLines, TypeOK
<1>3. CASE UpdateTotals(w)
  <2> DEFINE next == [q EXCEPT !.pc = "update", !.copy = [q.copy EXCEPT !.total = lines[q.i]]]
  <2>1. q.i \in Invoices
    BY <1>0, <1>3 DEF UpdateTotals, At, Placed, InvoiceLabels
  <2>2. [q.copy EXCEPT !.total = lines[q.i]] \in Invoice
    BY <1>0, <1>t, <2>1 DEF TypeOK, Invoice
  <2>3. next \in Local
    BY <1>0, <2>1, <2>2 DEF Local, Request, Placed, Labels, InvoiceLabels, MoveLabels
  <2>4. req' = [req EXCEPT ![w] = next]
    BY <1>3 DEF UpdateTotals
  <2> QED BY <1>3, <2>3, <2>4, LocalStep DEF UpdateTotals
<1>4. CASE UpdateInvoice(w)
  <2>1. q.i \in Invoices
    BY <1>0, <1>4 DEF UpdateInvoice, At, Placed, InvoiceLabels
  <2>2. req' \in [Workers -> Local]
    BY <1>4, FinishType DEF UpdateInvoice
  <2>3. inv' \in [Invoices -> Invoice]
    BY <1>0, <1>4, <2>1, SaveInvoiceType DEF UpdateInvoice
  <2> QED BY <1>t, <1>4, <2>2, <2>3, TypesTogether DEF UpdateInvoice, TypeOK
<1>5. CASE SaveApproval(w)
  <2>1. q.i \in Invoices /\ q.pc = "approval_row"
    BY <1>0, <1>5 DEF SaveApproval, At, Placed, InvoiceLabels
  <2>2. Placed([q EXCEPT !.pc = "update"])
    BY <1>0, <2>1 DEF Placed, Request, InvoiceLabels, MoveLabels
  <2>3. req' \in [Workers -> Local]
    BY <1>5, <2>2, GotoType DEF SaveApproval, Labels
  <2>4. approved' \subseteq Invoices
    BY <1>t, <1>5, <2>1 DEF SaveApproval, TypeOK
  <2> QED BY <1>t, <1>5, <2>3, <2>4, TypesTogether DEF SaveApproval, TypeOK
<1>6. CASE SaveAllocation(w)
  <2>1. q.r \in Receipts
    BY <1>0, <1>6 DEF SaveAllocation, At, Placed
  <2>2. PICK i \in Todo(w) :
           \/ alloc' = [alloc EXCEPT ![q.r][i] = q.due[i]] /\ Dealt(w, i)
           \/ alloc' = alloc /\ Finish(w)
    BY <1>6 DEF SaveAllocation
  <2>3. i \in Invoices
    BY DEF Todo
  <2>4. req' \in [Workers -> Local]
    BY <2>1, <2>2, <2>3, DealtType, FinishType
  <2>5. q.due[i] \in Nat /\ alloc[q.r] \in [Invoices -> Nat]
    BY <1>0, <1>t, <2>1, <2>3 DEF TypeOK
  <2>6. [alloc EXCEPT ![q.r][i] = q.due[i]] \in [Receipts -> [Invoices -> Nat]]
    <3>1. [alloc[q.r] EXCEPT ![i] = q.due[i]] \in [Invoices -> Nat]
      BY <2>3, <2>5
    <3> HIDE DEF q
    <3> QED BY <1>t, <2>1, <3>1 DEF TypeOK
  <2>7. alloc' \in [Receipts -> [Invoices -> Nat]]
    BY <1>t, <2>2, <2>6 DEF TypeOK
  <2> QED BY <1>t, <1>6, <2>4, <2>7, TypesTogether DEF SaveAllocation, TypeOK
<1>7. ASSUME NEW leg \in Legs, SaveLeg(w, leg) PROVE TypeInv'
  <2>1. q.r \in Receipts /\ q.op \in {"complete", "void"} /\ q.pc = leg
    BY <1>0, <1>7 DEF SaveLeg, At, Placed, Legs, MoveLabels
  <2>2. AfterLeg(q.op, leg) \in {"bank", "ar", "save_receipt", "load"}
    BY <2>1 DEF AfterLeg, Legs
  <2>3. Placed([q EXCEPT !.pc = AfterLeg(q.op, leg)])
    BY <1>0, <2>1, <2>2 DEF Placed, Request, InvoiceLabels, MoveLabels
  <2>4. req' \in [Workers -> Local]
    BY <1>7, <2>2, <2>3, GotoType DEF SaveLeg, Labels
  <2>5. EntryOf(q.op) \in Entries
    BY DEF EntryOf, Entries
  <2>6. gl[q.r] \in [Entries -> [Legs -> Nat]] /\ gl[q.r][EntryOf(q.op)] \in [Legs -> Nat]
    BY <1>t, <2>1, <2>5 DEF TypeOK
  <2>7. gl[q.r][EntryOf(q.op)][leg] + q.rec.amt \in Nat
    BY <1>0, <2>6
  <2>8. gl' \in [Receipts -> [Entries -> [Legs -> Nat]]]
    BY <1>t, <1>7, <2>5, <2>6, <2>7 DEF SaveLeg, TypeOK
  <2> QED BY <1>t, <1>7, <2>4, <2>8, TypesTogether DEF SaveLeg, TypeOK
<1>8. CASE SaveReceipt(w)
  <2> DEFINE st == IF q.op = "complete" THEN "completed" ELSE "void"
  <2>1. q.r \in Receipts /\ q.pc = "save_receipt"
    BY <1>0, <1>8 DEF SaveReceipt, At, Placed, MoveLabels
  <2>2. Placed([q EXCEPT !.pc = "load"])
    BY <1>0, <2>1 DEF Placed, Request, InvoiceLabels, MoveLabels
  <2>3. req' \in [Workers -> Local]
    BY <1>8, <2>2, GotoType, FinishType DEF SaveReceipt, Labels
  <2>4. [q.rec EXCEPT !.st = st] \in Receipt
    BY <1>0 DEF Receipt
  <2>5. rcpt' \in [Receipts -> Receipt]
    BY <1>t, <1>8, <2>4 DEF SaveReceipt, TypeOK
  <2> QED BY <1>t, <1>8, <2>3, <2>5, TypesTogether DEF SaveReceipt, TypeOK
<1>9. CASE LoadAllocations(w)
  <2> DEFINE next == [q EXCEPT !.pc = "apply", !.due = alloc[q.r], !.snap = inv]
  <2>1. q.r \in Receipts
    BY <1>0, <1>9 DEF LoadAllocations, At, Placed, MoveLabels
  <2>2. next \in Local
    BY <1>0, <1>t, <2>1 DEF Local, Request, Placed, Labels, InvoiceLabels, MoveLabels, TypeOK
  <2>3. AfterAllocations(w) \/ req' = [req EXCEPT ![w] = next]
    BY <1>9 DEF LoadAllocations
  <2>4. CASE AfterAllocations(w)
    <3>1. req' \in [Workers -> Local]
      BY <2>1, <2>4, AfterAllocationsType
    <3> QED BY <1>t, <1>9, <3>1, TypesTogether DEF LoadAllocations, TypeOK, tables
  <2> QED BY <1>9, <2>2, <2>3, <2>4, LocalStep DEF LoadAllocations
<1>10. CASE ApplyAllocation(w)
  <2>1. q.r \in Receipts
    BY <1>0, <1>10 DEF ApplyAllocation, At, Placed, MoveLabels
  <2>2. PICK i \in Todo(w) :
           /\ inv' = [inv EXCEPT ![i] = IF q.op = "complete" THEN Pay(q.snap[i], q.due[i])
                                                             ELSE Unpay(q.snap[i], q.due[i])]
           /\ Dealt(w, i)
    BY <1>10 DEF ApplyAllocation
  <2>3. i \in Invoices /\ q.snap[i] \in Invoice /\ q.due[i] \in Nat
    BY <1>0 DEF Todo
  <2>4. req' \in [Workers -> Local]
    BY <2>1, <2>2, <2>3, DealtType
  <2>5. inv' \in [Invoices -> Invoice]
    BY <2>2, <2>3, PaymentTypes, SaveInvoiceType
  <2> QED BY <1>t, <1>10, <2>4, <2>5, TypesTogether DEF ApplyAllocation, TypeOK
<1>11. CASE FindOpenInvoices(w)
  <2>1. q.r \in Receipts
    BY <1>0, <1>11 DEF FindOpenInvoices, At, Placed
  <2>2. PICK due \in [Invoices -> 0..q.rec.amt] :
           \/ Finish(w)
           \/ req' = [req EXCEPT ![w].pc = "allocate", ![w].due = due]
    BY <1>11 DEF FindOpenInvoices
  <2> DEFINE next == [q EXCEPT !.pc = "allocate", !.due = due]
  <2>3. due \in [Invoices -> Nat]
    BY <1>0
  <2>4. next \in Local
    BY <1>0, <2>1, <2>3 DEF Local, Request, Placed, Labels, InvoiceLabels, MoveLabels
  <2>5. CASE Finish(w)
    BY <1>11, <2>5, LocalStep, EmptyTypes DEF FindOpenInvoices, Finish
  <2>6. CASE req' = [req EXCEPT ![w] = next]
    BY <1>11, <2>4, <2>6, LocalStep DEF FindOpenInvoices
  <2> QED BY <2>2, <2>5, <2>6
<1> QED
  BY <1>1, <1>2, <1>3, <1>4, <1>5, <1>6, <1>7, <1>8, <1>9, <1>10, <1>11
     DEF Continue, Legs

LEMMA NextTypes == TypeInv /\ [Next]_vars => TypeInv'
<1> SUFFICES ASSUME TypeInv, [Next]_vars PROVE TypeInv'
  OBVIOUS
<1>t. TypeOK
  BY DEF TypeInv
<1>1. ASSUME NEW w \in Workers, Crash(w) PROVE TypeInv'
  <2>1. req' \in [Workers -> Local]
    BY <1>1, FinishType DEF Crash
  <2>2. crashes' \in 0..MaxCrashes
    BY <1>t, <1>1, ReceivablesAssumption DEF Crash, TypeOK
  <2> QED BY <1>t, <1>1, <2>1, <2>2, TypesTogether DEF Crash, tables, TypeOK
<1>2. ASSUME NEW p \in Periods, ClosePeriod(p) \/ ReopenPeriod(p) PROVE TypeInv'
  <2>1. closed' \in [Periods -> BOOLEAN]
    BY <1>t, <1>2 DEF ClosePeriod, ReopenPeriod, TypeOK
  <2> QED BY <1>2, <2>1 DEF ClosePeriod, ReopenPeriod, TypeInv, TypeOK
<1>3. CASE UNCHANGED vars
  BY <1>3 DEF vars, TypeInv, TypeOK
<1> QED
  BY <1>1, <1>2, <1>3, StartTypes, ContinueTypes DEF Next

LEMMA TypesHold == Spec => []TypeInv
<1> QED BY InitTypes, NextTypes, PTL DEF Spec

\* Every row and every local value has its type, whatever the bounds are.
THEOREM TypeCorrect == Spec => []TypeOK
<1>1. TypeInv => TypeOK
  BY DEF TypeInv
<1> QED BY <1>1, TypesHold, PTL

-----------------------------------------------------------------------------
(* A receipt's status and the ledger.  The strengthening follows each request      *)
(* through the lines of its entry: what it has executed so far is in the ledger,   *)
(* with the amount of the row it is going to save.                                 *)

\* The lines a request for operation op has written when it is about to execute pc.
Written(op, pc) ==
    IF op = "complete"
    THEN IF pc = "bank" THEN {} ELSE IF pc = "ar" THEN {"bank"} ELSE Legs
    ELSE IF pc = "ar" THEN {} ELSE IF pc = "bank" THEN {"ar"} ELSE Legs

PostOK(q, rc, g) ==
    /\ q.pc \in MoveLabels =>
          /\ q.op \in {"complete", "void"}
          /\ rc[q.r].st # "none"
          /\ rc[q.r].amt = q.rec.amt
          /\ \A l \in Written(q.op, q.pc) : g[q.r][EntryOf(q.op)][l] >= q.rec.amt
    /\ q.pc = "allocate" => q.op # "void"
    /\ q.pc = "find_open" => q.op = "auto_match"

PostInv == StatusIsPosted /\ \A w \in Workers : PostOK(req[w], rcpt, gl)

\* No step takes a journal line away, removes a receipt or changes its amount.
Grows ==
    /\ \A r \in Receipts : rcpt[r].st # "none" =>
          rcpt'[r].st # "none" /\ rcpt'[r].amt = rcpt[r].amt
    /\ \A r \in Receipts, e \in Entries, l \in Legs : gl'[r][e][l] >= gl[r][e][l]

LEMMA PostOKStays ==
    ASSUME TypeInv, TypeInv', Grows, NEW q \in Local, PostOK(q, rcpt, gl)
    PROVE  PostOK(q, rcpt', gl')
<1>1. CASE q.pc \in MoveLabels
  <2>1. q.r \in Receipts
    BY <1>1 DEF Local, Placed
  <2>2. q.rec.amt \in Nat /\ EntryOf(q.op) \in Entries
    BY DEF Local, Request, Receipt, EntryOf, Entries
  <2>3. Written(q.op, q.pc) \subseteq Legs
    BY DEF Written, Legs
  <2>4. ASSUME NEW l \in Written(q.op, q.pc)
        PROVE  gl'[q.r][EntryOf(q.op)][l] >= q.rec.amt
    <3> DEFINE old == gl[q.r][EntryOf(q.op)][l]
               new == gl'[q.r][EntryOf(q.op)][l]
    <3>1. l \in Legs
      BY <2>3
    <3>2. old \in Nat /\ new \in Nat
      BY <2>1, <2>2, <3>1 DEF TypeInv, TypeOK
    <3>3. old >= q.rec.amt /\ new >= old
      BY <1>1, <2>1, <2>2, <2>4, <3>1 DEF PostOK, Grows
    <3> HIDE DEF old, new
    <3>4. new >= q.rec.amt
      BY <2>2, <3>2, <3>3
    <3> QED BY <3>4 DEF new
  <2> QED BY <1>1, <2>1, <2>4 DEF PostOK, Grows
<1>2. CASE q.pc \notin MoveLabels
  BY <1>2 DEF PostOK
<1> QED BY <1>1, <1>2

\* A receipt whose status a step does not change keeps its lines.
LEMMA PostedStays ==
    ASSUME TypeInv, TypeInv', Grows, StatusIsPosted,
           NEW r \in Receipts, NEW l \in Legs, rcpt'[r].st = rcpt[r].st
    PROVE  /\ rcpt'[r].st = "completed" => gl'[r]["deposit"][l] >= rcpt'[r].amt
           /\ rcpt'[r].st = "void" => gl'[r]["reversal"][l] >= rcpt'[r].amt
<1>1. /\ gl[r]["deposit"][l] \in Nat /\ gl'[r]["deposit"][l] \in Nat
      /\ gl[r]["reversal"][l] \in Nat /\ gl'[r]["reversal"][l] \in Nat
      /\ rcpt[r].amt \in Nat /\ rcpt'[r].amt \in Nat
  BY DEF TypeInv, TypeOK, Receipt, Entries
<1>2. /\ gl'[r]["deposit"][l] >= gl[r]["deposit"][l]
      /\ gl'[r]["reversal"][l] >= gl[r]["reversal"][l]
  BY DEF Grows, Entries
<1>3. rcpt[r].st # "none" => rcpt'[r].amt = rcpt[r].amt
  BY DEF Grows
<1>4. /\ rcpt[r].st = "completed" => gl[r]["deposit"][l] >= rcpt[r].amt
      /\ rcpt[r].st = "void" => gl[r]["reversal"][l] >= rcpt[r].amt
  BY DEF StatusIsPosted
<1> QED BY <1>1, <1>2, <1>3, <1>4

\* A step that changes no status: what it needs is that the worker's own request
\* still says what is in the ledger.
LEMMA PostInvStep ==
    ASSUME TypeInv, TypeInv', Grows, PostInv, NEW w \in Workers,
           \A v \in Workers \ {w} : req'[v] = req[v],
           PostOK(req'[w], rcpt', gl'),
           \A r \in Receipts : rcpt'[r].st \in {rcpt[r].st, "draft"}
    PROVE  PostInv'
<1>1. ASSUME NEW v \in Workers PROVE PostOK(req'[v], rcpt', gl')
  <2>1. CASE v = w
    BY <2>1
  <2>2. CASE v # w
    <3>1. PostOK(req[v], rcpt, gl) /\ req[v] \in Local
      BY LocalTypes DEF PostInv
    <3>2. PostOK(req[v], rcpt', gl')
      BY <3>1, PostOKStays
    <3> QED BY <2>2, <3>2
  <2> QED BY <2>1, <2>2
<1>2. StatusIsPosted'
  <2>1. ASSUME NEW r \in Receipts, NEW l \in Legs
        PROVE  /\ rcpt'[r].st = "completed" => gl'[r]["deposit"][l] >= rcpt'[r].amt
               /\ rcpt'[r].st = "void" => gl'[r]["reversal"][l] >= rcpt'[r].amt
    <3>1. CASE rcpt'[r].st = rcpt[r].st
      BY <3>1, PostedStays DEF PostInv
    <3>2. CASE rcpt'[r].st = "draft"
      BY <3>2
    <3> QED BY <3>1, <3>2
  <2> QED BY <2>1 DEF StatusIsPosted
<1> QED BY <1>1, <1>2 DEF PostInv

LEMMA GrowsIfSame ==
    ASSUME TypeInv, rcpt' = rcpt, gl' = gl
    PROVE  Grows
<1>1. \A r \in Receipts, e \in Entries, l \in Legs : gl[r][e][l] \in Nat
  BY DEF TypeInv, TypeOK
<1> QED BY <1>1 DEF Grows

LEMMA StartPosted ==
    ASSUME TypeInv, TypeInv', PostInv, NEW w \in Workers, Start(w)
    PROVE  PostInv'
<1> USE DEF MoveLabels
<1>t. TypeOK
  BY DEF TypeInv
\* A request that has only read.
<1>1. ASSUME rcpt' = rcpt, gl' = gl, NEW q \in Local, req' = [req EXCEPT ![w] = q],
             PostOK(q, rcpt, gl)
      PROVE  PostInv'
  <2>1. \A v \in Workers \ {w} : req'[v] = req[v]
    BY <1>t, <1>1 DEF TypeOK
  <2>2. PostOK(req'[w], rcpt', gl')
    BY <1>t, <1>1 DEF TypeOK
  <2>3. Grows
    BY <1>1, GrowsIfSame
  <2>4. \A r \in Receipts : rcpt'[r].st \in {rcpt[r].st, "draft"}
    BY <1>1
  <2> QED BY <2>1, <2>2, <2>3, <2>4, PostInvStep
<1>2. req'[w] \in Local
  BY DEF TypeInv
<1>3. CASE CreateInvoice(w)
  <2>1. /\ rcpt' = rcpt /\ gl' = gl
        /\ req' = [req EXCEPT ![w] = req'[w]] /\ req'[w].pc = "lines"
    BY <1>t, <1>3 DEF CreateInvoice, TypeOK, Idle
  <2> QED BY <1>1, <1>2, <2>1 DEF PostOK
<1>4. ASSUME NEW i \in Invoices, EditInvoice(w, i) PROVE PostInv'
  <2>1. /\ rcpt' = rcpt /\ gl' = gl
        /\ req' = [req EXCEPT ![w] = req'[w]] /\ req'[w].pc = "header"
    BY <1>t, <1>4 DEF EditInvoice, TypeOK, Idle, tables
  <2> QED BY <1>1, <1>2, <2>1 DEF PostOK
<1>5. ASSUME NEW i \in Invoices, NEW op \in WorkflowOps, ChangeInvoice(w, i, op)
      PROVE  PostInv'
  <2>1. /\ rcpt' = rcpt /\ gl' = gl
        /\ req' = [req EXCEPT ![w] = req'[w]] /\ req'[w].pc \in {"approval_row", "update"}
    BY <1>t, <1>5 DEF ChangeInvoice, TypeOK, Idle, tables
  <2> QED BY <1>1, <1>2, <2>1 DEF PostOK
<1>6. ASSUME NEW r \in Receipts, NEW op \in {"complete", "void"}, MoveReceipt(w, r, op)
      PROVE  PostInv'
  <2>1. /\ rcpt' = rcpt /\ gl' = gl
        /\ req' = [req EXCEPT ![w] = req'[w]]
        /\ req'[w].pc = (IF op = "complete" THEN "bank" ELSE "ar")
        /\ req'[w].op = op /\ req'[w].r = r /\ req'[w].rec = rcpt[r]
    BY <1>t, <1>6 DEF MoveReceipt, TypeOK, Idle, tables
  <2>2. rcpt[r].st # "none"
    BY <1>6 DEF MoveReceipt, MayMove
  <2>3. Written(op, req'[w].pc) = {}
    BY <2>1 DEF Written
  <2> QED BY <1>1, <1>2, <2>1, <2>2, <2>3 DEF PostOK
<1>7. ASSUME NEW r \in Receipts, AutoMatch(w, r) PROVE PostInv'
  <2>1. /\ rcpt' = rcpt /\ gl' = gl
        /\ req' = [req EXCEPT ![w] = req'[w]]
        /\ req'[w].pc = "find_open" /\ req'[w].op = "auto_match"
    BY <1>t, <1>7 DEF AutoMatch, TypeOK, Idle, tables
  <2> QED BY <1>1, <1>2, <2>1 DEF PostOK
<1>8. CASE CreateReceipt(w)
  <2>1. PICK r \in Receipts, a \in Amounts, p \in Periods, due \in [Invoices -> Amounts \cup {0}] :
           /\ MayStart(w, "create_receipt", r, {})
           /\ rcpt[r].st = "none"
           /\ ~closed[p]
           /\ due # NoAmounts
           /\ \A i \in Invoices : due[i] > 0 => inv[i].st # "none"
           /\ rcpt' = [rcpt EXCEPT ![r] = [st |-> "draft", amt |-> a, per |-> p]]
           /\ req' = [req EXCEPT ![w] = [Idle EXCEPT !.op = "create_receipt",
                                   !.pc = "allocate", !.r = r, !.due = due]]
    BY <1>8, Zenon DEF CreateReceipt
  <2>2. gl' = gl
    BY <1>8 DEF CreateReceipt
  <2>3. \A v \in Workers \ {w} : req'[v] = req[v]
    BY <1>t, <2>1 DEF TypeOK
  <2>4. req'[w].pc = "allocate" /\ req'[w].op = "create_receipt"
    BY <1>t, <2>1 DEF TypeOK, Idle
  <2>5. PostOK(req'[w], rcpt', gl')
    BY <2>4 DEF PostOK
  <2>6. \A k \in Receipts : rcpt'[k] = rcpt[k] \/ (k = r /\ rcpt'[k].st = "draft")
    BY <1>t, <2>1 DEF TypeOK
  <2>7. \A k \in Receipts, e \in Entries, l \in Legs : gl[k][e][l] \in Nat
    BY <1>t DEF TypeOK
  <2>8. Grows
    BY <2>1, <2>2, <2>6, <2>7 DEF Grows
  <2> QED BY <2>3, <2>5, <2>6, <2>8, PostInvStep
<1> QED
  BY <1>3, <1>4, <1>5, <1>6, <1>7, <1>8 DEF Start

\* After its last allocation a request that still has a receipt to save has written
\* its whole entry.
LEMMA DealtPosted ==
    ASSUME TypeInv, PostInv, NEW w \in Workers,
           req[w].pc \in {"load", "apply", "allocate"},
           AfterAllocations(w) \/ \E i \in Invoices : Dealt(w, i)
    PROVE  /\ \A v \in Workers \ {w} : req'[v] = req[v]
           /\ PostOK(req'[w], rcpt, gl)
<1> USE DEF MoveLabels
<1>t. TypeOK
  BY DEF TypeInv
<1>p. PostOK(req[w], rcpt, gl)
  BY DEF PostInv
<1>1. ASSUME Finish(w)
      PROVE  /\ \A v \in Workers \ {w} : req'[v] = req[v]
             /\ PostOK(req'[w], rcpt, gl)
  BY <1>t, <1>1 DEF Finish, TypeOK, PostOK, Idle
<1>2. ASSUME AfterAllocations(w), req[w].op = "void"
      PROVE  /\ \A v \in Workers \ {w} : req'[v] = req[v]
             /\ PostOK(req'[w], rcpt, gl)
  <2>1. req' = [req EXCEPT ![w] = [req[w] EXCEPT !.due = NoAmounts, !.pc = "save_receipt"]]
    BY <1>2 DEF AfterAllocations
  <2>2. \A v \in Workers \ {w} : req'[v] = req[v]
    BY <1>t, <2>1 DEF TypeOK
  <2>3. /\ req'[w].op = req[w].op /\ req'[w].r = req[w].r /\ req'[w].rec = req[w].rec
        /\ req'[w].pc = "save_receipt"
    BY <1>t, <2>1 DEF TypeOK, Request
  <2>4. req[w].pc \in {"load", "apply"}
    BY <1>2, <1>p DEF PostOK
  <2>5. Written(req[w].op, req'[w].pc) = Written(req[w].op, req[w].pc)
    BY <1>2, <2>3, <2>4 DEF Written
  <2> QED BY <1>p, <2>2, <2>3, <2>4, <2>5 DEF PostOK
<1>3. ASSUME NEW i \in Invoices, req' = [req EXCEPT ![w].due[i] = 0]
      PROVE  /\ \A v \in Workers \ {w} : req'[v] = req[v]
             /\ PostOK(req'[w], rcpt, gl)
  <2>1. req' = [req EXCEPT ![w] = [req[w] EXCEPT !.due = [req[w].due EXCEPT ![i] = 0]]]
    BY <1>3
  <2>2. \A v \in Workers \ {w} : req'[v] = req[v]
    BY <1>t, <2>1 DEF TypeOK
  <2>3. /\ req'[w].op = req[w].op /\ req'[w].r = req[w].r /\ req'[w].rec = req[w].rec
        /\ req'[w].pc = req[w].pc
    BY <1>t, <2>1 DEF TypeOK, Request
  <2> QED BY <1>p, <2>2, <2>3 DEF PostOK
<1> QED
  BY <1>1, <1>2, <1>3 DEF AfterAllocations, Dealt

LEMMA ContinuePosted ==
    ASSUME TypeInv, TypeInv', PostInv, NEW w \in Workers, Continue(w)
    PROVE  PostInv'
<1> USE DEF MoveLabels
<1> DEFINE q == req[w]
<1>t. TypeOK
  BY DEF TypeInv
<1>p. PostOK(q, rcpt, gl)
  BY DEF PostInv
\* A statement that writes neither receipts nor the ledger.
<1>1. ASSUME rcpt' = rcpt, gl' = gl, \A v \in Workers \ {w} : req'[v] = req[v],
             PostOK(req'[w], rcpt, gl)
      PROVE  PostInv'
  <2>1. Grows
    BY <1>1, GrowsIfSame
  <2>2. \A r \in Receipts : rcpt'[r].st \in {rcpt[r].st, "draft"}
    BY <1>1
  <2>3. PostOK(req'[w], rcpt', gl')
    BY <1>1
  <2> QED BY <1>1, <2>1, <2>2, <2>3, PostInvStep
<1>2. ASSUME Finish(w)
      PROVE  (\A v \in Workers \ {w} : req'[v] = req[v]) /\ PostOK(req'[w], rcpt, gl)
  BY <1>t, <1>2 DEF Finish, TypeOK, PostOK, Idle
<1>3. CASE SaveHeader(w) \/ SaveLines(w) \/ UpdateTotals(w) \/ SaveApproval(w)
  <2>1. /\ \A v \in Workers \ {w} : req'[v] = req[v]
        /\ req'[w].pc \in {"lines", "totals", "update"}
    BY <1>t, <1>3 DEF SaveHeader, SaveLines, UpdateTotals, SaveApproval, Goto, TypeOK, Request
  <2>2. rcpt' = rcpt /\ gl' = gl
    BY <1>3 DEF SaveHeader, SaveLines, UpdateTotals, SaveApproval, tables
  <2> QED BY <1>1, <2>1, <2>2 DEF PostOK
<1>4. CASE UpdateInvoice(w)
  BY <1>1, <1>2, <1>4 DEF UpdateInvoice
<1>5. CASE SaveAllocation(w)
  <2>1. PICK i \in Todo(w) : Dealt(w, i) \/ Finish(w)
    BY <1>5 DEF SaveAllocation
  <2>2. i \in Invoices
    BY DEF Todo
  <2>3. q.pc = "allocate"
    BY <1>5 DEF SaveAllocation, At
  <2>4. (\A v \in Workers \ {w} : req'[v] = req[v]) /\ PostOK(req'[w], rcpt, gl)
    BY <1>2, <2>1, <2>2, <2>3, DealtPosted
  <2> QED BY <1>1, <1>5, <2>4 DEF SaveAllocation
<1>6. CASE FindOpenInvoices(w)
  <2>1. PICK due \in [Invoices -> 0..q.rec.amt] :
           \/ Finish(w)
           \/ req' = [req EXCEPT ![w] = [q EXCEPT !.pc = "allocate", !.due = due]]
    BY <1>6 DEF FindOpenInvoices
  <2>2. q.op = "auto_match"
    BY <1>6, <1>p DEF FindOpenInvoices, At, PostOK
  <2>3. ASSUME req' = [req EXCEPT ![w] = [q EXCEPT !.pc = "allocate", !.due = due]]
        PROVE  (\A v \in Workers \ {w} : req'[v] = req[v]) /\ PostOK(req'[w], rcpt, gl)
    <3>1. req'[w].pc = "allocate" /\ req'[w].op = q.op
      BY <1>t, <2>3 DEF TypeOK, Request
    <3> QED BY <1>t, <2>2, <2>3, <3>1 DEF TypeOK, PostOK
  <2> QED BY <1>1, <1>2, <1>6, <2>1, <2>3 DEF FindOpenInvoices, tables
<1>7. CASE LoadAllocations(w)
  <2> DEFINE next == [q EXCEPT !.pc = "apply", !.due = alloc[q.r], !.snap = inv]
  <2>1. q.pc = "load"
    BY <1>7 DEF LoadAllocations, At
  <2>2. AfterAllocations(w) \/ req' = [req EXCEPT ![w] = next]
    BY <1>7 DEF LoadAllocations
  <2>3. ASSUME req' = [req EXCEPT ![w] = next]
        PROVE  (\A v \in Workers \ {w} : req'[v] = req[v]) /\ PostOK(req'[w], rcpt, gl)
    <3>1. /\ req'[w].op = q.op /\ req'[w].r = q.r /\ req'[w].rec = q.rec
          /\ req'[w].pc = "apply"
      BY <1>t, <2>3 DEF TypeOK, Request
    <3>2. Written(q.op, req'[w].pc) = Written(q.op, q.pc)
      BY <2>1, <3>1 DEF Written
    <3>3. \A v \in Workers \ {w} : req'[v] = req[v]
      BY <1>t, <2>3 DEF TypeOK
    <3> QED BY <1>p, <2>1, <3>1, <3>2, <3>3 DEF PostOK
  <2> QED BY <1>1, <1>7, <2>1, <2>2, <2>3, DealtPosted DEF LoadAllocations, tables
<1>8. CASE ApplyAllocation(w)
  <2>1. PICK i \in Todo(w) : Dealt(w, i)
    BY <1>8 DEF ApplyAllocation
  <2>2. i \in Invoices /\ q.pc = "apply"
    BY <1>8 DEF Todo, ApplyAllocation, At
  <2> QED BY <1>1, <1>8, <2>1, <2>2, DealtPosted DEF ApplyAllocation
<1>9. ASSUME NEW leg \in Legs, SaveLeg(w, leg) PROVE PostInv'
  <2> DEFINE e0 == EntryOf(q.op)
             next == AfterLeg(q.op, leg)
  <2>1. /\ q.pc = leg /\ q.r \in Receipts /\ e0 \in Entries
        /\ q.op \in {"complete", "void"} /\ q.rec.amt \in Nat
    BY <1>p, <1>9, LocalTypes DEF SaveLeg, At, Placed, Legs, EntryOf, Entries, PostOK
  <2>2. \A r \in Receipts, e \in Entries, l \in Legs :
           /\ gl[r][e][l] \in Nat
           /\ gl'[r][e][l] = IF r = q.r /\ e = e0 /\ l = leg
                             THEN gl[r][e][l] + q.rec.amt ELSE gl[r][e][l]
    <3> HIDE DEF q, e0
    <3>1. gl' = [gl EXCEPT ![q.r][e0][leg] = @ + q.rec.amt]
      BY <1>9 DEF SaveLeg, q, e0
    <3> QED BY <1>t, <2>1, <3>1 DEF TypeOK
  <2>3. rcpt' = rcpt
    BY <1>9 DEF SaveLeg
  <2>4. Grows
    BY <2>1, <2>2, <2>3 DEF Grows
  <2>5. \A v \in Workers \ {w} : req'[v] = req[v]
    BY <1>t, <1>9 DEF SaveLeg, Goto, TypeOK
  <2>6. /\ req'[w].op = q.op /\ req'[w].r = q.r /\ req'[w].rec = q.rec
        /\ req'[w].pc = next
    BY <1>t, <1>9 DEF SaveLeg, Goto, TypeOK, Request
  <2>7. /\ next \in {"bank", "ar", "save_receipt", "load"}
        /\ Written(q.op, next) \subseteq Written(q.op, leg) \cup {leg}
    BY <2>1 DEF AfterLeg, Written, Legs
  <2>8. ASSUME NEW l \in Written(q.op, next) PROVE gl'[q.r][e0][l] >= q.rec.amt
    <3>1. l \in Legs
      BY DEF Written, Legs
    <3>2. CASE l = leg
      BY <2>1, <2>2, <3>1, <3>2
    <3>3. CASE l # leg
      <4>1. l \in Written(q.op, q.pc)
        BY <2>1, <2>7, <3>3
      <4>2. gl[q.r][e0][l] >= q.rec.amt
        BY <1>p, <2>1, <4>1 DEF PostOK, Legs
      <4> QED BY <2>1, <2>2, <3>1, <3>3, <4>2
    <3> QED BY <3>2, <3>3
  <2>9. PostOK(req'[w], rcpt', gl')
    BY <1>p, <2>1, <2>3, <2>6, <2>7, <2>8 DEF PostOK, Legs
  <2> QED BY <2>3, <2>4, <2>5, <2>9, PostInvStep
<1>10. CASE SaveReceipt(w)
  <2> DEFINE st == IF q.op = "complete" THEN "completed" ELSE "void"
  <2>1. /\ q.r \in Receipts /\ q.pc = "save_receipt" /\ q.op \in {"complete", "void"}
        /\ q.rec \in Receipt
    BY <1>p, <1>10, LocalTypes DEF SaveReceipt, At, Placed, PostOK
  <2>2. /\ \A r \in Receipts \ {q.r} : rcpt'[r] = rcpt[r]
        /\ rcpt'[q.r].st = st /\ rcpt'[q.r].amt = q.rec.amt
    BY <1>t, <1>10, <2>1 DEF SaveReceipt, TypeOK, Receipt
  <2>3. gl' = gl
    BY <1>10 DEF SaveReceipt
  <2>4. Grows
    <3>1. \A r \in Receipts, e \in Entries, l \in Legs : gl[r][e][l] \in Nat
      BY <1>t DEF TypeOK
    <3>2. rcpt[q.r].st # "none" /\ rcpt[q.r].amt = q.rec.amt
      BY <1>p, <2>1 DEF PostOK
    <3> QED BY <2>2, <2>3, <3>1, <3>2 DEF Grows
  <2>5. \A l \in Legs : gl[q.r][EntryOf(q.op)][l] >= q.rec.amt
    BY <1>p, <2>1 DEF PostOK, Written
  <2>6. \A v \in Workers \ {w} : req'[v] = req[v]
    BY <1>t, <1>10 DEF SaveReceipt, Goto, Finish, TypeOK
  <2>7. PostOK(req'[w], rcpt', gl')
    <3>1. CASE q.op = "complete"
      <4>1. /\ req'[w].op = q.op /\ req'[w].r = q.r /\ req'[w].rec = q.rec
            /\ req'[w].pc = "load"
        BY <1>t, <1>10, <3>1 DEF SaveReceipt, Goto, TypeOK, Request
      <4> QED BY <2>1, <2>2, <2>3, <2>5, <3>1, <4>1 DEF PostOK, Written
    <3>2. CASE q.op # "complete"
      BY <1>t, <1>10, <3>2 DEF SaveReceipt, Finish, TypeOK, PostOK, Idle
    <3> QED BY <3>1, <3>2
  <2>8. \A v \in Workers : PostOK(req'[v], rcpt', gl')
    <3>1. ASSUME NEW v \in Workers \ {w} PROVE PostOK(req[v], rcpt', gl')
      <4>1. req[v] \in Local /\ PostOK(req[v], rcpt, gl)
        BY LocalTypes DEF PostInv
      <4> QED BY <2>4, <4>1, PostOKStays
    <3> QED BY <2>6, <2>7, <3>1
  <2>9. ASSUME NEW r \in Receipts, NEW l \in Legs
        PROVE  /\ rcpt'[r].st = "completed" => gl'[r]["deposit"][l] >= rcpt'[r].amt
               /\ rcpt'[r].st = "void" => gl'[r]["reversal"][l] >= rcpt'[r].amt
    <3>1. CASE r = q.r
      BY <2>1, <2>2, <2>3, <2>5, <3>1 DEF EntryOf
    <3>2. CASE r # q.r
      BY <2>2, <2>4, <3>2, PostedStays DEF PostInv
    <3> QED BY <3>1, <3>2
  <2> QED BY <2>8, <2>9 DEF PostInv, StatusIsPosted
<1> QED
  BY <1>3, <1>4, <1>5, <1>6, <1>7, <1>8, <1>9, <1>10 DEF Continue, Legs

LEMMA NextPosted == TypeInv /\ PostInv /\ [Next]_vars => PostInv'
<1> SUFFICES ASSUME TypeInv, PostInv, [Next]_vars PROVE PostInv'
  OBVIOUS
<1>0. TypeInv'
  BY NextTypes
<1>1. ASSUME NEW w \in Workers, Crash(w) PROVE PostInv'
  <2>1. rcpt' = rcpt /\ gl' = gl
    BY <1>1 DEF Crash, tables
  <2>2. (\A v \in Workers \ {w} : req'[v] = req[v]) /\ PostOK(req'[w], rcpt', gl')
    BY <1>1 DEF Crash, Finish, TypeInv, TypeOK, PostOK, MoveLabels, Idle
  <2> QED BY <1>0, <2>1, <2>2, GrowsIfSame, PostInvStep
<1>2. CASE \E p \in Periods : ClosePeriod(p) \/ ReopenPeriod(p)
  BY <1>2 DEF ClosePeriod, ReopenPeriod, PostInv, StatusIsPosted, PostOK
<1>3. CASE UNCHANGED vars
  BY <1>3 DEF vars, PostInv, StatusIsPosted, PostOK
<1> QED
  BY <1>0, <1>1, <1>2, <1>3, StartPosted, ContinuePosted DEF Next

LEMMA PostHolds == Spec => []PostInv
<1>1. Init => PostInv
  BY DEF Init, PostInv, StatusIsPosted, PostOK, MoveLabels, NoReceipt, Idle
<1> QED BY <1>1, NextPosted, TypesHold, PTL DEF Spec

\* A completed receipt has both lines of its deposit in the ledger and a void one both
\* lines of its reversal, for any amount: receipt_complete and receipt_void write the
\* entry before the status, so neither a crash nor an overlap can leave it out.
THEOREM StatusPosted == Spec => []StatusIsPosted
<1>1. PostInv => StatusIsPosted
  BY DEF PostInv
<1> QED BY <1>1, PostHolds, PTL

-----------------------------------------------------------------------------
(* An invoice's status and its amounts.  Rows are saved from local copies, so the  *)
(* property has to hold of every copy a request keeps; and a copy whose total is    *)
(* about to be recalculated is a draft.                                             *)

RowOK(row) ==
    /\ row.st = "paid" => row.total > 0 /\ row.paid >= row.total
    /\ row.st = "partially_paid" /\ row.total > 0 => row.paid < row.total

CopiesOK(q) ==
    /\ RowOK(q.copy)
    /\ \A i \in Invoices : RowOK(q.snap[i])
    /\ q.pc \in {"header", "lines", "totals"} => q.copy.st = "draft"

RowInv == (\A i \in Invoices : RowOK(inv[i])) /\ \A w \in Workers : CopiesOK(req[w])

\* update_payment_status makes any row right unless it leaves the status alone; then
\* what the payment did to a paid or partially paid row matters.
LEMMA PaymentKeepsRows ==
    ASSUME NEW row \in Invoice, NEW a \in Nat, RowOK(row)
    PROVE  RowOK(Pay(row, a)) /\ RowOK(Unpay(row, a))
<1>0. /\ row.st \in InvoiceStatuses /\ row.total \in Nat /\ row.paid \in Nat
      /\ row = [st |-> row.st, total |-> row.total, paid |-> row.paid]
  BY DEF Invoice
<1>1. ASSUME NEW x \in Invoice, x.st = row.st, x.total = row.total
      PROVE  LET y == UpdatePaymentStatus(x) IN
             /\ y.total = row.total /\ y.paid = x.paid
             /\ y.st = IF x.paid >= row.total /\ row.total > 0 THEN "paid"
                       ELSE IF x.paid > 0 THEN "partially_paid" ELSE row.st
  BY <1>1 DEF UpdatePaymentStatus, Invoice
<1>2. RowOK(Pay(row, a))
  <2> DEFINE x == [row EXCEPT !.paid = row.paid + a]
             y == UpdatePaymentStatus(x)
  <2>1. x \in Invoice /\ x.st = row.st /\ x.total = row.total /\ x.paid = row.paid + a
    BY <1>0 DEF Invoice
  <2>2. /\ y.total = row.total /\ y.paid = row.paid + a
        /\ y.st = IF row.paid + a >= row.total /\ row.total > 0 THEN "paid"
                  ELSE IF row.paid + a > 0 THEN "partially_paid" ELSE row.st
    <3> HIDE DEF x
    <3> QED BY <1>1, <2>1
  <2>3. Pay(row, a) = y
    BY DEF Pay
  <2> HIDE DEF y
  <2> QED BY <1>0, <2>2, <2>3 DEF RowOK
<1>3. RowOK(Unpay(row, a))
  <2> DEFINE rest == IF row.paid > a THEN row.paid - a ELSE 0
             x == [row EXCEPT !.paid = rest]
             y == UpdatePaymentStatus(x)
  <2>1. x \in Invoice /\ x.st = row.st /\ x.total = row.total /\ x.paid = rest /\ rest \in Nat
    BY <1>0 DEF Invoice
  <2>2. /\ y.total = row.total /\ y.paid = rest
        /\ y.st = IF rest >= row.total /\ row.total > 0 THEN "paid"
                  ELSE IF rest > 0 THEN "partially_paid" ELSE row.st
    <3> HIDE DEF x, rest
    <3> QED BY <1>1, <2>1
  <2>3. y \in Invoice
    <3> HIDE DEF x
    <3> QED BY <2>1, PaymentTypes
  <2>4. Unpay(row, a) =
           IF y.st = "paid" /\ y.paid < y.total
           THEN [y EXCEPT !.st = IF y.paid > 0 THEN "partially_paid" ELSE "sent"] ELSE y
    BY DEF Unpay
  <2>5. CASE y.st = "paid" /\ y.paid < y.total
    <3> DEFINE z == [y EXCEPT !.st = IF y.paid > 0 THEN "partially_paid" ELSE "sent"]
    <3>1. z.st \in {"partially_paid", "sent"} /\ z.total = y.total /\ z.paid = y.paid
      <4> HIDE DEF y
      <4> QED BY <2>3 DEF Invoice
    <3>2. Unpay(row, a) = z
      BY <2>4, <2>5
    <3> HIDE DEF y, z
    <3> QED BY <2>5, <3>1, <3>2 DEF RowOK
  <2>6. CASE ~(y.st = "paid" /\ y.paid < y.total)
    <3>1. Unpay(row, a) = y
      BY <2>4, <2>6
    <3> HIDE DEF y
    <3>2. rest > 0 \/ rest = 0
      BY <2>1
    <3> HIDE DEF rest
    <3> QED BY <1>0, <2>1, <2>2, <2>6, <3>1, <3>2 DEF RowOK
  <2> QED BY <2>5, <2>6
<1> QED BY <1>2, <1>3

LEMMA EmptyCopies == CopiesOK(Idle)
  BY DEF CopiesOK, RowOK, Idle, NoInvoice, NoSnap

LEMMA RowInvStep ==
    ASSUME RowInv, NEW w \in Workers,
           \A v \in Workers \ {w} : req'[v] = req[v],
           CopiesOK(req'[w]), \A i \in Invoices : RowOK(inv'[i])
    PROVE  RowInv'
  BY DEF RowInv

\* Saving one row.
LEMMA SaveRow ==
    ASSUME TypeInv, RowInv, NEW i \in Invoices, NEW row, RowOK(row),
           inv' = [inv EXCEPT ![i] = row]
    PROVE  \A k \in Invoices : RowOK(inv'[k])
<1>1. ASSUME NEW k \in Invoices PROVE inv'[k] = IF k = i THEN row ELSE inv[k]
  BY DEF TypeInv, TypeOK
<1> QED BY <1>1 DEF RowInv

LEMMA StartRows ==
    ASSUME TypeInv, RowInv, NEW w \in Workers, Start(w)
    PROVE  RowInv'
<1>t. TypeOK
  BY DEF TypeInv
\* A request that begins without invoices of its own.
<1>1. ASSUME \A v \in Workers \ {w} : req'[v] = req[v], inv' = inv,
             req'[w].copy = NoInvoice, req'[w].snap = NoSnap,
             req'[w].pc \notin {"header", "lines", "totals"}
      PROVE  RowInv'
  <2>1. CopiesOK(req'[w])
    BY <1>1 DEF CopiesOK, RowOK, NoInvoice, NoSnap
  <2> QED BY <1>1, <2>1 DEF RowInv
<1>2. CASE CreateInvoice(w)
  <2> DEFINE row == [NoInvoice EXCEPT !.st = "draft"]
  <2>1. PICK i \in Invoices, a \in Totals :
           /\ inv' = [inv EXCEPT ![i] = row]
           /\ req' = [req EXCEPT ![w] = [Idle EXCEPT !.op = "create_invoice", !.pc = "lines",
                         !.i = i, !.copy = row, !.amt = a]]
    BY <1>2 DEF CreateInvoice
  <2>2. row.st = "draft" /\ RowOK(row)
    BY DEF NoInvoice, RowOK
  <2>3. req'[w].copy = row /\ req'[w].snap = NoSnap
    BY <1>t, <2>1 DEF TypeOK, Idle
  <2>4. CopiesOK(req'[w])
    BY <2>2, <2>3 DEF CopiesOK, RowOK, NoSnap, NoInvoice
  <2>5. \A v \in Workers \ {w} : req'[v] = req[v]
    BY <1>t, <2>1 DEF TypeOK
  <2>6. \A k \in Invoices : RowOK(inv'[k])
    <3> HIDE DEF row
    <3> QED BY <2>1, <2>2, SaveRow
  <2> QED BY <2>4, <2>5, <2>6, RowInvStep
<1>3. CASE CreateReceipt(w)
  <2>1. PICK r \in Receipts, a \in Amounts, p \in Periods, due \in [Invoices -> Amounts \cup {0}] :
           /\ MayStart(w, "create_receipt", r, {})
           /\ rcpt[r].st = "none"
           /\ ~closed[p]
           /\ due # NoAmounts
           /\ \A i \in Invoices : due[i] > 0 => inv[i].st # "none"
           /\ rcpt' = [rcpt EXCEPT ![r] = [st |-> "draft", amt |-> a, per |-> p]]
           /\ req' = [req EXCEPT ![w] = [Idle EXCEPT !.op = "create_receipt",
                                   !.pc = "allocate", !.r = r, !.due = due]]
    BY <1>3, Zenon DEF CreateReceipt
  <2>2. /\ req'[w].copy = NoInvoice /\ req'[w].snap = NoSnap /\ req'[w].pc = "allocate"
        /\ \A v \in Workers \ {w} : req'[v] = req[v]
    BY <1>t, <2>1 DEF TypeOK, Idle
  <2> QED BY <1>1, <1>3, <2>2 DEF CreateReceipt
<1>4. ASSUME NEW i \in Invoices, EditInvoice(w, i) PROVE RowInv'
  <2>1. PICK a \in Totals :
           req' = [req EXCEPT ![w] = [Idle EXCEPT !.op = "edit", !.pc = "header", !.i = i,
                                                  !.copy = inv[i], !.amt = a]]
    BY <1>4 DEF EditInvoice
  <2>2. /\ req'[w].copy = inv[i] /\ req'[w].snap = NoSnap
        /\ \A v \in Workers \ {w} : req'[v] = req[v]
    BY <1>t, <2>1 DEF TypeOK, Idle
  <2>3. inv[i].st = "draft" /\ inv' = inv
    BY <1>4 DEF EditInvoice, tables
  <2>4. CopiesOK(req'[w])
    BY <2>2, <2>3 DEF CopiesOK, RowOK, NoSnap, NoInvoice
  <2> QED BY <2>2, <2>3, <2>4 DEF RowInv
<1>5. ASSUME NEW i \in Invoices, NEW op \in WorkflowOps, ChangeInvoice(w, i, op)
      PROVE  RowInv'
  <2> DEFINE row == [inv[i] EXCEPT !.st = NewStatus(op)]
             label == IF op = "approve" THEN "approval_row" ELSE "update"
  <2>1. req' = [req EXCEPT ![w] = [Idle EXCEPT !.op = op, !.i = i, !.pc = label, !.copy = row]]
    BY <1>5 DEF ChangeInvoice
  <2>2. row.st \notin {"paid", "partially_paid"}
    BY <1>t, NewStatusType DEF TypeOK, Invoice
  <2>3. /\ req'[w].copy = row /\ req'[w].snap = NoSnap
        /\ req'[w].pc \in {"approval_row", "update"}
        /\ \A v \in Workers \ {w} : req'[v] = req[v]
    <3> HIDE DEF row
    <3> QED BY <1>t, <2>1 DEF TypeOK, Idle
  <2>4. CopiesOK(req'[w])
    <3> HIDE DEF row
    <3> QED BY <2>2, <2>3 DEF CopiesOK, RowOK, NoSnap, NoInvoice
  <2>5. inv' = inv
    BY <1>5 DEF ChangeInvoice, tables
  <2> QED BY <2>3, <2>4, <2>5 DEF RowInv
<1>6. ASSUME NEW r \in Receipts, NEW op \in {"complete", "void"}, MoveReceipt(w, r, op)
      PROVE  RowInv'
  <2>1. /\ req'[w].copy = NoInvoice /\ req'[w].snap = NoSnap /\ req'[w].pc \in {"bank", "ar"}
        /\ \A v \in Workers \ {w} : req'[v] = req[v]
    BY <1>t, <1>6 DEF MoveReceipt, TypeOK, Idle
  <2> QED BY <1>1, <1>6, <2>1 DEF MoveReceipt, tables
<1>7. ASSUME NEW r \in Receipts, AutoMatch(w, r) PROVE RowInv'
  <2>1. /\ req'[w].copy = NoInvoice /\ req'[w].snap = NoSnap /\ req'[w].pc = "find_open"
        /\ \A v \in Workers \ {w} : req'[v] = req[v]
    BY <1>t, <1>7 DEF AutoMatch, TypeOK, Idle
  <2> QED BY <1>1, <1>7, <2>1 DEF AutoMatch, tables
<1> QED
  BY <1>2, <1>3, <1>4, <1>5, <1>6, <1>7 DEF Start

LEMMA DealtRows ==
    ASSUME TypeInv, RowInv, NEW w \in Workers,
           req[w].pc \notin {"header", "lines", "totals"},
           AfterAllocations(w) \/ \E i \in Invoices : Dealt(w, i)
    PROVE  (\A v \in Workers \ {w} : req'[v] = req[v]) /\ CopiesOK(req'[w])
<1>t. TypeOK
  BY DEF TypeInv
<1>1. ASSUME Finish(w)
      PROVE  (\A v \in Workers \ {w} : req'[v] = req[v]) /\ CopiesOK(req'[w])
  BY <1>t, <1>1, EmptyCopies DEF Finish, TypeOK
<1>2. ASSUME AfterAllocations(w), req[w].op = "void"
      PROVE  (\A v \in Workers \ {w} : req'[v] = req[v]) /\ CopiesOK(req'[w])
  <2>1. req' = [req EXCEPT ![w] = [req[w] EXCEPT !.due = NoAmounts, !.pc = "save_receipt"]]
    BY <1>2 DEF AfterAllocations
  <2>2. /\ req'[w].copy = req[w].copy /\ req'[w].snap = req[w].snap
        /\ req'[w].pc = "save_receipt" /\ \A v \in Workers \ {w} : req'[v] = req[v]
    BY <1>t, <2>1 DEF TypeOK, Request
  <2> QED BY <2>2 DEF CopiesOK, RowInv
<1>3. ASSUME NEW i \in Invoices, req' = [req EXCEPT ![w].due[i] = 0]
      PROVE  (\A v \in Workers \ {w} : req'[v] = req[v]) /\ CopiesOK(req'[w])
  <2>1. req' = [req EXCEPT ![w] = [req[w] EXCEPT !.due = [req[w].due EXCEPT ![i] = 0]]]
    BY <1>3
  <2>2. /\ req'[w].copy = req[w].copy /\ req'[w].snap = req[w].snap
        /\ req'[w].pc = req[w].pc /\ \A v \in Workers \ {w} : req'[v] = req[v]
    BY <1>t, <2>1 DEF TypeOK, Request
  <2> QED BY <2>2 DEF CopiesOK, RowInv
<1> QED
  BY <1>1, <1>2, <1>3 DEF AfterAllocations, Dealt

LEMMA ContinueRows ==
    ASSUME TypeInv, RowInv, NEW w \in Workers, Continue(w)
    PROVE  RowInv'
<1> DEFINE q == req[w]
<1>t. TypeOK
  BY DEF TypeInv
<1>c. CopiesOK(q)
  BY DEF RowInv
\* A statement that saves no invoice.
<1>1. ASSUME inv' = inv, \A v \in Workers \ {w} : req'[v] = req[v], CopiesOK(req'[w])
      PROVE  RowInv'
  BY <1>1, RowInvStep DEF RowInv
<1>2. ASSUME Finish(w)
      PROVE  (\A v \in Workers \ {w} : req'[v] = req[v]) /\ CopiesOK(req'[w])
  BY <1>t, <1>2, EmptyCopies DEF Finish, TypeOK
<1>3. ASSUME NEW label \in Labels, Goto(w, label),
             label \in {"header", "lines", "totals"} => q.copy.st = "draft"
      PROVE  (\A v \in Workers \ {w} : req'[v] = req[v]) /\ CopiesOK(req'[w])
  <2>1. /\ req'[w].copy = q.copy /\ req'[w].snap = q.snap /\ req'[w].pc = label
        /\ \A v \in Workers \ {w} : req'[v] = req[v]
    BY <1>t, <1>3 DEF Goto, TypeOK, Request
  <2> QED BY <1>3, <1>c, <2>1 DEF CopiesOK
<1>4. CASE SaveHeader(w)
  <2>1. q.i \in Invoices /\ q.copy.st = "draft"
    BY <1>4, <1>c, LocalTypes DEF SaveHeader, At, Placed, InvoiceLabels, CopiesOK
  <2>2. \A k \in Invoices : RowOK(inv'[k])
    BY <1>4, <1>c, <2>1, SaveRow DEF SaveHeader, CopiesOK
  <2>3. (\A v \in Workers \ {w} : req'[v] = req[v]) /\ CopiesOK(req'[w])
    BY <1>3, <1>4, <2>1 DEF SaveHeader, Labels
  <2> QED BY <2>2, <2>3, RowInvStep
<1>5. CASE SaveLines(w)
  <2>1. q.copy.st = "draft"
    BY <1>5, <1>c DEF SaveLines, At, CopiesOK
  <2> QED BY <1>1, <1>3, <1>5, <2>1 DEF SaveLines, Labels
<1>6. CASE UpdateTotals(w)
  <2> DEFINE next == [q EXCEPT !.pc = "update", !.copy = [q.copy EXCEPT !.total = lines[q.i]]]
  <2>1. req' = [req EXCEPT ![w] = next]
    BY <1>6 DEF UpdateTotals
  <2>2. q.copy.st = "draft" /\ q.copy \in Invoice
    BY <1>6, <1>c, LocalTypes DEF UpdateTotals, At, CopiesOK
  <2>3. /\ req'[w].copy.st = "draft" /\ req'[w].snap = q.snap /\ req'[w].pc = "update"
        /\ \A v \in Workers \ {w} : req'[v] = req[v]
    BY <1>t, <2>1, <2>2 DEF TypeOK, Request, Invoice
  <2>4. CopiesOK(req'[w])
    BY <1>c, <2>3 DEF CopiesOK, RowOK
  <2> QED BY <1>1, <1>6, <2>3, <2>4 DEF UpdateTotals, tables
<1>7. CASE UpdateInvoice(w)
  <2>1. q.i \in Invoices
    BY <1>7, LocalTypes DEF UpdateInvoice, At, Placed, InvoiceLabels
  <2>2. \A k \in Invoices : RowOK(inv'[k])
    BY <1>7, <1>c, <2>1, SaveRow DEF UpdateInvoice, CopiesOK
  <2> QED BY <1>2, <1>7, <2>2, RowInvStep DEF UpdateInvoice
<1>8. CASE SaveApproval(w)
  BY <1>1, <1>3, <1>8 DEF SaveApproval, Labels
<1>9. CASE SaveAllocation(w)
  <2>1. PICK i \in Todo(w) : Dealt(w, i) \/ Finish(w)
    BY <1>9 DEF SaveAllocation
  <2>2. i \in Invoices /\ q.pc = "allocate"
    BY <1>9 DEF Todo, SaveAllocation, At
  <2>3. (\A v \in Workers \ {w} : req'[v] = req[v]) /\ CopiesOK(req'[w])
    BY <1>2, <2>1, <2>2, DealtRows
  <2> QED BY <1>1, <1>9, <2>3 DEF SaveAllocation
<1>10. ASSUME NEW leg \in Legs, SaveLeg(w, leg) PROVE RowInv'
  <2>1. q.pc = leg /\ q.op \in {"complete", "void"}
    BY <1>10, LocalTypes DEF SaveLeg, At, Placed, Legs
  <2>2. AfterLeg(q.op, leg) \in {"bank", "ar", "save_receipt", "load"}
    BY <2>1 DEF AfterLeg, Legs
  <2> QED BY <1>1, <1>3, <1>10, <2>2 DEF SaveLeg, Labels
<1>11. CASE SaveReceipt(w)
  <2>1. (\A v \in Workers \ {w} : req'[v] = req[v]) /\ CopiesOK(req'[w])
    BY <1>2, <1>3, <1>11 DEF SaveReceipt, Labels
  <2> QED BY <1>1, <1>11, <2>1 DEF SaveReceipt
<1>12. CASE LoadAllocations(w)
  <2> DEFINE next == [q EXCEPT !.pc = "apply", !.due = alloc[q.r], !.snap = inv]
  <2>1. AfterAllocations(w) \/ req' = [req EXCEPT ![w] = next]
    BY <1>12 DEF LoadAllocations
  <2>2. ASSUME req' = [req EXCEPT ![w] = next]
        PROVE  (\A v \in Workers \ {w} : req'[v] = req[v]) /\ CopiesOK(req'[w])
    <3>1. /\ req'[w].copy = q.copy /\ req'[w].snap = inv /\ req'[w].pc = "apply"
          /\ \A v \in Workers \ {w} : req'[v] = req[v]
      BY <1>t, <2>2 DEF TypeOK, Request
    <3> QED BY <1>c, <3>1 DEF CopiesOK, RowInv
  <2>3. q.pc = "load"
    BY <1>12 DEF LoadAllocations, At
  <2> QED BY <1>1, <1>12, <2>1, <2>2, <2>3, DealtRows DEF LoadAllocations, tables
<1>13. CASE ApplyAllocation(w)
  <2>1. PICK i \in Todo(w) :
           /\ inv' = [inv EXCEPT ![i] = IF q.op = "complete" THEN Pay(q.snap[i], q.due[i])
                                                             ELSE Unpay(q.snap[i], q.due[i])]
           /\ Dealt(w, i)
    BY <1>13 DEF ApplyAllocation
  <2>2. /\ i \in Invoices /\ q.snap[i] \in Invoice /\ q.due[i] \in Nat /\ q.pc = "apply"
        /\ RowOK(q.snap[i])
    BY <1>13, <1>c, LocalTypes DEF Todo, ApplyAllocation, At, CopiesOK
  <2>3. RowOK(Pay(q.snap[i], q.due[i])) /\ RowOK(Unpay(q.snap[i], q.due[i]))
    BY <2>2, PaymentKeepsRows
  <2>4. \A k \in Invoices : RowOK(inv'[k])
    BY <2>1, <2>2, <2>3, SaveRow
  <2> QED BY <2>1, <2>2, <2>4, DealtRows, RowInvStep
<1>14. CASE FindOpenInvoices(w)
  <2>1. PICK due \in [Invoices -> 0..q.rec.amt] :
           \/ Finish(w)
           \/ req' = [req EXCEPT ![w] = [q EXCEPT !.pc = "allocate", !.due = due]]
    BY <1>14 DEF FindOpenInvoices
  <2>2. ASSUME req' = [req EXCEPT ![w] = [q EXCEPT !.pc = "allocate", !.due = due]]
        PROVE  (\A v \in Workers \ {w} : req'[v] = req[v]) /\ CopiesOK(req'[w])
    <3>1. /\ req'[w].copy = q.copy /\ req'[w].snap = q.snap /\ req'[w].pc = "allocate"
          /\ \A v \in Workers \ {w} : req'[v] = req[v]
      BY <1>t, <2>2 DEF TypeOK, Request
    <3> QED BY <1>c, <3>1 DEF CopiesOK
  <2> QED BY <1>1, <1>2, <1>14, <2>1, <2>2 DEF FindOpenInvoices, tables
<1> QED
  BY <1>4, <1>5, <1>6, <1>7, <1>8, <1>9, <1>10, <1>11, <1>12, <1>13, <1>14
     DEF Continue, Legs

LEMMA NextRows == TypeInv /\ RowInv /\ [Next]_vars => RowInv'
<1> SUFFICES ASSUME TypeInv, RowInv, [Next]_vars PROVE RowInv'
  OBVIOUS
<1>1. ASSUME NEW w \in Workers, Crash(w) PROVE RowInv'
  <2>1. (\A v \in Workers \ {w} : req'[v] = req[v]) /\ CopiesOK(req'[w])
    BY <1>1, EmptyCopies DEF Crash, Finish, TypeInv, TypeOK
  <2> QED BY <1>1, <2>1 DEF Crash, tables, RowInv
<1>2. CASE \E p \in Periods : ClosePeriod(p) \/ ReopenPeriod(p)
  BY <1>2 DEF ClosePeriod, ReopenPeriod, RowInv
<1>3. CASE UNCHANGED vars
  BY <1>3 DEF vars, RowInv
<1> QED
  BY <1>1, <1>2, <1>3, StartRows, ContinueRows DEF Next

\* No overlap of edits, workflow steps, completions and voidings, each of which saves a
\* whole row from its own copy, makes an invoice paid that its payments do not cover or
\* partially paid although they do.
THEOREM StatusFits == Spec => []StatusFitsAmounts
<1>1. Init => RowInv
  BY EmptyCopies DEF Init, RowInv, RowOK, NoSnap, NoInvoice
<1>2. RowInv => StatusFitsAmounts
  BY DEF RowInv, RowOK, StatusFitsAmounts
<1> QED BY <1>1, <1>2, NextRows, TypesHold, PTL DEF Spec

-----------------------------------------------------------------------------
(* The journal lines of receipts: the two lines of an entry agree whatever     *)
(* overlaps, and each receipt is posted exactly once, and reversed exactly     *)
(* once, if it is worked on in one place at a time.                            *)

ReceiptsApart == "receipt" \in Careful

-----------------------------------------------------------------------------
(* What a step of one worker does to its receipt and to the ledger.            *)

Others(w) == \A v \in Workers \ {w} : req'[v] = req[v]

Keeps(w) == req'[w].op = req[w].op /\ req'[w].r = req[w].r

\* A request is taken, about a receipt unless req'[w].r = 0; only receipt_create
\* writes then.
Takes(w) ==
    LET op == req'[w].op
        pc == req'[w].pc
        r == req'[w].r
    IN  /\ req[w].pc = "idle"
        /\ gl' = gl /\ crashes' = crashes
        /\ \/ r = 0 /\ pc \notin MoveLabels /\ rcpt' = rcpt
           \/ /\ r \in Receipts
              /\ "receipt" \in Careful => \A v \in Workers : req[v].r # r
              /\ \/ /\ pc = "allocate" /\ rcpt[r].st = "none"
                    /\ rcpt'[r].st = "draft"
                    /\ \A s \in Receipts \ {r} : rcpt'[s] = rcpt[s]
                 \/ pc = "find_open" /\ rcpt' = rcpt
                 \/ op = "complete" /\ pc = "bank" /\ rcpt[r].st = "draft" /\ rcpt' = rcpt
                 \/ op = "void" /\ pc = "ar" /\ rcpt[r].st = "completed" /\ rcpt' = rcpt

\* A statement about an invoice or an allocation.
Elsewhere(w) ==
    /\ req[w].pc \notin MoveLabels /\ req'[w].pc \notin MoveLabels /\ Keeps(w)
    /\ rcpt' = rcpt /\ gl' = gl /\ crashes' = crashes

\* The loop over a receipt's allocations, after the entry is written.
Walks(w) ==
    /\ req[w].pc \in {"load", "apply"} /\ Keeps(w)
    /\ \/ req'[w].pc = "apply"
       \/ req'[w].pc = "save_receipt" /\ req[w].op = "void"
    /\ rcpt' = rcpt /\ gl' = gl /\ crashes' = crashes

\* The request ends; in the middle of its entry only with a crash.
Ends(w) ==
    /\ req'[w] = Idle
    /\ \/ crashes' = crashes + 1
       \/ crashes' = crashes /\ req[w].pc \notin MoveLabels
       \/ crashes' = crashes /\ req[w].pc \in {"load", "apply"} /\ req[w].op = "complete"
    /\ rcpt' = rcpt /\ gl' = gl

PostsLine(w) ==
    LET q == req[w] IN
    /\ q.pc \in Legs /\ q.op \in {"complete", "void"} /\ Keeps(w)
    /\ req'[w].pc = AfterLeg(q.op, q.pc)
    /\ \A r \in Receipts, e \in Entries, l \in Legs :
          gl'[r][e][l] = IF r = q.r /\ e = EntryOf(q.op) /\ l = q.pc
                         THEN gl[r][e][l] + rcpt[q.r].amt ELSE gl[r][e][l]
    /\ rcpt' = rcpt /\ crashes' = crashes

SetsReceipt(w) ==
    LET q == req[w] IN
    /\ q.pc = "save_receipt" /\ gl' = gl /\ crashes' = crashes
    /\ rcpt'[q.r].amt = rcpt[q.r].amt
    /\ \A s \in Receipts \ {q.r} : rcpt'[s] = rcpt[s]
    /\ \/ /\ q.op = "complete" /\ rcpt'[q.r].st = "completed"
          /\ Keeps(w) /\ req'[w].pc = "load"
       \/ /\ q.op = "void" /\ rcpt'[q.r].st = "void"
          /\ req'[w] = Idle

Effect(w) ==
    Takes(w) \/ Elsewhere(w) \/ Walks(w) \/ Ends(w) \/ PostsLine(w) \/ SetsReceipt(w)

LEMMA StartEffect ==
    ASSUME TypeInv, NEW w \in Workers, Start(w)
    PROVE  Others(w) /\ Takes(w)
<1> USE DEF MoveLabels
<1>t. req \in [Workers -> Request] /\ rcpt \in [Receipts -> Receipt]
  BY DEF TypeInv, TypeOK
<1>z. \A r \in Receipts : r # 0
  BY ReceivablesAssumption
<1>1. CASE CreateInvoice(w)
  BY <1>t, <1>1 DEF CreateInvoice, MayStart, Busy, Others, Takes, Idle
<1>2. ASSUME NEW i \in Invoices, EditInvoice(w, i) PROVE Others(w) /\ Takes(w)
  BY <1>t, <1>2 DEF EditInvoice, MayStart, Busy, Others, Takes, Idle, tables
<1>3. ASSUME NEW i \in Invoices, NEW op \in WorkflowOps, ChangeInvoice(w, i, op)
      PROVE  Others(w) /\ Takes(w)
  <2>1. PICK label \in {"approval_row", "update"} :
           req' = [req EXCEPT ![w] = [Idle EXCEPT !.op = op, !.i = i, !.pc = label,
                                        !.copy = [inv[i] EXCEPT !.st = NewStatus(op)]]]
    BY <1>3 DEF ChangeInvoice
  <2>2. Others(w) /\ req'[w].r = 0 /\ req'[w].pc = label
    BY <1>t, <2>1 DEF Others, Idle
  <2> QED BY <1>3, <2>2 DEF ChangeInvoice, MayStart, Busy, Takes, tables
<1>4. CASE CreateReceipt(w)
  <2>1. PICK r \in Receipts, a \in Amounts, p \in Periods, due \in [Invoices -> Amounts \cup {0}] :
          /\ MayStart(w, "create_receipt", r, {})
          /\ rcpt[r].st = "none"
          /\ ~closed[p]
          /\ due # NoAmounts
          /\ \A i \in Invoices : due[i] > 0 => inv[i].st # "none"
          /\ rcpt' = [rcpt EXCEPT ![r] = [st |-> "draft", amt |-> a, per |-> p]]
          /\ req' = [req EXCEPT ![w] = [Idle EXCEPT !.op = "create_receipt",
                                  !.pc = "allocate", !.r = r, !.due = due]]
    BY <1>4, Zenon DEF CreateReceipt
  <2>2. Others(w) /\ req'[w].pc = "allocate" /\ req'[w].r = r
    BY <1>t, <2>1 DEF Others, Idle
  <2>3. rcpt'[r].st = "draft" /\ \A s \in Receipts \ {r} : rcpt'[s] = rcpt[s]
    BY <1>t, <2>1
  <2> QED BY <1>z, <1>4, <2>1, <2>2, <2>3 DEF CreateReceipt, MayStart, Busy, Takes
<1>5. ASSUME NEW r \in Receipts, NEW op \in {"complete", "void"}, MoveReceipt(w, r, op)
      PROVE  Others(w) /\ Takes(w)
  <2>1. PICK label : /\ label = IF op = "complete" THEN "bank" ELSE "ar"
                     /\ req' = [req EXCEPT ![w] = [Idle EXCEPT !.op = op, !.r = r,
                                                     !.rec = rcpt[r], !.pc = label]]
    BY <1>5 DEF MoveReceipt
  <2>2. Others(w) /\ req'[w].pc = label /\ req'[w].r = r /\ req'[w].op = op
    BY <1>t, <2>1 DEF Others, Idle
  <2> QED BY <1>z, <1>5, <2>1, <2>2 DEF MoveReceipt, MayMove, MayStart, Busy, Takes, tables
<1>6. ASSUME NEW r \in Receipts, AutoMatch(w, r) PROVE Others(w) /\ Takes(w)
  <2>1. Others(w) /\ req'[w].pc = "find_open" /\ req'[w].r = r
    BY <1>t, <1>6 DEF AutoMatch, Others, Idle
  <2> QED BY <1>z, <1>6, <2>1 DEF AutoMatch, MayStart, Busy, Takes, tables
<1> QED BY <1>1, <1>2, <1>3, <1>4, <1>5, <1>6 DEF Start

\* The request ends, or keeps its receipt, after each allocation it has dealt with.
LEMMA DealtEffect ==
    ASSUME TypeInv, PostInv, NEW w \in Workers,
           req[w].pc \in {"load", "apply", "allocate"},
           AfterAllocations(w) \/ \E i \in Invoices : Dealt(w, i)
    PROVE  /\ Others(w)
           /\ \/ req'[w] = Idle /\ req[w].op # "void"
              \/ Keeps(w) /\ req'[w].pc = req[w].pc /\ ~AfterAllocations(w)
              \/ Keeps(w) /\ req'[w].pc = "save_receipt" /\ req[w].op = "void"
<1>t. req \in [Workers -> Request]
  BY DEF TypeInv, TypeOK
<1>1. CASE AfterAllocations(w) /\ req[w].op = "void"
  BY <1>t, <1>1 DEF AfterAllocations, Others, Keeps, Request
<1>2. CASE AfterAllocations(w) /\ req[w].op # "void"
  BY <1>t, <1>2 DEF AfterAllocations, Finish, Others
<1>3. ASSUME NEW i \in Invoices, req' = [req EXCEPT ![w].due[i] = 0], ~AfterAllocations(w)
      PROVE  Others(w) /\ Keeps(w) /\ req'[w].pc = req[w].pc
  BY <1>t, <1>3 DEF Others, Keeps, Request
<1> QED BY <1>1, <1>2, <1>3 DEF Dealt

LEMMA ContinueEffect ==
    ASSUME TypeInv, PostInv, NEW w \in Workers, Continue(w)
    PROVE  Others(w) /\ Effect(w)
<1> USE DEF MoveLabels
<1> DEFINE q == req[w]
<1>t. req \in [Workers -> Request] /\ rcpt \in [Receipts -> Receipt] /\ TypeOK
  BY DEF TypeInv, TypeOK
<1>p. PostOK(q, rcpt, gl) /\ Placed(q) /\ q.rec \in Receipt
  BY LocalTypes DEF PostInv
<1>1. CASE SaveHeader(w) \/ SaveLines(w) \/ UpdateTotals(w) \/ SaveApproval(w)
  <2>1. Others(w) /\ Keeps(w) /\ req'[w].pc \in {"lines", "totals", "update"}
    BY <1>t, <1>1 DEF SaveHeader, SaveLines, UpdateTotals, SaveApproval, Goto, Request,
       Others, Keeps
  <2>2. rcpt' = rcpt /\ gl' = gl /\ crashes' = crashes /\ q.pc \notin MoveLabels
    BY <1>1 DEF SaveHeader, SaveLines, UpdateTotals, SaveApproval, tables, At
  <2> QED BY <2>1, <2>2 DEF Elsewhere, Effect
<1>2. CASE UpdateInvoice(w)
  BY <1>t, <1>2 DEF UpdateInvoice, At, Finish, Others, Ends, Effect
<1>3. CASE SaveAllocation(w)
  <2>1. PICK i \in Todo(w) : Dealt(w, i) \/ Finish(w)
    BY <1>3 DEF SaveAllocation
  <2>2. /\ q.pc = "allocate" /\ q.op # "void" /\ i \in Invoices
        /\ rcpt' = rcpt /\ gl' = gl /\ crashes' = crashes
    BY <1>3, <1>p DEF SaveAllocation, At, PostOK, Todo
  <2>3. CASE Finish(w)
    BY <1>t, <2>2, <2>3 DEF Finish, Others, Ends, Effect
  <2>4. CASE Dealt(w, i)
    BY <2>2, <2>4, DealtEffect DEF Ends, Elsewhere, Effect
  <2> QED BY <2>1, <2>3, <2>4
<1>4. CASE FindOpenInvoices(w)
  <2>1. PICK due \in [Invoices -> 0..q.rec.amt] :
           \/ Finish(w)
           \/ req' = [req EXCEPT ![w] = [q EXCEPT !.pc = "allocate", !.due = due]]
    BY <1>4 DEF FindOpenInvoices
  <2>2. q.pc = "find_open" /\ rcpt' = rcpt /\ gl' = gl /\ crashes' = crashes
    BY <1>4 DEF FindOpenInvoices, At, tables
  <2>3. CASE Finish(w)
    BY <1>t, <2>2, <2>3 DEF Finish, Others, Ends, Effect
  <2>4. CASE req' = [req EXCEPT ![w] = [q EXCEPT !.pc = "allocate", !.due = due]]
    <3>1. Others(w) /\ Keeps(w) /\ req'[w].pc = "allocate"
      BY <1>t, <2>4 DEF Others, Keeps, Request
    <3> QED BY <2>2, <3>1 DEF Elsewhere, Effect
  <2> QED BY <2>1, <2>3, <2>4
<1>5. CASE LoadAllocations(w)
  <2>1. /\ q.pc = "load" /\ q.op \in {"complete", "void"}
        /\ rcpt' = rcpt /\ gl' = gl /\ crashes' = crashes
    BY <1>p, <1>5 DEF LoadAllocations, At, tables, PostOK
  <2>2. CASE AfterAllocations(w)
    BY <2>1, <2>2, DealtEffect DEF Ends, Walks, Effect
  <2>3. CASE ~AfterAllocations(w)
    <3>1. req' = [req EXCEPT ![w].pc = "apply", ![w].due = alloc[q.r], ![w].snap = inv]
      BY <1>5, <2>3 DEF LoadAllocations
    <3>2. Others(w) /\ Keeps(w) /\ req'[w].pc = "apply"
      BY <1>t, <3>1 DEF Others, Keeps, Request
    <3> QED BY <2>1, <3>2 DEF Walks, Effect
  <2> QED BY <2>2, <2>3
<1>6. CASE ApplyAllocation(w)
  <2>1. PICK i \in Todo(w) : Dealt(w, i)
    BY <1>6 DEF ApplyAllocation
  <2>2. /\ q.pc = "apply" /\ q.op \in {"complete", "void"} /\ i \in Invoices
        /\ rcpt' = rcpt /\ gl' = gl /\ crashes' = crashes
    BY <1>p, <1>6 DEF ApplyAllocation, At, PostOK, Todo
  <2> QED BY <2>1, <2>2, DealtEffect DEF Ends, Walks, Effect
<1>7. ASSUME NEW leg \in Legs, SaveLeg(w, leg) PROVE Others(w) /\ Effect(w)
  <2>1. /\ q.pc = leg /\ q.op \in {"complete", "void"} /\ q.r \in Receipts
        /\ q.rec.amt = rcpt[q.r].amt
    BY <1>p, <1>7 DEF SaveLeg, At, Placed, Legs, PostOK
  <2>2. Others(w) /\ Keeps(w) /\ req'[w].pc = AfterLeg(q.op, q.pc)
    BY <1>t, <1>7, <2>1 DEF SaveLeg, Goto, Others, Keeps, Request
  <2>3. PICK e0 \in Entries : e0 = EntryOf(q.op)
    BY DEF EntryOf, Entries
  <2>4. gl' = [gl EXCEPT ![q.r][e0][leg] = @ + q.rec.amt]
    BY <1>7, <2>3 DEF SaveLeg
  <2>5. \A r \in Receipts, e \in Entries, l \in Legs :
           gl'[r][e][l] = IF r = q.r /\ e = e0 /\ l = leg
                          THEN gl[r][e][l] + q.rec.amt ELSE gl[r][e][l]
    <3> HIDE DEF q
    <3> QED BY <1>t, <2>1, <2>4 DEF TypeOK
  <2>6. PostsLine(w)
    <3>1. \A r \in Receipts, e \in Entries, l \in Legs :
             gl'[r][e][l] = IF r = q.r /\ e = EntryOf(q.op) /\ l = q.pc
                            THEN gl[r][e][l] + rcpt[q.r].amt ELSE gl[r][e][l]
      <4> HIDE DEF q
      <4> QED BY <2>1, <2>3, <2>5
    <3>2. rcpt' = rcpt /\ crashes' = crashes
      BY <1>7 DEF SaveLeg, tables
    <3> QED BY <1>7, <2>1, <2>2, <3>1, <3>2, Zenon DEF PostsLine
  <2> QED BY <2>2, <2>6 DEF Effect
<1>8. CASE SaveReceipt(w)
  <2>1. /\ q.pc = "save_receipt" /\ q.op \in {"complete", "void"} /\ q.r \in Receipts
        /\ q.rec.amt = rcpt[q.r].amt
    BY <1>p, <1>8 DEF SaveReceipt, At, Placed, PostOK
  <2>2. /\ rcpt'[q.r].st = IF q.op = "complete" THEN "completed" ELSE "void"
        /\ rcpt'[q.r].amt = q.rec.amt
        /\ \A s \in Receipts \ {q.r} : rcpt'[s] = rcpt[s]
    BY <1>t, <1>p, <1>8, <2>1 DEF SaveReceipt, Receipt
  <2>3. CASE q.op = "complete"
    <3>1. Others(w) /\ Keeps(w) /\ req'[w].pc = "load"
      BY <1>t, <1>8, <2>3 DEF SaveReceipt, Goto, Others, Keeps, Request
    <3> QED BY <1>8, <2>1, <2>2, <2>3, <3>1 DEF SaveReceipt, SetsReceipt, Effect
  <2>4. CASE q.op = "void"
    <3>1. Others(w) /\ req'[w] = Idle
      BY <1>t, <1>8, <2>4 DEF SaveReceipt, Finish, Others
    <3> QED BY <1>8, <2>1, <2>2, <2>4, <3>1 DEF SaveReceipt, SetsReceipt, Effect
  <2> QED BY <2>1, <2>3, <2>4
<1> QED
  BY <1>1, <1>2, <1>3, <1>4, <1>5, <1>6, <1>7, <1>8 DEF Continue, Legs

\* A step is a step of one worker, or writes neither receipts nor the ledger.
LEMMA NextEffect ==
    ASSUME TypeInv, PostInv, [Next]_vars
    PROVE  \/ \E w \in Workers : Others(w) /\ Effect(w)
           \/ UNCHANGED <<rcpt, gl, req, crashes>>
<1>1. ASSUME NEW w \in Workers, Crash(w) PROVE Others(w) /\ Effect(w)
  BY <1>1 DEF Crash, Finish, TypeInv, TypeOK, tables, Others, Ends, Effect
<1>2. ASSUME NEW w \in Workers, Start(w) PROVE Others(w) /\ Effect(w)
  BY <1>2, StartEffect DEF Effect
<1> QED BY <1>1, <1>2, ContinueEffect DEF Next, ClosePeriod, ReopenPeriod, vars

-----------------------------------------------------------------------------
(* The lines of an entry.  Every request posts the line First before the line     *)
(* Second, and both with the amount of the receipt, which never changes: First    *)
(* is ahead by that amount for every request between its two lines.  Nothing is   *)
(* assumed about requests that overlap.                                           *)

First(e) == IF e = "deposit" THEN "bank" ELSE "ar"
Second(e) == IF e = "deposit" THEN "ar" ELSE "bank"

\* A request that has posted the first line of entry e of receipt r, and not the second.
Between(q, r, e) ==
    /\ q.pc \in Legs /\ q.pc = Second(e)
    /\ q.op \in {"complete", "void"} /\ EntryOf(q.op) = e
    /\ q.r = r

Half(r, e) == {w \in Workers : Between(req[w], r, e)}

HalfAt(r, e) ==
    /\ IsFiniteSet(Half(r, e))
    /\ gl[r][e][First(e)] = gl[r][e][Second(e)] + Cardinality(Half(r, e)) * rcpt[r].amt

HalfInv == crashes = 0 => \A r \in Receipts, e \in Entries : HalfAt(r, e)

LEMMA Distributes ==
    \A n, a \in Nat : (n + 1) * a = n * a + a /\ n * a \in Nat /\ 0 * a = 0
OBVIOUS

\* A step that moves no request into or out of the middle of entry e of receipt r.
LEMMA HalfStays ==
    ASSUME TypeInv, PostInv, NEW r \in Receipts, NEW e \in Entries, HalfAt(r, e),
           NEW w \in Workers, Others(w),
           Between(req[w], r, e) <=> Between(req'[w], r, e),
           \A l \in Legs : gl'[r][e][l] = gl[r][e][l],
           rcpt[r].st # "none" => rcpt'[r].amt = rcpt[r].amt,
           TypeOK'
    PROVE  HalfAt(r, e)'
<1>1. \A v \in Workers : Between(req[v], r, e) <=> Between(req'[v], r, e)
  BY DEF Others
<1>2. PICK H : H = Half(r, e)
  OBVIOUS
<1>3. Half(r, e)' = H
  BY <1>1, <1>2 DEF Half
<1>4. First(e) \in Legs /\ Second(e) \in Legs
  BY DEF First, Second, Legs
<1>5. CASE H = {}
  <2>1. Cardinality(H) = 0
    BY <1>5, FS_EmptySet
  <2>2. rcpt[r].amt \in Nat /\ rcpt'[r].amt \in Nat
    BY DEF TypeInv, TypeOK, Receipt
  <2>3. 0 * rcpt[r].amt = 0 /\ 0 * rcpt'[r].amt = 0
    BY <2>2, Distributes
  <2> QED BY <1>2, <1>3, <1>4, <2>1, <2>3 DEF HalfAt
<1>6. CASE H # {}
  <2>1. PICK v \in Workers : Between(req[v], r, e)
    BY <1>2, <1>6 DEF Half
  <2>2. rcpt[r].st # "none"
    BY <2>1 DEF Between, PostInv, PostOK, MoveLabels, Legs
  <2> QED BY <1>2, <1>3, <1>4, <2>2 DEF HalfAt
<1> QED BY <1>5, <1>6

LEMMA HalfPosts ==
    ASSUME TypeInv, PostInv, NEW r \in Receipts, NEW e \in Entries, HalfAt(r, e),
           NEW w \in Workers, Others(w), PostsLine(w)
    PROVE  HalfAt(r, e)'
<1> DEFINE q == req[w]
<1>1. PICK H, n, a, f, s :
         H = Half(r, e) /\ n = Cardinality(H) /\ a = rcpt[r].amt
           /\ f = gl[r][e][First(e)] /\ s = gl[r][e][Second(e)]
  OBVIOUS
<1>2. n \in Nat /\ a \in Nat /\ f \in Nat /\ s \in Nat
  <2>1. First(e) \in Legs /\ Second(e) \in Legs
    BY DEF First, Second, Legs
  <2>2. IsFiniteSet(H)
    BY <1>1 DEF HalfAt
  <2>3. n \in Nat
    BY <1>1, <2>2, FS_CardinalityType
  <2> QED BY <1>1, <2>1, <2>3 DEF TypeInv, TypeOK, Receipt
<1>3. IsFiniteSet(H) /\ f = s + n * a
  BY <1>1 DEF HalfAt
<1>4. rcpt'[r].amt = a /\ First(e) \in Legs /\ Second(e) \in Legs /\ First(e) # Second(e)
  BY <1>1 DEF PostsLine, First, Second, Legs
<1>5. \A v \in Workers \ {w} : Between(req[v], r, e) <=> Between(req'[v], r, e)
  BY DEF Others
<1>6. Half(r, e)' = {v \in Workers : Between(req'[v], r, e)}
  BY DEF Half
<1>7. CASE q.r # r \/ e # EntryOf(q.op)
  <2>1. ~Between(req[w], r, e) /\ ~Between(req'[w], r, e)
    BY <1>7 DEF Between, PostsLine, Keeps
  <2>2. Half(r, e)' = H
    BY <1>1, <1>5, <1>6, <2>1 DEF Half
  <2>3. gl'[r][e][First(e)] = f /\ gl'[r][e][Second(e)] = s
    BY <1>1, <1>4, <1>7 DEF PostsLine
  <2> QED BY <1>1, <1>3, <1>4, <2>2, <2>3 DEF HalfAt
<1>8. CASE q.r = r /\ e = EntryOf(q.op) /\ q.pc = First(e)
  <2>1. q.op \in {"complete", "void"} /\ req'[w].pc = Second(e)
        /\ req'[w].op = q.op /\ req'[w].r = r
    BY <1>8 DEF PostsLine, AfterLeg, First, Second, EntryOf, Keeps
  <2>2. ~Between(req[w], r, e) /\ Between(req'[w], r, e)
    BY <1>4, <1>8, <2>1 DEF Between
  <2>3. Half(r, e)' = H \cup {w} /\ w \notin H
    BY <1>1, <1>5, <1>6, <2>2 DEF Half
  <2>4. IsFiniteSet(Half(r, e)') /\ Cardinality(Half(r, e)') = n + 1
    BY <1>1, <1>3, <2>3, FS_AddElement
  <2>5. gl'[r][e][First(e)] = f + a /\ gl'[r][e][Second(e)] = s
    BY <1>1, <1>4, <1>8 DEF PostsLine
  <2>6. f + a = s + (n + 1) * a
    BY <1>2, <1>3, Distributes
  <2> QED BY <1>4, <2>4, <2>5, <2>6 DEF HalfAt
<1>9. CASE q.r = r /\ e = EntryOf(q.op) /\ q.pc = Second(e)
  <2>1. q.op \in {"complete", "void"} /\ req'[w].pc # Second(e)
    BY <1>9 DEF PostsLine, AfterLeg, Second, EntryOf
  <2>2. Between(req[w], r, e) /\ ~Between(req'[w], r, e)
    BY <1>4, <1>9, <2>1 DEF Between
  <2>3. Half(r, e)' = H \ {w} /\ w \in H
    BY <1>1, <1>5, <1>6, <2>2 DEF Half
  <2>4. PICK K, m : K = Half(r, e)' /\ m = Cardinality(K)
    OBVIOUS
  <2>5. IsFiniteSet(K) /\ m = n - 1 /\ m \in Nat
    BY <1>1, <1>3, <2>3, <2>4, FS_RemoveElement, FS_CardinalityType
  <2>6. gl'[r][e][First(e)] = f /\ gl'[r][e][Second(e)] = s + a
    BY <1>1, <1>4, <1>9 DEF PostsLine
  <2>7. n = m + 1 /\ n * a = m * a + a /\ m * a \in Nat
    BY <1>2, <2>5, Distributes
  <2>8. f = s + a + m * a
    BY <1>2, <1>3, <2>7
  <2> QED BY <1>4, <2>4, <2>5, <2>6, <2>8 DEF HalfAt
<1> QED BY <1>7, <1>8, <1>9 DEF PostsLine, First, Second, Legs

\* Every line of every entry, at every moment of every overlap.
LEMMA HalfStep ==
    ASSUME TypeInv, TypeOK', PostInv, HalfInv, [Next]_vars
    PROVE  HalfInv'
<1> USE DEF MoveLabels
<1> SUFFICES ASSUME crashes' = 0, NEW r \in Receipts, NEW e \in Entries
             PROVE  HalfAt(r, e)'
  BY DEF HalfInv
<1>c. crashes \in Nat /\ crashes' # crashes + 1
  BY DEF TypeInv, TypeOK
<1>z. r # 0
  BY ReceivablesAssumption
<1>1. ASSUME NEW w \in Workers, Others(w), Effect(w), crashes = 0
      PROVE  HalfAt(r, e)'
  <2>h. HalfAt(r, e)
    BY <1>1 DEF HalfInv
  <2>1. CASE PostsLine(w)
    BY <1>1, <2>1, <2>h, HalfPosts
  <2>2. CASE Takes(w) \/ Elsewhere(w) \/ Walks(w) \/ Ends(w) \/ SetsReceipt(w)
    <3>1. \A l \in Legs : gl'[r][e][l] = gl[r][e][l]
      BY <2>2 DEF Takes, Elsewhere, Walks, Ends, SetsReceipt
    <3>2. rcpt[r].st # "none" => rcpt'[r].amt = rcpt[r].amt
      BY <2>2 DEF Takes, Elsewhere, Walks, Ends, SetsReceipt
    <3>3. ~Between(req[w], r, e)
      BY <1>c, <2>2 DEF Takes, Elsewhere, Walks, Ends, SetsReceipt, Between, Legs
    <3>4. ~Between(req'[w], r, e)
      BY <1>z, <2>2 DEF Takes, Elsewhere, Walks, Ends, SetsReceipt, Between, Legs,
         Idle, Second, EntryOf
    <3> QED BY <1>1, <2>h, <3>1, <3>2, <3>3, <3>4, HalfStays
  <2> QED BY <1>1, <2>1, <2>2 DEF Effect
<1>2. CASE UNCHANGED <<rcpt, gl, req, crashes>>
  BY <1>2 DEF HalfInv, HalfAt, Half
<1>3. ASSUME NEW w \in Workers, Others(w), Effect(w) PROVE crashes = 0
  BY <1>c, <1>3 DEF Effect, Takes, Elsewhere, Walks, Ends, PostsLine, SetsReceipt
<1> QED BY <1>1, <1>2, <1>3, NextEffect

LEMMA HalfInit == Init => HalfInv
<1> SUFFICES ASSUME Init, NEW r \in Receipts, NEW e \in Entries PROVE HalfAt(r, e)
  BY DEF HalfInv
<1>1. Half(r, e) = {}
  BY DEF Init, Idle, Half, Between, Legs
<1>2. /\ rcpt[r].amt = 0
      /\ \A l \in Legs : gl[r][e][l] = 0
      /\ First(e) \in Legs /\ Second(e) \in Legs
  BY DEF Init, NoReceipt, NoLegs, First, Second, Legs
<1> QED BY <1>1, <1>2, FS_EmptySet DEF HalfAt

LEMMA BalanceFromHalf == TypeInv /\ HalfInv => EntriesBalance
<1> SUFFICES ASSUME TypeInv, HalfInv, crashes = 0,
                    NEW r \in Receipts, \A w \in Workers : req[w].r # r,
                    NEW e \in Entries
             PROVE  gl[r][e]["bank"] = gl[r][e]["ar"]
  BY DEF EntriesBalance
<1>1. Half(r, e) = {}
  BY DEF Half, Between
<1>2. rcpt[r].amt \in Nat /\ gl[r][e][Second(e)] \in Nat
  BY DEF TypeInv, TypeOK, Receipt, Second, Legs
<1>3. gl[r][e][First(e)] = gl[r][e][Second(e)]
  BY <1>1, <1>2, FS_EmptySet DEF HalfInv, HalfAt
<1> QED BY <1>3 DEF First, Second

\* Bank and receivables agree in every entry that nobody is writing, whatever overlaps,
\* as long as no request dies: also an entry that two requests have posted twice.
THEOREM BothLinesAgree == Spec => []EntriesBalance
<1>1. TypeInv => TypeOK
  BY DEF TypeInv
<1>2. TypeInv /\ PostInv /\ TypeInv' /\ HalfInv /\ [Next]_vars => HalfInv'
  BY HalfStep DEF TypeInv
<1>3. Spec => []HalfInv
  BY <1>2, HalfInit, TypesHold, PostHolds, PTL DEF Spec
<1> QED BY <1>3, BalanceFromHalf, TypesHold, PTL

-----------------------------------------------------------------------------
(* Each receipt is posted once, if no two requests work on it at the same time.   *)
(* Then the ledger says, between any two statements, how far the one request has   *)
(* come: which is the inductive invariant.                                         *)

OneEach == \A u, v \in Workers : u # v /\ req[u].r # 0 => req[u].r # req[v].r

\* The request q moves receipt r.
Moves(q, r) == q.r = r /\ q.pc \in MoveLabels

\* The status the receipt has in the table while its request is at q.pc.
Stage(q) ==
    IF q.op = "complete" /\ q.pc \notin {"load", "apply"} THEN "draft" ELSE "completed"

\* Row rc of the receipt and its lines g are as request q has left them so far.
Exact(q, rc, g) ==
    /\ rc.st = Stage(q)
    /\ \A l \in Legs :
          /\ g[EntryOf(q.op)][l] = IF l \in Written(q.op, q.pc) THEN rc.amt ELSE 0
          /\ q.op = "complete" => g["reversal"][l] = 0
          /\ q.op = "void" => g["deposit"][l] = rc.amt

PostedExactly(rc, g) ==
    \A l \in Legs :
        /\ g["deposit"][l] = IF rc.st \in {"completed", "void"} THEN rc.amt ELSE 0
        /\ g["reversal"][l] = IF rc.st = "void" THEN rc.amt ELSE 0

ExactAt(r) ==
    /\ \A w \in Workers : Moves(req[w], r) => Exact(req[w], rcpt[r], gl[r])
    /\ (\A w \in Workers : ~Moves(req[w], r)) => PostedExactly(rcpt[r], gl[r])

ExactInv == crashes = 0 => \A r \in Receipts : ExactAt(r)

LEMMA OneEachStep ==
    ASSUME ReceiptsApart, TypeInv, PostInv, OneEach, [Next]_vars
    PROVE  OneEach'
<1>1. ASSUME NEW w \in Workers, Others(w), Effect(w) PROVE OneEach'
  <2>1. CASE Takes(w)
    <3>1. req'[w].r = 0 \/ \A v \in Workers : req[v].r # req'[w].r
      BY <2>1 DEF Takes, ReceiptsApart
    <3> QED BY <1>1, <3>1 DEF OneEach, Others
  <2>2. CASE ~Takes(w)
    <3>1. req'[w].r = req[w].r \/ req'[w].r = 0
      BY <1>1, <2>2 DEF Effect, Elsewhere, Walks, Ends, PostsLine, SetsReceipt, Keeps, Idle
    <3> QED BY <1>1, <3>1 DEF OneEach, Others
  <2> QED BY <2>1, <2>2
<1>2. CASE UNCHANGED <<rcpt, gl, req, crashes>>
  BY <1>2 DEF OneEach
<1> QED BY <1>1, <1>2, NextEffect

\* A step that writes nothing of receipt r, and moves its request on, if that is the
\* worker's, only where the lines and the status are already final.
LEMMA ExactStays ==
    ASSUME NEW r \in Receipts, NEW w \in Workers, ExactAt(r), Others(w),
           rcpt'[r] = rcpt[r],
           \A e \in Entries, l \in Legs : gl'[r][e][l] = gl[r][e][l],
           Moves(req[w], r) <=> Moves(req'[w], r),
           Moves(req[w], r) => /\ req'[w].op = req[w].op
                               /\ Stage(req'[w]) = Stage(req[w])
                               /\ Written(req'[w].op, req'[w].pc) = Written(req[w].op, req[w].pc)
    PROVE  ExactAt(r)'
<1>1. \A v \in Workers : Moves(req[v], r) <=> Moves(req'[v], r)
  BY DEF Others
<1>2. ASSUME NEW v \in Workers, Moves(req'[v], r)
      PROVE  Exact(req'[v], rcpt'[r], gl'[r])
  <2>1. Exact(req[v], rcpt[r], gl[r])
    BY <1>1, <1>2 DEF ExactAt
  <2>2. /\ req'[v].op = req[v].op
        /\ Stage(req'[v]) = Stage(req[v])
        /\ Written(req'[v].op, req'[v].pc) = Written(req[v].op, req[v].pc)
    BY <1>2 DEF Others
  <2>3. "deposit" \in Entries /\ "reversal" \in Entries /\ EntryOf(req[v].op) \in Entries
    BY DEF EntryOf, Entries
  <2> QED BY <2>1, <2>2, <2>3 DEF Exact
<1>3. ASSUME \A v \in Workers : ~Moves(req'[v], r)
      PROVE  PostedExactly(rcpt'[r], gl'[r])
  <2>1. PostedExactly(rcpt[r], gl[r])
    BY <1>1, <1>3 DEF ExactAt
  <2> QED BY <2>1 DEF PostedExactly, Entries
<1> QED BY <1>2, <1>3 DEF ExactAt

\* A request is taken that completes or voids receipt r, or enters it.
LEMMA ExactTakes ==
    ASSUME ReceiptsApart, NEW r \in Receipts, NEW w \in Workers, ExactAt(r), Others(w),
           r # 0, Takes(w)
    PROVE  ExactAt(r)'
<1> USE DEF MoveLabels
<1>1. CASE req'[w].r # r
  <2>1. rcpt'[r] = rcpt[r] /\ gl' = gl
    BY <1>1 DEF Takes
  <2>2. ~Moves(req[w], r) /\ ~Moves(req'[w], r)
    BY <1>1 DEF Moves, Takes
  <2> QED BY <2>1, <2>2, ExactStays
<1>2. CASE req'[w].r = r
  <2>1. /\ \A v \in Workers : ~Moves(req[v], r)
        /\ \A v \in Workers : Moves(req'[v], r) => v = w
    BY <1>2 DEF Takes, ReceiptsApart, Moves, Others
  <2>2. PostedExactly(rcpt[r], gl[r]) /\ gl' = gl
    BY <2>1 DEF ExactAt, Takes
  <2>3. CASE req'[w].pc = "allocate"
    <3>1. rcpt[r].st = "none" /\ rcpt'[r].st = "draft" /\ ~Moves(req'[w], r)
      BY <1>2, <2>3 DEF Takes, Moves
    <3>2. PostedExactly(rcpt'[r], gl'[r])
      BY <2>2, <3>1 DEF PostedExactly
    <3> QED BY <2>1, <3>1, <3>2 DEF ExactAt
  <2>4. CASE req'[w].pc = "find_open"
    <3>1. rcpt' = rcpt /\ ~Moves(req'[w], r)
      BY <1>2, <2>4 DEF Takes, Moves
    <3> QED BY <2>1, <2>2, <3>1 DEF ExactAt
  <2>5. CASE req'[w].op = "complete" /\ req'[w].pc = "bank" /\ rcpt[r].st = "draft" /\ rcpt' = rcpt
    <3>1. Exact(req'[w], rcpt'[r], gl'[r])
      BY <2>2, <2>5 DEF Exact, PostedExactly, Stage, Written, EntryOf
    <3> QED BY <1>2, <2>1, <2>5, <3>1 DEF ExactAt, Moves
  <2>6. CASE req'[w].op = "void" /\ req'[w].pc = "ar" /\ rcpt[r].st = "completed" /\ rcpt' = rcpt
    <3>1. Exact(req'[w], rcpt'[r], gl'[r])
      BY <2>2, <2>6 DEF Exact, PostedExactly, Stage, Written, EntryOf
    <3> QED BY <1>2, <2>1, <2>6, <3>1 DEF ExactAt, Moves
  <2> QED BY <1>2, <2>3, <2>4, <2>5, <2>6 DEF Takes
<1> QED BY <1>1, <1>2

\* The other steps of the worker that moves receipt r.
LEMMA ExactMoves ==
    ASSUME TypeInv, OneEach, NEW r \in Receipts, NEW w \in Workers, ExactAt(r), Others(w),
           r # 0, req[w].r = r,
           PostsLine(w) \/ SetsReceipt(w)
             \/ (Ends(w) /\ crashes' = crashes /\ Moves(req[w], r))
    PROVE  ExactAt(r)'
<1> USE DEF MoveLabels
<1> DEFINE q == req[w]
<1>1. \A v \in Workers \ {w} : ~Moves(req'[v], r)
  BY DEF OneEach, Others, Moves
<1>2. Exact(q, rcpt[r], gl[r])
  BY DEF ExactAt, PostsLine, SetsReceipt, Moves, Legs
<1>3. CASE PostsLine(w)
  <2>1. Moves(req'[w], r) /\ rcpt' = rcpt /\ req'[w].op = q.op
    BY <1>3 DEF PostsLine, Keeps, AfterLeg, Moves, Legs
  <2>2. /\ Stage(req'[w]) = Stage(q) /\ q.pc \notin Written(q.op, q.pc)
        /\ \A l \in Legs : /\ l \in Written(q.op, req'[w].pc)
                              <=> l \in Written(q.op, q.pc) \/ l = q.pc
    BY <1>3, <2>1 DEF PostsLine, AfterLeg, Stage, Written, Legs
  <2>3. rcpt[r].amt \in Nat /\ EntryOf(q.op) \in Entries
    BY DEF TypeInv, TypeOK, Receipt, EntryOf, Entries
  <2>4. \A l \in Legs :
           gl'[r][EntryOf(q.op)][l] = IF l \in Written(q.op, req'[w].pc) THEN rcpt[r].amt ELSE 0
    <3> TAKE l \in Legs
    <3>1. gl[r][EntryOf(q.op)][l] = IF l \in Written(q.op, q.pc) THEN rcpt[r].amt ELSE 0
      BY <1>2 DEF Exact
    <3>2. gl'[r][EntryOf(q.op)][l] = IF l = q.pc THEN gl[r][EntryOf(q.op)][l] + rcpt[r].amt
                                                 ELSE gl[r][EntryOf(q.op)][l]
      BY <1>3, <2>3 DEF PostsLine
    <3>3. CASE l = q.pc
      BY <2>2, <2>3, <3>1, <3>2, <3>3
    <3>4. CASE l # q.pc
      BY <2>2, <3>1, <3>2, <3>4
    <3> QED BY <3>3, <3>4
  <2>5. \A l \in Legs :
           /\ q.op = "complete" => gl'[r]["reversal"][l] = 0
           /\ q.op = "void" => gl'[r]["deposit"][l] = rcpt[r].amt
    BY <1>2, <1>3 DEF Exact, PostsLine, EntryOf, Entries
  <2>6. Exact(req'[w], rcpt'[r], gl'[r])
    BY <1>2, <2>1, <2>2, <2>4, <2>5 DEF Exact
  <2> QED BY <1>1, <2>1, <2>6 DEF ExactAt
<1>4. CASE SetsReceipt(w) /\ q.op = "complete"
  <2>1. /\ Moves(req'[w], r) /\ req'[w].op = "complete" /\ req'[w].pc = "load"
        /\ rcpt'[r].st = "completed" /\ rcpt'[r].amt = rcpt[r].amt /\ gl' = gl
        /\ q.pc = "save_receipt"
    BY <1>4 DEF SetsReceipt, Keeps, Moves
  <2>2. Exact(req'[w], rcpt'[r], gl'[r])
    BY <1>2, <1>4, <2>1 DEF Exact, Stage, Written
  <2> QED BY <1>1, <2>1, <2>2 DEF ExactAt
<1>5. CASE SetsReceipt(w) /\ q.op = "void"
  <2>1. /\ ~Moves(req'[w], r) /\ q.pc = "save_receipt"
        /\ rcpt'[r].st = "void" /\ rcpt'[r].amt = rcpt[r].amt /\ gl' = gl
    BY <1>5 DEF SetsReceipt, Moves, Idle
  <2>2. PostedExactly(rcpt'[r], gl'[r])
    BY <1>2, <1>5, <2>1 DEF Exact, PostedExactly, Written, EntryOf
  <2> QED BY <1>1, <2>1, <2>2 DEF ExactAt
<1>6. CASE Ends(w) /\ crashes' = crashes /\ Moves(req[w], r)
  <2>1. /\ ~Moves(req'[w], r) /\ rcpt' = rcpt /\ gl' = gl
        /\ q.op = "complete" /\ q.pc \in {"load", "apply"}
    <3>1. crashes \in Nat /\ crashes' # crashes + 1
      BY <1>6 DEF TypeInv, TypeOK
    <3> QED BY <1>6, <3>1 DEF Ends, Moves, Idle
  <2>2. PostedExactly(rcpt[r], gl[r])
    BY <1>2, <2>1 DEF Exact, PostedExactly, Written, EntryOf, Stage
  <2> QED BY <1>1, <2>1, <2>2 DEF ExactAt
<1> QED BY <1>3, <1>4, <1>5, <1>6 DEF SetsReceipt

LEMMA ExactStep ==
    ASSUME ReceiptsApart, TypeInv, PostInv, OneEach, ExactInv, [Next]_vars
    PROVE  ExactInv'
<1> USE DEF MoveLabels
<1> SUFFICES ASSUME crashes' = 0, NEW r \in Receipts PROVE ExactAt(r)'
  BY DEF ExactInv
<1>c. crashes \in Nat /\ crashes' # crashes + 1
  BY DEF TypeInv, TypeOK
<1>z. r # 0
  BY ReceivablesAssumption
<1>1. ASSUME NEW w \in Workers, Others(w), Effect(w) PROVE ExactAt(r)'
  <2>0. crashes' = crashes
    BY <1>c, <1>1 DEF Effect, Takes, Elsewhere, Walks, Ends, PostsLine, SetsReceipt
  <2>h. ExactAt(r)
    BY <2>0 DEF ExactInv
  <2>1. CASE Takes(w)
    BY <1>1, <1>z, <2>h, <2>1, ExactTakes
  <2>2. CASE Elsewhere(w)
    <3>1. ~Moves(req[w], r) /\ ~Moves(req'[w], r) /\ rcpt' = rcpt /\ gl' = gl
      BY <2>2 DEF Elsewhere, Moves
    <3> QED BY <1>1, <2>h, <3>1, ExactStays
  <2>3. CASE Walks(w)
    <3>1. /\ Moves(req[w], r) <=> Moves(req'[w], r)
          /\ req'[w].op = req[w].op
          /\ Stage(req'[w]) = Stage(req[w])
          /\ Written(req'[w].op, req'[w].pc) = Written(req[w].op, req[w].pc)
          /\ rcpt' = rcpt /\ gl' = gl
      BY <2>3 DEF Walks, Keeps, Moves, Stage, Written
    <3> QED BY <1>1, <2>h, <3>1, ExactStays
  <2>4. CASE Ends(w)
    <3>1. CASE Moves(req[w], r)
      BY <1>1, <1>z, <2>0, <2>h, <2>4, <3>1, ExactMoves DEF Moves
    <3>2. CASE ~Moves(req[w], r)
      <4>1. ~Moves(req'[w], r) /\ rcpt' = rcpt /\ gl' = gl
        BY <2>4 DEF Ends, Moves, Idle
      <4> QED BY <1>1, <2>h, <3>2, <4>1, ExactStays
    <3> QED BY <3>1, <3>2
  <2>5. CASE PostsLine(w) \/ SetsReceipt(w)
    <3>1. CASE req[w].r = r
      <4>1. PostsLine(w) \/ SetsReceipt(w)
              \/ (Ends(w) /\ crashes' = crashes /\ Moves(req[w], r))
        BY <2>5
      <4> QED BY <1>1, <1>z, <2>h, <3>1, <4>1, ExactMoves
    <3>2. CASE req[w].r # r
      <4>1. /\ ~Moves(req[w], r) /\ ~Moves(req'[w], r) /\ rcpt'[r] = rcpt[r]
            /\ \A e \in Entries, l \in Legs : gl'[r][e][l] = gl[r][e][l]
        BY <1>z, <2>5, <3>2 DEF PostsLine, SetsReceipt, Keeps, Moves, Idle
      <4> QED BY <1>1, <2>h, <4>1, ExactStays
    <3> QED BY <3>1, <3>2
  <2> QED BY <1>1, <2>1, <2>2, <2>3, <2>4, <2>5 DEF Effect
<1>2. CASE UNCHANGED <<rcpt, gl, req, crashes>>
  BY <1>2 DEF ExactInv, ExactAt
<1> QED BY <1>1, <1>2, NextEffect

\* Under the assumption that a receipt is worked on in one place at a time, each receipt
\* is posted exactly once when it is completed and reversed exactly once when it is
\* voided, and a draft has no line at all, as long as no request dies.
THEOREM PostedExactlyOnce ==
    ASSUME ReceiptsApart
    PROVE  Spec => []PostedOnce
<1>1. Init => OneEach /\ ExactInv
  <2>1. Init => OneEach
    BY DEF Init, OneEach, Idle
  <2>2. Init => ExactInv
    BY DEF Init, ExactInv, ExactAt, Moves, MoveLabels, Idle, PostedExactly, NoReceipt,
       NoLegs, Entries
  <2> QED BY <2>1, <2>2
<1>2. TypeInv /\ PostInv /\ OneEach /\ ExactInv /\ [Next]_vars => OneEach' /\ ExactInv'
  BY OneEachStep, ExactStep
<1>3. ExactInv => PostedOnce
  BY DEF ExactInv, ExactAt, PostedOnce, PostedExactly, Moves
<1> QED BY <1>1, <1>2, <1>3, TypesHold, PostHolds, PTL DEF Spec

-----------------------------------------------------------------------------
(* What invoices have been paid.  Receipts and invoices are worked on in one place *)
(* at a time, and cash application is left out; requests may still overlap, on the *)
(* invoices of other receipts, and die.  What follows is the effect of each step   *)
(* on the amounts paid, on the allocations and on the status of receipts.          *)

InvoicesApart == "invoice" \in Careful
NoAutoMatch == "auto_match" \notin Offered

Entered(i) == inv[i].st # "none"
SameRows == inv' = inv /\ alloc' = alloc /\ rcpt' = rcpt

\* The request goes on with the same documents.
GoesOn(w) == Keeps(w) /\ req'[w].i = req[w].i

EntersInvoice(w) ==
    LET n == req'[w] IN
    /\ req[w].pc = "idle"
    /\ \E i \in Invoices :
          /\ ~Entered(i) /\ inv'[i].st # "none" /\ inv'[i].paid = 0
          /\ \A k \in Invoices \ {i} : inv'[k] = inv[k]
          /\ n.op = "create_invoice" /\ n.pc = "lines" /\ n.i = i /\ n.r = 0
          /\ n.copy.st # "none" /\ n.copy.paid = 0
    /\ alloc' = alloc /\ rcpt' = rcpt

TakesInvoice(w) ==
    LET n == req'[w] IN
    /\ req[w].pc = "idle"
    /\ \E i \in Invoices :
          /\ Entered(i) /\ \A v \in Workers : i \notin Saves(v)
          /\ n.op \in WorkflowOps \cup {"edit"} /\ n.pc \in InvoiceLabels /\ n.i = i /\ n.r = 0
          /\ n.copy.st # "none" /\ n.copy.paid = inv[i].paid
    /\ SameRows

HoldsInvoice(w) ==
    /\ req[w].pc \in InvoiceLabels /\ req'[w].pc \in InvoiceLabels /\ GoesOn(w)
    /\ req'[w].copy.st = req[w].copy.st /\ req'[w].copy.paid = req[w].copy.paid
    /\ SameRows

SavesInvoice(w) ==
    /\ req[w].pc \in InvoiceLabels
    /\ inv'[req[w].i] = req[w].copy
    /\ \A k \in Invoices \ {req[w].i} : inv'[k] = inv[k]
    /\ \/ req'[w] = Idle
       \/ req'[w].pc \in InvoiceLabels /\ GoesOn(w) /\ req'[w].copy = req[w].copy
    /\ alloc' = alloc /\ rcpt' = rcpt

EntersReceipt(w) ==
    LET n == req'[w] IN
    /\ req[w].pc = "idle"
    /\ \E r \in Receipts :
          /\ \A v \in Workers : req[v].r # r
          /\ rcpt[r].st = "none" /\ rcpt'[r].st = "draft"
          /\ \A s \in Receipts \ {r} : rcpt'[s] = rcpt[s]
          /\ n.op = "create_receipt" /\ n.pc = "allocate" /\ n.r = r /\ n.i = 0
    /\ \A i \in Invoices : n.due[i] > 0 => Entered(i)
    /\ inv' = inv /\ alloc' = alloc

Allocates(w) ==
    /\ req[w].pc = "allocate"
    /\ \E i \in Invoices :
          /\ req[w].due[i] > 0
          /\ \A r \in Receipts, k \in Invoices :
                r # req[w].r \/ k # i => alloc'[r][k] = alloc[r][k]
    /\ \/ req'[w] = Idle
       \/ /\ req'[w].pc = "allocate" /\ GoesOn(w)
          /\ \A k \in Invoices : req'[w].due[k] \in {0, req[w].due[k]}
    /\ inv' = inv /\ rcpt' = rcpt

TakesReceipt(w) ==
    LET n == req'[w] IN
    /\ req[w].pc = "idle"
    /\ \E r \in Receipts :
          /\ \A v \in Workers : req[v].r # r /\ Saves(v) \cap AllocatedTo(r) = {}
          /\ \/ n.op = "complete" /\ n.pc = "bank" /\ rcpt[r].st = "draft"
             \/ n.op = "void" /\ n.pc = "ar" /\ rcpt[r].st = "completed"
          /\ n.r = r /\ n.i = 0
    /\ SameRows

PostsEntry(w) ==
    /\ req[w].pc \in {"bank", "ar"} /\ GoesOn(w)
    /\ \/ req'[w].pc \in {"bank", "ar"}
       \/ req[w].op = "complete" /\ req'[w].pc = "save_receipt"
       \/ req[w].op = "void" /\ req'[w].pc = "load"
    /\ SameRows

MarksReceipt(w) ==
    /\ req[w].pc = "save_receipt"
    /\ \A s \in Receipts \ {req[w].r} : rcpt'[s] = rcpt[s]
    /\ \/ /\ req[w].op = "complete" /\ rcpt'[req[w].r].st = "completed"
          /\ req'[w].pc = "load" /\ GoesOn(w)
       \/ req[w].op = "void" /\ rcpt'[req[w].r].st = "void" /\ req'[w] = Idle
    /\ inv' = inv /\ alloc' = alloc

\* After the last allocation.
PassesOn(w) ==
    IF req[w].op = "void" THEN req'[w].pc = "save_receipt" /\ GoesOn(w) ELSE req'[w] = Idle

LoadsInvoices(w) ==
    /\ req[w].pc = "load"
    /\ \/ AllocatedTo(req[w].r) = {} /\ PassesOn(w)
       \/ /\ req'[w].pc = "apply" /\ GoesOn(w)
          /\ req'[w].due = alloc[req[w].r] /\ req'[w].snap = inv
    /\ SameRows

Left(paid, a) == IF paid > a THEN paid - a ELSE 0

AppliesTo(w, i) ==
    LET q == req[w] IN
    /\ q.pc = "apply" /\ q.due[i] > 0
    /\ inv'[i].paid = IF q.op = "complete" THEN q.snap[i].paid + q.due[i]
                                           ELSE Left(q.snap[i].paid, q.due[i])
    /\ q.snap[i].st # "none" => inv'[i].st # "none"
    /\ \A k \in Invoices \ {i} : inv'[k] = inv[k]
    /\ \/ (\A k \in Invoices \ {i} : q.due[k] = 0) /\ PassesOn(w)
       \/ /\ req'[w].pc = "apply" /\ GoesOn(w)
          /\ req'[w].due = [q.due EXCEPT ![i] = 0] /\ req'[w].snap = q.snap
    /\ alloc' = alloc /\ rcpt' = rcpt

Dies(w) == req'[w] = Idle /\ crashes' = crashes + 1 /\ SameRows

OnInvoice(w) == EntersInvoice(w) \/ TakesInvoice(w) \/ HoldsInvoice(w) \/ SavesInvoice(w)
OnReceipt(w) ==
    \/ EntersReceipt(w) \/ Allocates(w) \/ TakesReceipt(w) \/ PostsEntry(w) \/ MarksReceipt(w)
    \/ LoadsInvoices(w) \/ \E i \in Invoices : AppliesTo(w, i)

RowEffect(w) == Dies(w) \/ (crashes' = crashes /\ (OnInvoice(w) \/ OnReceipt(w)))

\* Taking a request has one of these effects.
LEMMA StartRowEffect ==
    ASSUME ReceiptsApart, InvoicesApart, NoAutoMatch, TypeInv, NEW w \in Workers, Start(w)
    PROVE  Others(w) /\ RowEffect(w)
<1>t. /\ req \in [Workers -> Request] /\ inv \in [Invoices -> Invoice]
      /\ rcpt \in [Receipts -> Receipt]
  BY DEF TypeInv, TypeOK
<1>z. \A r \in Receipts : r # 0
  BY ReceivablesAssumption
<1>1. CASE CreateInvoice(w)
  <2>1. PICK i \in Invoices, a \in Totals :
          /\ \A k \in Invoices : inv[k].st = "none" <=> k >= i
          /\ inv' = [inv EXCEPT ![i] = [NoInvoice EXCEPT !.st = "draft"]]
          /\ req' = [req EXCEPT ![w] = [Idle EXCEPT !.op = "create_invoice", !.pc = "lines",
                                  !.i = i, !.copy = [NoInvoice EXCEPT !.st = "draft"],
                                  !.amt = a]]
    BY <1>1, Zenon DEF CreateInvoice
  <2>2. ~Entered(i)
    BY <2>1 DEF Entered, Invoices
  <2>3. /\ inv'[i].st # "none" /\ inv'[i].paid = 0
        /\ \A k \in Invoices \ {i} : inv'[k] = inv[k]
    BY <1>t, <2>1 DEF NoInvoice
  <2>4. /\ Others(w)
        /\ req'[w].op = "create_invoice" /\ req'[w].pc = "lines" /\ req'[w].i = i
        /\ req'[w].r = 0 /\ req'[w].copy.st # "none" /\ req'[w].copy.paid = 0
    BY <1>t, <2>1 DEF Others, Idle, NoInvoice
  <2>5. EntersInvoice(w)
    BY <1>1, <2>2, <2>3, <2>4 DEF CreateInvoice, MayStart, Busy, EntersInvoice
  <2> QED BY <1>1, <2>4, <2>5 DEF CreateInvoice, RowEffect, OnInvoice
<1>2. ASSUME NEW i \in Invoices, EditInvoice(w, i) PROVE Others(w) /\ RowEffect(w)
  <2>1. PICK a \in Totals :
          req' = [req EXCEPT ![w] = [Idle EXCEPT !.op = "edit", !.pc = "header", !.i = i,
                                                 !.copy = inv[i], !.amt = a]]
    BY <1>2, Zenon DEF EditInvoice
  <2>2. /\ Others(w)
        /\ req'[w].op = "edit" /\ req'[w].pc = "header" /\ req'[w].i = i
        /\ req'[w].r = 0 /\ req'[w].copy = inv[i]
    BY <1>t, <2>1 DEF Others, Idle
  <2>3. /\ req[w].pc = "idle" /\ inv[i].st = "draft" /\ \A v \in Workers : i \notin Saves(v)
        /\ SameRows /\ crashes' = crashes
    BY <1>2 DEF EditInvoice, MayStart, Busy, InvoicesApart, SameRows, tables
  <2>4. TakesInvoice(w)
    BY <2>2, <2>3 DEF TakesInvoice, Entered, InvoiceLabels
  <2> QED BY <2>2, <2>3, <2>4 DEF RowEffect, OnInvoice
<1>3. ASSUME NEW i \in Invoices, NEW op \in WorkflowOps, ChangeInvoice(w, i, op)
      PROVE  Others(w) /\ RowEffect(w)
  <2> DEFINE row == [inv[i] EXCEPT !.st = NewStatus(op)]
             label == IF op = "approve" THEN "approval_row" ELSE "update"
  <2>1. req' = [req EXCEPT ![w] = [Idle EXCEPT !.op = op, !.i = i, !.pc = label, !.copy = row]]
    BY <1>3 DEF ChangeInvoice
  <2>2. row.paid = inv[i].paid /\ row.st # "none"
    <3>1. NewStatus(op) # "none"
      BY DEF NewStatus, WorkflowOps
    <3>2. row.paid = inv[i].paid /\ row.st = NewStatus(op)
      BY <1>t DEF Invoice
    <3> QED BY <3>1, <3>2
  <2>3. /\ Others(w)
        /\ req'[w].op = op /\ req'[w].pc = label /\ req'[w].i = i
        /\ req'[w].r = 0 /\ req'[w].copy = row
    <3> HIDE DEF row, label
    <3> QED BY <1>t, <2>1 DEF Others, Idle
  <2>4. /\ req[w].pc = "idle" /\ Entered(i) /\ \A v \in Workers : i \notin Saves(v)
        /\ SameRows /\ crashes' = crashes
    BY <1>3 DEF ChangeInvoice, MayStart, Busy, InvoicesApart, SameRows, tables, Entered
  <2>5. label \in InvoiceLabels
    BY DEF InvoiceLabels
  <2>6. TakesInvoice(w)
    <3> HIDE DEF row, label
    <3> QED BY <2>2, <2>3, <2>4, <2>5 DEF TakesInvoice
  <2> QED BY <2>3, <2>4, <2>6 DEF RowEffect, OnInvoice
<1>4. CASE CreateReceipt(w)
  <2>1. PICK r \in Receipts, a \in Amounts, p \in Periods, due \in [Invoices -> Amounts \cup {0}] :
          /\ MayStart(w, "create_receipt", r, {})
          /\ rcpt[r].st = "none"
          /\ ~closed[p]
          /\ due # NoAmounts
          /\ \A i \in Invoices : due[i] > 0 => inv[i].st # "none"
          /\ rcpt' = [rcpt EXCEPT ![r] = [st |-> "draft", amt |-> a, per |-> p]]
          /\ req' = [req EXCEPT ![w] = [Idle EXCEPT !.op = "create_receipt",
                                  !.pc = "allocate", !.r = r, !.due = due]]
    BY <1>4, Zenon DEF CreateReceipt
  <2>2. /\ Others(w) /\ req'[w].op = "create_receipt" /\ req'[w].pc = "allocate"
        /\ req'[w].r = r /\ req'[w].i = 0 /\ req'[w].due = due
    BY <1>t, <2>1 DEF Others, Idle
  <2>3. rcpt'[r].st = "draft" /\ \A s \in Receipts \ {r} : rcpt'[s] = rcpt[s]
    BY <1>t, <2>1
  <2>4. req[w].pc = "idle" /\ \A v \in Workers : req[v].r # r
    BY <1>z, <2>1 DEF MayStart, Busy, ReceiptsApart
  <2>5. EntersReceipt(w)
    BY <1>4, <2>1, <2>2, <2>3, <2>4 DEF CreateReceipt, EntersReceipt, Entered
  <2> QED BY <1>4, <2>2, <2>5 DEF CreateReceipt, RowEffect, OnReceipt
<1>5. ASSUME NEW r \in Receipts, NEW op \in {"complete", "void"}, MoveReceipt(w, r, op)
      PROVE  Others(w) /\ RowEffect(w)
  <2> DEFINE label == IF op = "complete" THEN "bank" ELSE "ar"
  <2>1. req' = [req EXCEPT ![w] = [Idle EXCEPT !.op = op, !.r = r, !.rec = rcpt[r], !.pc = label]]
    BY <1>5 DEF MoveReceipt
  <2>2. /\ Others(w) /\ req'[w].pc = label /\ req'[w].r = r /\ req'[w].op = op /\ req'[w].i = 0
    <3> HIDE DEF label
    <3> QED BY <1>t, <2>1 DEF Others, Idle
  <2>3. /\ req[w].pc = "idle"
        /\ \A v \in Workers : req[v].r # r /\ Saves(v) \cap AllocatedTo(r) = {}
        /\ rcpt[r].st = IF op = "complete" THEN "draft" ELSE "completed"
        /\ SameRows /\ crashes' = crashes
    BY <1>z, <1>5 DEF MoveReceipt, MayMove, MayStart, Busy, ReceiptsApart, InvoicesApart,
       SameRows, tables
  <2>4. TakesReceipt(w)
    BY <2>2, <2>3 DEF TakesReceipt
  <2> QED BY <2>2, <2>3, <2>4 DEF RowEffect, OnReceipt
<1>6. ASSUME NEW r \in Receipts, AutoMatch(w, r) PROVE FALSE
  BY <1>6 DEF AutoMatch, MayStart, NoAutoMatch
<1> QED BY <1>1, <1>2, <1>3, <1>4, <1>5, <1>6 DEF Start

\* After the last allocation of the loop.
LEMMA PassesOnEffect ==
    ASSUME TypeInv, NEW w \in Workers, AfterAllocations(w)
    PROVE  Others(w) /\ PassesOn(w)
<1>t. req \in [Workers -> Request]
  BY DEF TypeInv, TypeOK
<1>1. CASE req[w].op = "void"
  BY <1>t, <1>1 DEF AfterAllocations, Others, PassesOn, GoesOn, Keeps, Request
<1>2. CASE req[w].op # "void"
  BY <1>t, <1>2 DEF AfterAllocations, Finish, Others, PassesOn
<1> QED BY <1>1, <1>2

\* After one allocation of the loop.
LEMMA DealtRowEffect ==
    ASSUME TypeInv, NEW w \in Workers, NEW i \in Invoices, Dealt(w, i)
    PROVE  /\ Others(w)
           /\ \/ (\A k \in Invoices \ {i} : req[w].due[k] = 0) /\ PassesOn(w)
              \/ /\ req'[w].pc = req[w].pc /\ GoesOn(w)
                 /\ req'[w].due = [req[w].due EXCEPT ![i] = 0] /\ req'[w].snap = req[w].snap
<1>t. req \in [Workers -> Request] /\ req[w].due \in [Invoices -> Nat]
  BY LocalTypes DEF TypeInv, TypeOK
<1>1. CASE Todo(w) = {i}
  <2>1. \A k \in Invoices \ {i} : req[w].due[k] = 0
    BY <1>t, <1>1 DEF Todo
  <2> QED BY <1>1, <2>1, PassesOnEffect DEF Dealt
<1>2. CASE Todo(w) # {i}
  BY <1>t, <1>2 DEF Dealt, Others, GoesOn, Keeps, Request
<1> QED BY <1>1, <1>2

\* What a payment and its reversal do to an invoice.
LEMMA PaymentEffect ==
    ASSUME NEW row \in Invoice, NEW a \in Nat
    PROVE  /\ Pay(row, a).paid = row.paid + a
           /\ Unpay(row, a).paid = Left(row.paid, a)
           /\ row.st # "none" => Pay(row, a).st # "none" /\ Unpay(row, a).st # "none"
<1>0. row.st \in InvoiceStatuses /\ row.total \in Nat /\ row.paid \in Nat
  BY DEF Invoice
<1>1. ASSUME NEW x \in Invoice
      PROVE  /\ UpdatePaymentStatus(x).paid = x.paid
             /\ UpdatePaymentStatus(x).st \in {"paid", "partially_paid", x.st}
             /\ UpdatePaymentStatus(x) \in Invoice
  BY <1>1 DEF UpdatePaymentStatus, Invoice, InvoiceStatuses
<1>2. Pay(row, a).paid = row.paid + a /\ (row.st # "none" => Pay(row, a).st # "none")
  <2>1. PICK more \in Nat : more = row.paid + a
    BY <1>0
  <2>2. PICK x \in Invoice : x = [row EXCEPT !.paid = more]
    BY <1>0 DEF Invoice
  <2>3. x.paid = more /\ x.st = row.st
    BY <1>0, <2>2 DEF Invoice
  <2>4. Pay(row, a) = UpdatePaymentStatus(x)
    BY <2>1, <2>2 DEF Pay
  <2> QED BY <1>1, <2>1, <2>3, <2>4
<1>3. Unpay(row, a).paid = Left(row.paid, a) /\ (row.st # "none" => Unpay(row, a).st # "none")
  <2>1. PICK rest \in Nat : rest = Left(row.paid, a)
    BY <1>0 DEF Left
  <2>2. PICK x \in Invoice : x = [row EXCEPT !.paid = rest]
    BY <1>0 DEF Invoice
  <2>3. x.paid = rest /\ x.st = row.st
    BY <1>0, <2>2 DEF Invoice
  <2>4. PICK back \in Invoice : back = UpdatePaymentStatus(x)
    BY <1>1
  <2>5. back.paid = rest /\ back.st \in {"paid", "partially_paid", row.st}
    BY <1>1, <2>3, <2>4
  <2>6. Unpay(row, a) = IF back.st = "paid" /\ back.paid < back.total
                        THEN [back EXCEPT !.st = IF back.paid > 0 THEN "partially_paid" ELSE "sent"]
                        ELSE back
    BY <2>1, <2>2, <2>4 DEF Unpay, Left
  <2> QED BY <2>1, <2>5, <2>6 DEF Invoice
<1> QED BY <1>2, <1>3

\* Executing the next statement of a request has one of these effects.
LEMMA ContinueRowEffect ==
    ASSUME TypeInv, PostInv, NEW w \in Workers, req[w].op # "auto_match", Continue(w)
    PROVE  Others(w) /\ RowEffect(w)
<1> USE DEF MoveLabels
<1> DEFINE q == req[w]
<1>t. /\ req \in [Workers -> Request] /\ inv \in [Invoices -> Invoice]
      /\ rcpt \in [Receipts -> Receipt] /\ alloc \in [Receipts -> [Invoices -> Nat]]
  BY DEF TypeInv, TypeOK
<1>p. /\ PostOK(q, rcpt, gl) /\ Placed(q) /\ q.copy \in Invoice /\ q.rec \in Receipt
      /\ q.due \in [Invoices -> Nat] /\ q.snap \in [Invoices -> Invoice]
  BY LocalTypes DEF PostInv
<1>1. CASE SaveLines(w) \/ UpdateTotals(w) \/ SaveApproval(w)
  <2>1. /\ Others(w) /\ GoesOn(w) /\ req'[w].pc \in InvoiceLabels
        /\ req'[w].copy.st = q.copy.st /\ req'[w].copy.paid = q.copy.paid
    <3>1. CASE SaveLines(w) \/ SaveApproval(w)
      <4>1. PICK label \in {"totals", "update"} : Goto(w, label)
        BY <3>1 DEF SaveLines, SaveApproval
      <4>2. req'[w] = [q EXCEPT !.pc = label] /\ Others(w)
        BY <1>t, <4>1 DEF Goto, Others
      <4> QED BY <1>t, <4>1, <4>2 DEF Request, GoesOn, Keeps, InvoiceLabels
    <3>2. CASE UpdateTotals(w)
      <4>1. req'[w].copy = [q.copy EXCEPT !.total = lines[q.i]]
        BY <1>t, <3>2 DEF UpdateTotals, Request
      <4>2. Others(w) /\ GoesOn(w) /\ req'[w].pc = "update"
        BY <1>t, <3>2 DEF UpdateTotals, Request, Others, GoesOn, Keeps
      <4> QED BY <1>p, <4>1, <4>2 DEF Invoice, InvoiceLabels
    <3> QED BY <1>1, <3>1, <3>2
  <2>2. SameRows /\ crashes' = crashes /\ q.pc \in InvoiceLabels
    BY <1>1 DEF SaveLines, UpdateTotals, SaveApproval, tables, At, SameRows, InvoiceLabels
  <2> QED BY <2>1, <2>2 DEF HoldsInvoice, OnInvoice, RowEffect
<1>2. CASE SaveHeader(w) \/ UpdateInvoice(w)
  <2>1. /\ inv' = [inv EXCEPT ![q.i] = q.copy] /\ alloc' = alloc /\ rcpt' = rcpt
        /\ crashes' = crashes /\ q.pc \in InvoiceLabels /\ q.i \in Invoices
    BY <1>2, <1>p DEF SaveHeader, UpdateInvoice, At, InvoiceLabels, Placed
  <2>2. inv'[q.i] = q.copy /\ \A k \in Invoices \ {q.i} : inv'[k] = inv[k]
    BY <1>t, <2>1
  <2>3. /\ Others(w)
        /\ \/ req'[w] = Idle
           \/ req'[w].pc \in InvoiceLabels /\ GoesOn(w) /\ req'[w].copy = q.copy
    BY <1>t, <1>2 DEF SaveHeader, UpdateInvoice, Goto, Finish, Others, GoesOn, Keeps,
       InvoiceLabels, Request
  <2>4. SavesInvoice(w)
    BY <2>1, <2>2, <2>3 DEF SavesInvoice
  <2> QED BY <2>1, <2>3, <2>4 DEF OnInvoice, RowEffect
<1>3. CASE SaveAllocation(w)
  <2>1. PICK i \in Todo(w) :
           \/ alloc' = [alloc EXCEPT ![q.r][i] = q.due[i]] /\ Dealt(w, i)
           \/ Finish(w) /\ alloc' = alloc
    BY <1>3 DEF SaveAllocation
  <2>2. /\ q.pc = "allocate" /\ q.op # "void" /\ i \in Invoices /\ q.due[i] > 0
        /\ inv' = inv /\ rcpt' = rcpt /\ crashes' = crashes /\ q.r \in Receipts
    BY <1>3, <1>p DEF SaveAllocation, At, PostOK, Todo, Placed
  <2>3. \A r \in Receipts, k \in Invoices : r # q.r \/ k # i => alloc'[r][k] = alloc[r][k]
    <3> HIDE DEF q
    <3> QED BY <1>t, <2>1, <2>2
  <2>4. /\ Others(w)
        /\ \/ req'[w] = Idle
           \/ /\ req'[w].pc = "allocate" /\ GoesOn(w)
              /\ \A k \in Invoices : req'[w].due[k] \in {0, q.due[k]}
    <3>1. CASE Finish(w)
      BY <1>t, <3>1 DEF Finish, Others
    <3>2. CASE Dealt(w, i)
      <4>1. /\ Others(w)
            /\ \/ PassesOn(w)
               \/ /\ req'[w].pc = q.pc /\ GoesOn(w)
                  /\ req'[w].due = [q.due EXCEPT ![i] = 0]
        BY <2>2, <3>2, DealtRowEffect
      <4> QED BY <1>p, <2>2, <4>1 DEF PassesOn
    <3> QED BY <2>1, <3>1, <3>2
  <2>5. Allocates(w)
    BY <2>2, <2>3, <2>4 DEF Allocates
  <2> QED BY <2>2, <2>4, <2>5 DEF OnReceipt, RowEffect
<1>4. CASE FindOpenInvoices(w)
  BY <1>p, <1>4 DEF FindOpenInvoices, At, PostOK
<1>5. ASSUME NEW leg \in Legs, SaveLeg(w, leg) PROVE Others(w) /\ RowEffect(w)
  <2>1. q.pc = leg /\ leg \in {"bank", "ar"} /\ q.op \in {"complete", "void"}
    BY <1>p, <1>5 DEF SaveLeg, At, PostOK, Legs
  <2>2. Others(w) /\ GoesOn(w) /\ req'[w].pc = AfterLeg(q.op, leg)
    BY <1>t, <1>5, <2>1 DEF SaveLeg, Goto, Others, GoesOn, Keeps, Request
  <2>3. \/ AfterLeg(q.op, leg) \in {"bank", "ar"}
        \/ q.op = "complete" /\ AfterLeg(q.op, leg) = "save_receipt"
        \/ q.op = "void" /\ AfterLeg(q.op, leg) = "load"
    BY <2>1 DEF AfterLeg
  <2>4. PostsEntry(w)
    BY <1>5, <2>1, <2>2, <2>3 DEF SaveLeg, SameRows, PostsEntry
  <2> QED BY <1>5, <2>2, <2>4 DEF SaveLeg, OnReceipt, RowEffect
<1>6. CASE SaveReceipt(w)
  <2>1. /\ q.pc = "save_receipt" /\ q.op \in {"complete", "void"} /\ q.r \in Receipts
        /\ inv' = inv /\ alloc' = alloc /\ crashes' = crashes
    BY <1>p, <1>6 DEF SaveReceipt, At, Placed, PostOK
  <2>2. /\ rcpt'[q.r].st = IF q.op = "complete" THEN "completed" ELSE "void"
        /\ \A s \in Receipts \ {q.r} : rcpt'[s] = rcpt[s]
    BY <1>t, <1>p, <1>6, <2>1 DEF SaveReceipt, Receipt
  <2>3. Others(w) /\ IF q.op = "complete" THEN req'[w].pc = "load" /\ GoesOn(w)
                                          ELSE req'[w] = Idle
    BY <1>t, <1>6 DEF SaveReceipt, Goto, Finish, Others, GoesOn, Keeps, Request
  <2>4. MarksReceipt(w)
    BY <2>1, <2>2, <2>3 DEF MarksReceipt
  <2> QED BY <2>1, <2>3, <2>4 DEF OnReceipt, RowEffect
<1>7. CASE LoadAllocations(w)
  <2>1. q.pc = "load" /\ SameRows /\ crashes' = crashes
    BY <1>7 DEF LoadAllocations, At, tables, SameRows
  <2>2. CASE AllocatedTo(q.r) = {} /\ AfterAllocations(w)
    BY <2>1, <2>2, PassesOnEffect DEF LoadsInvoices, OnReceipt, RowEffect
  <2>3. CASE req' = [req EXCEPT ![w].pc = "apply", ![w].due = alloc[q.r], ![w].snap = inv]
    <3>1. Others(w) /\ GoesOn(w) /\ req'[w].pc = "apply" /\ req'[w].due = alloc[q.r]
          /\ req'[w].snap = inv
      BY <1>t, <2>3 DEF Others, GoesOn, Keeps, Request
    <3> QED BY <2>1, <3>1 DEF LoadsInvoices, OnReceipt, RowEffect
  <2> QED BY <1>7, <2>2, <2>3 DEF LoadAllocations
<1>8. CASE ApplyAllocation(w)
  <2>1. PICK i \in Todo(w) :
           /\ inv' = [inv EXCEPT ![i] = IF q.op = "complete" THEN Pay(q.snap[i], q.due[i])
                                                              ELSE Unpay(q.snap[i], q.due[i])]
           /\ Dealt(w, i)
    BY <1>8, Zenon DEF ApplyAllocation
  <2>2. /\ q.pc = "apply" /\ i \in Invoices /\ q.due[i] > 0
        /\ alloc' = alloc /\ rcpt' = rcpt /\ crashes' = crashes
    BY <1>8 DEF ApplyAllocation, At, Todo
  <2>3. PICK row \in Invoice, a \in Nat : row = q.snap[i] /\ a = q.due[i]
    BY <1>p, <2>2
  <2>4. /\ inv'[i] = IF q.op = "complete" THEN Pay(row, a) ELSE Unpay(row, a)
        /\ \A k \in Invoices \ {i} : inv'[k] = inv[k]
    <3> HIDE DEF q
    <3> QED BY <1>t, <2>1, <2>2, <2>3
  <2>5. /\ inv'[i].paid = IF q.op = "complete" THEN row.paid + a ELSE Left(row.paid, a)
        /\ row.st # "none" => inv'[i].st # "none"
    <3> HIDE DEF q
    <3> QED BY <2>4, PaymentEffect
  <2>6. /\ Others(w)
        /\ \/ (\A k \in Invoices \ {i} : q.due[k] = 0) /\ PassesOn(w)
           \/ /\ req'[w].pc = q.pc /\ GoesOn(w)
              /\ req'[w].due = [q.due EXCEPT ![i] = 0] /\ req'[w].snap = q.snap
    BY <2>1, <2>2, DealtRowEffect
  <2>7. AppliesTo(w, i)
    BY <2>2, <2>3, <2>4, <2>5, <2>6 DEF AppliesTo
  <2> QED BY <2>2, <2>6, <2>7 DEF OnReceipt, RowEffect
<1> QED
  BY <1>1, <1>2, <1>3, <1>4, <1>5, <1>6, <1>7, <1>8 DEF Continue, Legs

\* Every step has one of these effects, or changes nothing that counts here.
LEMMA NextRowEffect ==
    ASSUME ReceiptsApart, InvoicesApart, NoAutoMatch, TypeInv, PostInv,
           \A w \in Workers : req[w].op # "auto_match", [Next]_vars
    PROVE  \/ \E w \in Workers : Others(w) /\ RowEffect(w)
           \/ UNCHANGED <<inv, alloc, rcpt, req, crashes>>
<1>1. ASSUME NEW w \in Workers, Crash(w) PROVE Others(w) /\ RowEffect(w)
  BY <1>1 DEF Crash, Finish, TypeInv, TypeOK, tables, Others, Dies, SameRows, RowEffect
<1>2. ASSUME NEW w \in Workers, Start(w) PROVE Others(w) /\ RowEffect(w)
  BY <1>2, StartRowEffect
<1>3. ASSUME NEW w \in Workers, Continue(w) PROVE Others(w) /\ RowEffect(w)
  BY <1>3, ContinueRowEffect
<1> QED BY <1>1, <1>2, <1>3 DEF Next, ClosePeriod, ReopenPeriod, vars

-----------------------------------------------------------------------------
(* What a request relies on between two statements: nobody else writes the invoices *)
(* that it is going to save, so that its copies of them are still true.             *)

Ready(q, iv, al, rc) ==
    /\ q.pc = "idle" => q = Idle
    /\ q.op # "auto_match" /\ q.pc # "find_open"
    /\ q.pc \in InvoiceLabels <=> q.i # 0
    /\ q.pc \in InvoiceLabels =>
          /\ q.op \notin {"complete", "void"}
          /\ iv[q.i].st # "none" /\ q.copy.st # "none" /\ q.copy.paid = iv[q.i].paid
    /\ q.pc = "allocate" =>
          /\ q.op = "create_receipt" /\ rc[q.r].st = "draft"
          /\ \A i \in Invoices : q.due[i] > 0 => iv[i].st # "none"
    /\ q.pc \in MoveLabels =>
          /\ q.op \in {"complete", "void"}
          /\ rc[q.r].st = Stage(q)
    /\ q.pc = "apply" =>
          \A i \in Invoices :
              /\ q.due[i] \in {0, al[q.r][i]}
              /\ q.due[i] > 0 => q.snap[i].st # "none" /\ q.snap[i].paid = iv[i].paid

InvoicesOnce == \A u, v \in Workers : u # v => Saves(u) \cap Saves(v) = {}

AllEntered == \A r \in Receipts, i \in Invoices : alloc[r][i] > 0 => Entered(i)

ReadyInv ==
    /\ OneEach /\ InvoicesOnce /\ AllEntered
    /\ \A w \in Workers : Ready(req[w], inv, alloc, rcpt)

\* The invoices a request works on are among those that it saves.
LEMMA WorksOn ==
    ASSUME TypeInv, ReadyInv, NEW v \in Workers
    PROVE  /\ req[v].pc \in InvoiceLabels => req[v].i \in Saves(v) /\ req[v].i \in Invoices
           /\ \A i \in Invoices : req[v].pc = "apply" /\ req[v].due[i] > 0 =>
                 i \in Saves(v) /\ req[v].due[i] = alloc[req[v].r][i]
           /\ \A i \in Saves(v) : i \in Invoices /\ Entered(i)
<1> DEFINE q == req[v]
<1>0. q \in Request /\ Placed(q) /\ Ready(q, inv, alloc, rcpt) /\ q.due \in [Invoices -> Nat]
      /\ alloc \in [Receipts -> [Invoices -> Nat]]
  BY LocalTypes DEF ReadyInv, TypeInv, TypeOK
<1>i. 0 \notin Invoices
  BY DEF Invoices
<1>1. ASSUME q.pc \in InvoiceLabels PROVE q.i \in Saves(v) /\ q.i \in Invoices
  BY <1>0, <1>1, <1>i DEF Placed, Saves
<1>2. ASSUME NEW i \in Invoices, q.pc = "apply", q.due[i] > 0
      PROVE  i \in Saves(v) /\ q.due[i] = alloc[q.r][i]
  <2>1. q.op \in {"complete", "void"} /\ q.due[i] \in {0, alloc[q.r][i]} /\ q.due[i] # 0
    BY <1>0, <1>2 DEF Ready, MoveLabels
  <2>2. i \in AllocatedTo(q.r)
    BY <1>2, <2>1 DEF AllocatedTo
  <2> QED BY <2>1, <2>2 DEF Saves
<1>3. ASSUME NEW i \in Saves(v) PROVE i \in Invoices /\ Entered(i)
  <2>1. CASE i = q.i /\ q.i # 0
    <3>1. q.pc \in InvoiceLabels
      BY <1>0, <2>1 DEF Ready
    <3>2. inv[q.i].st # "none"
      BY <1>0, <3>1 DEF Ready
    <3> QED BY <1>1, <2>1, <3>1, <3>2 DEF Entered
  <2>2. CASE q.op \in {"complete", "void"} /\ i \in AllocatedTo(q.r)
    <3>1. q.pc \in MoveLabels
      <4>1. q.pc # "idle" /\ q.pc \notin InvoiceLabels /\ q.pc # "allocate" /\ q.pc # "find_open"
        BY <1>0, <2>2 DEF Ready, Idle
      <4>2. q.pc \in Labels
        BY <1>0 DEF Request
      <4> QED BY <4>1, <4>2 DEF Labels, InvoiceLabels, MoveLabels
    <3>2. q.r \in Receipts
      BY <1>0, <3>1 DEF Placed
    <3> QED BY <2>2, <3>2 DEF AllocatedTo, ReadyInv, AllEntered
  <2> QED BY <1>3, <2>1, <2>2 DEF Saves
<1> QED BY <1>1, <1>2, <1>3

\* A step of worker w leaves alone what the other requests rely on, and no invoice
\* disappears.
LEMMA Untouched ==
    ASSUME TypeInv, ReadyInv, NEW w \in Workers, RowEffect(w)
    PROVE  /\ \A i \in Invoices : Entered(i) => inv'[i].st # "none"
           /\ \A v \in Workers \ {w} : \A i \in Saves(v) : inv'[i] = inv[i]
           /\ \A v \in Workers \ {w} :
                 req[v].r \in Receipts =>
                    /\ rcpt'[req[v].r] = rcpt[req[v].r]
                    /\ \A i \in Invoices : alloc'[req[v].r][i] = alloc[req[v].r][i]
<1>0. Ready(req[w], inv, alloc, rcpt) /\ Placed(req[w]) /\ \A r \in Receipts : r # 0
  BY LocalTypes, ReceivablesAssumption DEF ReadyInv
<1>1. \A v \in Workers \ {w} : /\ Saves(v) \cap Saves(w) = {}
                               /\ req[v].r \in Receipts => req[v].r # req[w].r
  BY <1>0 DEF ReadyInv, InvoicesOnce, OneEach
<1>2. /\ \A i \in Invoices : Entered(i) => inv'[i].st # "none"
      /\ \A v \in Workers \ {w} : \A i \in Saves(v) : inv'[i] = inv[i]
  <2>1. CASE inv' = inv
    BY <2>1 DEF Entered
  <2>2. CASE EntersInvoice(w)
    <3>1. PICK i \in Invoices : ~Entered(i) /\ \A k \in Invoices \ {i} : inv'[k] = inv[k]
      BY <2>2 DEF EntersInvoice
    <3> QED BY <3>1, WorksOn DEF Entered
  <2>3. CASE SavesInvoice(w)
    <3>1. req[w].i \in Saves(w) /\ req[w].i \in Invoices /\ req[w].copy.st # "none"
      BY <1>0, <2>3, WorksOn DEF SavesInvoice, Ready
    <3>2. inv'[req[w].i].st # "none" /\ \A k \in Invoices \ {req[w].i} : inv'[k] = inv[k]
      BY <2>3, <3>1 DEF SavesInvoice
    <3> QED BY <1>1, <3>1, <3>2, WorksOn DEF Entered
  <2>4. ASSUME NEW i \in Invoices, AppliesTo(w, i)
        PROVE  /\ \A k \in Invoices : Entered(k) => inv'[k].st # "none"
               /\ \A v \in Workers \ {w} : \A k \in Saves(v) : inv'[k] = inv[k]
    <3>1. i \in Saves(w) /\ req[w].snap[i].st # "none"
      BY <1>0, <2>4, WorksOn DEF AppliesTo, Ready
    <3>2. inv'[i].st # "none" /\ \A k \in Invoices \ {i} : inv'[k] = inv[k]
      BY <2>4, <3>1 DEF AppliesTo
    <3> QED BY <1>1, <3>1, <3>2, WorksOn DEF Entered
  <2> QED
    BY <2>1, <2>2, <2>3, <2>4 DEF RowEffect, Dies, OnInvoice, OnReceipt, TakesInvoice,
       HoldsInvoice, EntersReceipt, Allocates, TakesReceipt, PostsEntry, MarksReceipt,
       LoadsInvoices, SameRows
<1>3. ASSUME NEW v \in Workers \ {w}, req[v].r \in Receipts
      PROVE  /\ rcpt'[req[v].r] = rcpt[req[v].r]
             /\ \A i \in Invoices : alloc'[req[v].r][i] = alloc[req[v].r][i]
  <2>1. CASE rcpt' = rcpt /\ alloc' = alloc
    BY <2>1
  <2>2. CASE EntersReceipt(w)
    BY <1>3, <2>2 DEF EntersReceipt
  <2>3. CASE Allocates(w)
    BY <1>1, <1>3, <2>3 DEF Allocates
  <2>4. CASE MarksReceipt(w)
    BY <1>1, <1>3, <2>4 DEF MarksReceipt
  <2> QED
    BY <2>1, <2>2, <2>3, <2>4 DEF RowEffect, Dies, OnInvoice, OnReceipt, EntersInvoice,
       TakesInvoice, HoldsInvoice, SavesInvoice, TakesReceipt, PostsEntry,
       LoadsInvoices, AppliesTo, SameRows
<1> QED BY <1>2, <1>3

\* What the other requests rely on is still true after the step.
LEMMA OthersReady ==
    ASSUME TypeInv, ReadyInv, NEW w \in Workers, Others(w), RowEffect(w), NEW v \in Workers \ {w}
    PROVE  Ready(req'[v], inv', alloc', rcpt')
<1> DEFINE q == req[v]
<1>0. Ready(q, inv, alloc, rcpt) /\ Placed(q) /\ req'[v] = q
      /\ q.due \in [Invoices -> Nat]
  BY LocalTypes DEF ReadyInv, Others
<1>1. ASSUME q.pc \in InvoiceLabels
      PROVE  /\ q.op \notin {"complete", "void"}
             /\ inv'[q.i].st # "none" /\ q.copy.st # "none" /\ q.copy.paid = inv'[q.i].paid
  <2>1. inv'[q.i] = inv[q.i]
    BY <1>1, WorksOn, Untouched
  <2> QED BY <1>0, <1>1, <2>1 DEF Ready
<1>2. ASSUME q.pc = "allocate"
      PROVE  /\ q.op = "create_receipt" /\ rcpt'[q.r].st = "draft"
             /\ \A i \in Invoices : q.due[i] > 0 => inv'[i].st # "none"
  <2>1. rcpt'[q.r] = rcpt[q.r]
    BY <1>0, <1>2, Untouched DEF Placed
  <2> QED BY <1>0, <1>2, <2>1, Untouched DEF Ready, Entered
<1>3. ASSUME q.pc \in MoveLabels
      PROVE  q.op \in {"complete", "void"} /\ rcpt'[q.r].st = Stage(q)
  <2>1. rcpt'[q.r] = rcpt[q.r]
    BY <1>0, <1>3, Untouched DEF Placed
  <2> QED BY <1>0, <1>3, <2>1 DEF Ready
<1>4. ASSUME q.pc = "apply", NEW i \in Invoices
      PROVE  /\ q.due[i] \in {0, alloc'[q.r][i]}
             /\ q.due[i] > 0 => q.snap[i].st # "none" /\ q.snap[i].paid = inv'[i].paid
  <2>1. alloc'[q.r][i] = alloc[q.r][i]
    BY <1>0, <1>4, Untouched DEF Placed, MoveLabels
  <2>2. q.due[i] > 0 => inv'[i] = inv[i]
    BY <1>4, WorksOn, Untouched
  <2> QED BY <1>0, <1>4, <2>1, <2>2 DEF Ready
<1>5. (q.pc = "idle" => q = Idle) /\ q.op # "auto_match" /\ q.pc # "find_open"
      /\ (q.pc \in InvoiceLabels <=> q.i # 0)
  BY <1>0 DEF Ready
<1> HIDE DEF q
<1>6. Ready(q, inv', alloc', rcpt')
  BY <1>1, <1>2, <1>3, <1>4, <1>5 DEF Ready
<1> QED BY <1>0, <1>6

\* An idle worker relies on nothing.
LEMMA IdleReady == ASSUME NEW iv, NEW al, NEW rc PROVE Ready(Idle, iv, al, rc)
  BY DEF Ready, Idle, InvoiceLabels, MoveLabels

\* The worker's own request relies, at its next statement, on what the step made true.
LEMMA OwnReady ==
    ASSUME TypeInv, ReadyInv, NEW w \in Workers, RowEffect(w)
    PROVE  Ready(req'[w], inv', alloc', rcpt')
<1> DEFINE q == req[w]
           n == req'[w]
<1> SUFFICES Ready(n, inv', alloc', rcpt')
  OBVIOUS
<1>0. /\ Ready(q, inv, alloc, rcpt) /\ Placed(q) /\ 0 \notin Invoices
      /\ q.due \in [Invoices -> Nat] /\ alloc \in [Receipts -> [Invoices -> Nat]]
  BY LocalTypes DEF ReadyInv, TypeInv, TypeOK, Invoices
<1>1. CASE n = Idle
  BY <1>1, IdleReady
<1>2. CASE n.pc \in InvoiceLabels /\ (EntersInvoice(w) \/ TakesInvoice(w))
  <2>1. /\ n.i \in Invoices /\ n.op \in WorkflowOps \cup {"edit", "create_invoice"}
        /\ inv'[n.i].st # "none" /\ n.copy.st # "none" /\ n.copy.paid = inv'[n.i].paid
    <3>1. CASE EntersInvoice(w)
      BY <3>1 DEF EntersInvoice
    <3>2. CASE TakesInvoice(w)
      BY <3>2 DEF TakesInvoice, SameRows, Entered
    <3> QED BY <1>2, <3>1, <3>2
  <2> HIDE DEF n
  <2> QED BY <1>0, <1>2, <2>1 DEF Ready, WorkflowOps, InvoiceLabels, MoveLabels
<1>3. CASE n.pc \in InvoiceLabels /\ (HoldsInvoice(w) \/ SavesInvoice(w))
  <2>1. CASE n = Idle
    BY <2>1, IdleReady
  <2>2. CASE n # Idle
    <3>1. /\ q.pc \in InvoiceLabels /\ n.i = q.i /\ n.op = q.op
          /\ n.copy.st = q.copy.st /\ n.copy.paid = q.copy.paid
      BY <1>3, <2>2 DEF HoldsInvoice, SavesInvoice, GoesOn, Keeps
    <3>2. /\ q.i # 0 /\ q.op \notin {"complete", "void", "auto_match"}
          /\ inv[q.i].st # "none" /\ q.copy.st # "none" /\ q.copy.paid = inv[q.i].paid
      BY <1>0, <3>1 DEF Ready
    <3>3. inv'[q.i].st # "none" /\ q.copy.paid = inv'[q.i].paid
      BY <1>3, <3>1, <3>2 DEF HoldsInvoice, SavesInvoice, SameRows
    <3> HIDE DEF n, q
    <3> QED BY <1>3, <3>1, <3>2, <3>3 DEF Ready, InvoiceLabels, MoveLabels
  <2> QED BY <2>1, <2>2
<1>4. CASE EntersReceipt(w)
  <2>1. /\ n.pc = "allocate" /\ n.op = "create_receipt" /\ n.i = 0 /\ rcpt'[n.r].st = "draft"
        /\ \A i \in Invoices : n.due[i] > 0 => inv'[i].st # "none"
    BY <1>4 DEF EntersReceipt, Entered
  <2> HIDE DEF n
  <2> QED BY <2>1 DEF Ready, InvoiceLabels, MoveLabels
<1>5. CASE n # Idle /\ Allocates(w)
  <2>1. /\ n.pc = "allocate" /\ n.op = q.op /\ n.r = q.r /\ n.i = q.i /\ q.pc = "allocate"
        /\ \A k \in Invoices : n.due[k] \in {0, q.due[k]}
        /\ inv' = inv /\ rcpt' = rcpt
    BY <1>5 DEF Allocates, GoesOn, Keeps
  <2>2. /\ q.op = "create_receipt" /\ q.i = 0 /\ rcpt[q.r].st = "draft"
        /\ \A i \in Invoices : q.due[i] > 0 => inv[i].st # "none"
    BY <1>0, <2>1 DEF Ready, InvoiceLabels
  <2> HIDE DEF n, q
  <2> QED BY <2>1, <2>2 DEF Ready, InvoiceLabels, MoveLabels
<1>6. CASE TakesReceipt(w)
  <2>1. /\ n.i = 0 /\ \/ n.op = "complete" /\ n.pc = "bank"
                      \/ n.op = "void" /\ n.pc = "ar"
        /\ rcpt'[n.r].st = Stage(n)
    BY <1>6 DEF TakesReceipt, SameRows, Stage
  <2> HIDE DEF n
  <2> QED BY <2>1 DEF Ready, InvoiceLabels, MoveLabels
<1>7. ASSUME q.pc \in MoveLabels, n.pc \in MoveLabels, GoesOn(w),
             rcpt'[q.r].st = Stage(n),
             n.pc = "apply" => \A i \in Invoices :
                 /\ n.due[i] \in {0, alloc'[q.r][i]}
                 /\ n.due[i] > 0 => n.snap[i].st # "none" /\ n.snap[i].paid = inv'[i].paid
      PROVE  Ready(n, inv', alloc', rcpt')
  <2>1. n.op \in {"complete", "void"} /\ n.i = 0 /\ n.r = q.r
    BY <1>0, <1>7 DEF GoesOn, Keeps, Ready, InvoiceLabels, MoveLabels
  <2> HIDE DEF n, q
  <2> QED BY <1>7, <2>1 DEF Ready, InvoiceLabels, MoveLabels
<1>8. ASSUME q.pc \in MoveLabels PROVE q.op \in {"complete", "void"} /\ rcpt[q.r].st = Stage(q)
  BY <1>0, <1>8 DEF Ready
<1>9. CASE PostsEntry(w)
  <2>1. q.pc \in MoveLabels /\ n.pc \in MoveLabels /\ GoesOn(w) /\ n.pc # "apply" /\ n.op = q.op
    BY <1>9 DEF PostsEntry, MoveLabels, GoesOn, Keeps
  <2>2. Stage(n) = Stage(q)
    BY <1>8, <1>9, <2>1 DEF PostsEntry, Stage
  <2> HIDE DEF n, q
  <2> QED BY <1>7, <1>8, <1>9, <2>1, <2>2 DEF PostsEntry, SameRows
<1>10. CASE n # Idle /\ MarksReceipt(w)
  <2>1. /\ q.pc = "save_receipt" /\ n.pc = "load" /\ GoesOn(w)
        /\ n.op = "complete" /\ rcpt'[q.r].st = "completed"
    BY <1>10 DEF MarksReceipt, GoesOn, Keeps
  <2>2. Stage(n) = "completed"
    BY <2>1 DEF Stage
  <2> HIDE DEF n, q
  <2> QED BY <1>7, <2>1, <2>2 DEF MoveLabels
<1>11. ASSUME q.pc \in {"load", "apply"}, rcpt' = rcpt, n # Idle, PassesOn(w)
       PROVE  Ready(n, inv', alloc', rcpt')
  <2>1. q.op = "void" /\ n.op = "void" /\ n.pc = "save_receipt" /\ GoesOn(w)
        /\ q.pc \in MoveLabels
    BY <1>11 DEF PassesOn, GoesOn, Keeps, MoveLabels
  <2>2. rcpt'[q.r].st = "completed"
    BY <1>8, <1>11, <2>1 DEF Stage
  <2>3. Stage(n) = "completed"
    BY <2>1 DEF Stage
  <2> HIDE DEF n, q
  <2> QED BY <1>7, <2>1, <2>2, <2>3 DEF MoveLabels
<1>12. CASE n # Idle /\ LoadsInvoices(w)
  <2>1. CASE PassesOn(w)
    BY <1>11, <1>12, <2>1 DEF LoadsInvoices, SameRows
  <2>2. CASE ~PassesOn(w)
    <3>1. /\ q.pc = "load" /\ n.pc = "apply" /\ GoesOn(w) /\ n.op = q.op
          /\ n.due = alloc[q.r] /\ n.snap = inv /\ SameRows
      BY <1>12, <2>2 DEF LoadsInvoices, GoesOn, Keeps
    <3>2. rcpt[q.r].st = "completed" /\ Stage(n) = "completed" /\ q.r \in Receipts
      BY <1>0, <1>8, <3>1 DEF Stage, MoveLabels, Placed
    <3>3. \A i \in Invoices : n.due[i] > 0 => inv[i].st # "none"
      BY <3>1, <3>2 DEF ReadyInv, AllEntered, Entered
    <3> HIDE DEF n, q
    <3> QED BY <1>7, <3>1, <3>2, <3>3 DEF SameRows, MoveLabels
  <2> QED BY <2>1, <2>2
<1>13. ASSUME NEW i \in Invoices, AppliesTo(w, i), n # Idle
       PROVE  Ready(n, inv', alloc', rcpt')
  <2>1. CASE PassesOn(w)
    BY <1>11, <1>13, <2>1 DEF AppliesTo
  <2>2. CASE ~PassesOn(w)
    <3>1. /\ q.pc = "apply" /\ n.pc = "apply" /\ GoesOn(w) /\ n.op = q.op
          /\ n.due = [q.due EXCEPT ![i] = 0] /\ n.snap = q.snap
          /\ alloc' = alloc /\ rcpt' = rcpt /\ \A k \in Invoices \ {i} : inv'[k] = inv[k]
      BY <1>13, <2>2 DEF AppliesTo, GoesOn, Keeps
    <3>2. rcpt[q.r].st = "completed" /\ Stage(n) = "completed"
      BY <1>8, <3>1 DEF Stage, MoveLabels
    <3>3. ASSUME NEW k \in Invoices
          PROVE  /\ n.due[k] \in {0, alloc[q.r][k]}
                 /\ n.due[k] > 0 => n.snap[k].st # "none" /\ n.snap[k].paid = inv'[k].paid
      <4>1. CASE k = i
        BY <1>0, <3>1, <4>1
      <4>2. CASE k # i
        <5>1. n.due[k] = q.due[k] /\ inv'[k] = inv[k]
          BY <1>0, <3>1, <4>2
        <5> QED BY <1>0, <3>1, <5>1 DEF Ready
      <4> QED BY <4>1, <4>2
    <3> HIDE DEF n, q
    <3> QED BY <1>7, <3>1, <3>2, <3>3 DEF MoveLabels
  <2> QED BY <2>1, <2>2
<1> QED
  BY <1>1, <1>2, <1>3, <1>4, <1>5, <1>6, <1>9, <1>10, <1>12, <1>13
  DEF RowEffect, Dies, OnInvoice, OnReceipt, EntersInvoice, TakesInvoice, HoldsInvoice,
      SavesInvoice, InvoiceLabels

\* Which invoices the requests are going to save: a step adds one only if nobody else
\* is going to save it.
LEMMA SavesStep ==
    ASSUME TypeInv, ReadyInv, NEW w \in Workers, Others(w), RowEffect(w)
    PROVE  /\ \A v \in Workers \ {w} : Saves(v)' = Saves(v)
           /\ \/ Saves(w)' \subseteq Saves(w)
              \/ \A v \in Workers \ {w} : Saves(w)' \cap Saves(v) = {}
<1> DEFINE q == req[w]
           n == req'[w]
<1>0. \A v \in Workers : Ready(req[v], inv, alloc, rcpt) /\ Placed(req[v])
                         /\ req[v].pc \in Labels
  BY LocalTypes DEF ReadyInv, Request
<1>1. ASSUME NEW v \in Workers, req[v].op \in {"complete", "void"}
      PROVE  req[v].pc \in MoveLabels /\ req[v].r \in Receipts
  <2>1. /\ req[v].pc # "idle" /\ req[v].pc \notin InvoiceLabels
        /\ req[v].pc # "allocate" /\ req[v].pc # "find_open"
    BY <1>0, <1>1 DEF Ready, Idle
  <2>2. req[v].pc \in MoveLabels
    BY <1>0, <2>1 DEF Labels, InvoiceLabels, MoveLabels
  <2> QED BY <1>0, <2>2 DEF Placed
<1>2. ASSUME NEW v \in Workers \ {w} PROVE Saves(v)' = Saves(v)
  <2>1. req'[v] = req[v]
    BY DEF Others
  <2>2. ASSUME req[v].op \in {"complete", "void"}
        PROVE  AllocatedTo(req[v].r)' = AllocatedTo(req[v].r)
    BY <1>1, <2>1, <2>2, Untouched DEF AllocatedTo
  <2> QED BY <2>1, <2>2 DEF Saves
<1>3. CASE n = Idle
  <2>1. Saves(w)' = {}
    BY <1>3 DEF Saves, Idle
  <2> QED BY <1>2, <2>1
<1>4. CASE EntersInvoice(w) \/ TakesInvoice(w)
  <2>1. PICK i \in Invoices : /\ n.i = i /\ n.op \notin {"complete", "void"}
                              /\ \A v \in Workers : i \notin Saves(v)
    <3>1. CASE EntersInvoice(w)
      BY <3>1, WorksOn DEF EntersInvoice
    <3>2. CASE TakesInvoice(w)
      BY <3>2 DEF TakesInvoice, WorkflowOps
    <3> QED BY <1>4, <3>1, <3>2
  <2>2. Saves(w)' \subseteq {i}
    BY <2>1 DEF Saves
  <2> QED BY <1>2, <2>1, <2>2
<1>5. CASE EntersReceipt(w)
  <2>1. Saves(w)' = {}
    BY <1>5 DEF EntersReceipt, Saves
  <2> QED BY <1>2, <2>1
<1>6. CASE TakesReceipt(w)
  <2>1. PICK r \in Receipts : /\ n.r = r /\ n.i = 0 /\ alloc' = alloc
                              /\ \A v \in Workers : Saves(v) \cap AllocatedTo(r) = {}
    BY <1>6 DEF TakesReceipt, SameRows
  <2>2. Saves(w)' \subseteq AllocatedTo(r)
    BY <2>1 DEF Saves, AllocatedTo
  <2> QED BY <1>2, <2>1, <2>2
<1>7. CASE Allocates(w) /\ n # Idle
  <2>1. n.op = "create_receipt" /\ n.i = 0
    BY <1>0, <1>7 DEF Allocates, GoesOn, Keeps, Ready, InvoiceLabels
  <2>2. Saves(w)' = {}
    BY <2>1 DEF Saves
  <2> QED BY <1>2, <2>2
<1>8. CASE alloc' = alloc /\ GoesOn(w)
  <2>1. Saves(w)' = Saves(w)
    BY <1>8 DEF GoesOn, Keeps, Saves, AllocatedTo
  <2> QED BY <1>2, <2>1
<1>9. \/ n = Idle \/ EntersInvoice(w) \/ TakesInvoice(w) \/ EntersReceipt(w) \/ TakesReceipt(w)
      \/ Allocates(w) \/ (alloc' = alloc /\ GoesOn(w))
  BY DEF RowEffect, Dies, OnInvoice, OnReceipt, HoldsInvoice, SavesInvoice, PostsEntry,
     MarksReceipt, LoadsInvoices, AppliesTo, PassesOn, SameRows
<1> QED BY <1>2, <1>3, <1>4, <1>5, <1>6, <1>7, <1>8, <1>9

\* The inductive invariant about what the requests rely on.
LEMMA ReadyStep ==
    ASSUME ReceiptsApart, InvoicesApart, NoAutoMatch, TypeInv, PostInv, ReadyInv, [Next]_vars
    PROVE  ReadyInv'
<1>0. OneEach' /\ \A w \in Workers : req[w].op # "auto_match"
  BY OneEachStep DEF ReadyInv, Ready
<1>1. ASSUME NEW w \in Workers, Others(w), RowEffect(w) PROVE ReadyInv'
  <2>1. \A v \in Workers : Ready(req'[v], inv', alloc', rcpt')
    BY <1>1, OthersReady, OwnReady
  <2>2. InvoicesOnce'
    <3>1. ASSUME NEW u \in Workers, NEW v \in Workers, u # v
          PROVE  Saves(u)' \cap Saves(v)' = {}
      <4>1. /\ \A x \in Workers \ {w} : Saves(x)' = Saves(x)
            /\ \/ Saves(w)' \subseteq Saves(w)
               \/ \A x \in Workers \ {w} : Saves(w)' \cap Saves(x) = {}
        BY <1>1, SavesStep
      <4>2. \A x \in Workers \ {w} : Saves(w) \cap Saves(x) = {}
        BY DEF ReadyInv, InvoicesOnce
      <4>3. \A x \in Workers \ {w} : Saves(w)' \cap Saves(x)' = {}
        BY <4>1, <4>2
      <4>4. CASE u # w /\ v # w
        BY <3>1, <4>1, <4>4 DEF ReadyInv, InvoicesOnce
      <4> QED BY <3>1, <4>3, <4>4
    <3> QED BY <3>1 DEF InvoicesOnce
  <2>3. AllEntered'
    <3>1. ASSUME NEW r \in Receipts, NEW i \in Invoices, alloc'[r][i] > 0
          PROVE  inv'[i].st # "none"
      <4>1. CASE alloc'[r][i] = alloc[r][i]
        BY <1>1, <3>1, <4>1, Untouched DEF ReadyInv, AllEntered
      <4>2. CASE alloc'[r][i] # alloc[r][i]
        <5>1. Allocates(w)
          BY <1>1, <4>2 DEF RowEffect, Dies, OnInvoice, OnReceipt, EntersInvoice,
             TakesInvoice, HoldsInvoice, SavesInvoice, EntersReceipt, TakesReceipt,
             PostsEntry, MarksReceipt, LoadsInvoices, AppliesTo, SameRows
        <5>2. req[w].pc = "allocate" /\ req[w].due[i] > 0
          BY <4>2, <5>1 DEF Allocates
        <5>3. Entered(i)
          BY <5>2 DEF ReadyInv, Ready, Entered
        <5> QED BY <1>1, <5>3, Untouched
      <4> QED BY <4>1, <4>2
    <3> QED BY <3>1 DEF AllEntered, Entered
  <2> QED BY <1>0, <2>1, <2>2, <2>3 DEF ReadyInv
<1>2. CASE UNCHANGED <<inv, alloc, rcpt, req, crashes>>
  BY <1>2 DEF ReadyInv, OneEach, InvoicesOnce, AllEntered, Entered, Saves, AllocatedTo
<1> QED BY <1>0, <1>1, <1>2, NextRowEffect

\* Initially no request is served.
LEMMA ReadyInit == Init => ReadyInv
  BY IdleReady DEF Init, ReadyInv, OneEach, InvoicesOnce, AllEntered, Saves, Idle, NoAmounts

-----------------------------------------------------------------------------
(* What each receipt contributes to each invoice, step by step.                    *)

\* The request q on a receipt has not yet added the receipt's allocation to invoice i
\* to it, or has already taken it back.
Pending(q, i) ==
    \/ q.op = "complete" /\ (q.pc = "load" \/ (q.pc = "apply" /\ q.due[i] > 0))
    \/ q.op = "void" /\ (q.pc = "save_receipt" \/ (q.pc = "apply" /\ ~(q.due[i] > 0)))

Withholds(q, r, i) == q.r = r /\ Pending(q, i)

\* Contribution and its value in the next state, over the requests' local values.
LEMMA ContributionIs ==
    ASSUME NEW r \in Receipts, NEW i \in Invoices
    PROVE  /\ Contribution(r, i) =
                 IF rcpt[r].st = "completed" /\ \A v \in Workers : ~Withholds(req[v], r, i)
                 THEN alloc[r][i] ELSE 0
           /\ Contribution(r, i)' =
                 IF rcpt'[r].st = "completed" /\ \A v \in Workers : ~Withholds(req'[v], r, i)
                 THEN alloc'[r][i] ELSE 0
<1>1. /\ \A v \in Workers : req[v].r = r =>
             (Pending(req[v], i) <=>
                 \/ req[v].op = "complete" /\ At(v, "load")
                 \/ req[v].op = "complete" /\ At(v, "apply") /\ i \in Todo(v)
                 \/ req[v].op = "void" /\ At(v, "apply") /\ i \notin Todo(v)
                 \/ req[v].op = "void" /\ At(v, "save_receipt"))
      /\ \A v \in Workers : req'[v].r = r =>
             (Pending(req'[v], i) <=>
                 \/ req'[v].op = "complete" /\ At(v, "load")'
                 \/ req'[v].op = "complete" /\ At(v, "apply")' /\ i \in Todo(v)'
                 \/ req'[v].op = "void" /\ At(v, "apply")' /\ i \notin Todo(v)'
                 \/ req'[v].op = "void" /\ At(v, "save_receipt")')
  BY DEF Pending, At, Todo
<1>2. Contribution(r, i) =
          IF rcpt[r].st = "completed" /\ \A v \in Workers : ~Withholds(req[v], r, i)
          THEN alloc[r][i] ELSE 0
  BY <1>1, Zenon DEF Contribution, Withholds
<1>3. Contribution(r, i)' =
          IF rcpt'[r].st = "completed" /\ \A v \in Workers : ~Withholds(req'[v], r, i)
          THEN alloc'[r][i] ELSE 0
  BY <1>1, Zenon DEF Contribution, Withholds
<1> QED BY <1>2, <1>3

\* If worker w alone works on receipt r, before the step and after it, its request
\* decides what the receipt contributes.
LEMMA ContributionAlone ==
    ASSUME NEW w \in Workers, Others(w), NEW r \in Receipts, NEW i \in Invoices,
           \A v \in Workers \ {w} : req[v].r # r
    PROVE  /\ Contribution(r, i) =
                 IF rcpt[r].st = "completed" /\ ~Withholds(req[w], r, i)
                 THEN alloc[r][i] ELSE 0
           /\ Contribution(r, i)' =
                 IF rcpt'[r].st = "completed" /\ ~Withholds(req'[w], r, i)
                 THEN alloc'[r][i] ELSE 0
<1>1. \A v \in Workers \ {w} : ~Withholds(req[v], r, i) /\ ~Withholds(req'[v], r, i)
  BY DEF Others, Withholds
<1> QED BY <1>1, ContributionIs

\* A step changes what a receipt contributes to an invoice only by the payment that it
\* makes or takes back.
LEMMA ContributionStep ==
    ASSUME TypeInv, PostInv, ReadyInv, OneEach', NEW w \in Workers, Others(w),
           OnInvoice(w) \/ OnReceipt(w), NEW r \in Receipts, NEW i \in Invoices,
           ~(r = req[w].r /\ AppliesTo(w, i))
    PROVE  Contribution(r, i)' = Contribution(r, i)
<1> DEFINE q == req[w]
           n == req'[w]
<1>0. /\ Ready(q, inv, alloc, rcpt) /\ Placed(q) /\ r # 0
      /\ q.due \in [Invoices -> Nat] /\ alloc \in [Receipts -> [Invoices -> Nat]]
  BY LocalTypes, ReceivablesAssumption DEF ReadyInv, TypeInv, TypeOK
<1>i. q.pc \notin MoveLabels => ~Withholds(q, r, i)
  BY DEF Withholds, Pending, MoveLabels
<1>j. n = Idle => ~Withholds(n, r, i)
  BY DEF Withholds, Pending, Idle
<1>1. CASE q.r # r /\ n.r # r
  <2>1. rcpt'[r] = rcpt[r] /\ alloc'[r][i] = alloc[r][i]
    BY <1>1 DEF OnInvoice, OnReceipt, EntersInvoice, TakesInvoice, HoldsInvoice,
       SavesInvoice, EntersReceipt, Allocates, TakesReceipt, PostsEntry, MarksReceipt,
       LoadsInvoices, AppliesTo, SameRows
  <2>2. \A v \in Workers : ~Withholds(req[v], r, i) <=> ~Withholds(req'[v], r, i)
    BY <1>1 DEF Others, Withholds
  <2> QED BY <2>1, <2>2, ContributionIs
<1>2. CASE q.r = r \/ n.r = r
  <2>0. \A v \in Workers \ {w} : req[v].r # r
    BY <1>0, <1>2 DEF ReadyInv, OneEach, Others
  <2>c. /\ Contribution(r, i) =
              IF rcpt[r].st = "completed" /\ ~Withholds(q, r, i) THEN alloc[r][i] ELSE 0
        /\ Contribution(r, i)' =
              IF rcpt'[r].st = "completed" /\ ~Withholds(n, r, i) THEN alloc'[r][i] ELSE 0
    BY <2>0, ContributionAlone
  <2>s. ASSUME rcpt'[r].st = rcpt[r].st, alloc'[r][i] = alloc[r][i],
               Withholds(q, r, i) <=> Withholds(n, r, i)
        PROVE  Contribution(r, i)' = Contribution(r, i)
    BY <2>c, <2>s
  <2>1. CASE OnInvoice(w)
    <3>1. rcpt' = rcpt /\ alloc' = alloc /\ q.pc \notin MoveLabels
      BY <2>1 DEF OnInvoice, EntersInvoice, TakesInvoice, HoldsInvoice, SavesInvoice,
         SameRows, MoveLabels, InvoiceLabels
    <3>2. n = Idle \/ n.pc \in InvoiceLabels
      BY <2>1 DEF OnInvoice, EntersInvoice, TakesInvoice, HoldsInvoice, SavesInvoice,
         InvoiceLabels
    <3>3. ~Withholds(n, r, i)
      BY <1>j, <3>2 DEF InvoiceLabels, Withholds, Pending
    <3> QED BY <1>i, <2>s, <3>1, <3>3
  <2>2. CASE EntersReceipt(w)
    <3>1. q.r # r /\ n.r = r
      <4>1. q = Idle
        BY <1>0, <2>2 DEF EntersReceipt, Ready
      <4>2. q.r = 0
        BY <4>1 DEF Idle
      <4> QED BY <1>0, <1>2, <4>2
    <3>2. rcpt[r].st = "none" /\ rcpt'[r].st = "draft"
      BY <2>2, <3>1 DEF EntersReceipt
    <3> QED BY <2>c, <3>2
  <2>3. CASE Allocates(w)
    <3>1. q.r = r
      BY <1>0, <1>2, <2>3 DEF Allocates, GoesOn, Keeps, Idle
    <3>2. rcpt[r].st = "draft" /\ rcpt'[r].st = "draft"
      BY <1>0, <2>3, <3>1 DEF Allocates, Ready
    <3> QED BY <2>c, <3>2
  <2>4. CASE TakesReceipt(w)
    <3>1. q.pc \notin MoveLabels /\ SameRows /\ ~Withholds(n, r, i)
      BY <2>4 DEF TakesReceipt, MoveLabels, Withholds, Pending
    <3> QED BY <1>i, <2>s, <3>1 DEF SameRows
  <2>5. CASE PostsEntry(w)
    <3>1. SameRows /\ ~Withholds(q, r, i) /\ ~Withholds(n, r, i)
      BY <2>5 DEF PostsEntry, GoesOn, Keeps, Withholds, Pending
    <3> QED BY <2>s, <3>1 DEF SameRows
  <2>m. ASSUME q.pc \in MoveLabels
        PROVE  /\ q.op \in {"complete", "void"} /\ rcpt[q.r].st = Stage(q)
               /\ q.r = r \/ n = Idle \/ ~GoesOn(w)
    BY <1>0, <1>2, <2>m DEF Ready, GoesOn, Keeps
  <2>6. CASE MarksReceipt(w)
    <3>1. q.r = r /\ q.pc = "save_receipt"
      BY <1>0, <1>2, <2>6 DEF MarksReceipt, GoesOn, Keeps, Idle
    <3>2. CASE q.op = "complete"
      <4>1. rcpt[r].st = "draft" /\ Withholds(n, r, i)
        BY <2>m, <2>6, <3>1, <3>2 DEF MarksReceipt, GoesOn, Keeps, Withholds, Pending, Stage,
           MoveLabels
      <4> QED BY <2>c, <4>1
    <3>3. CASE q.op = "void"
      <4>1. rcpt'[r].st = "void" /\ Withholds(q, r, i)
        BY <2>6, <3>1, <3>3 DEF MarksReceipt, Withholds, Pending
      <4> QED BY <2>c, <4>1
    <3> QED BY <2>m, <3>1, <3>2, <3>3 DEF MoveLabels
  <2>7. CASE LoadsInvoices(w)
    <3>1. /\ q.r = r /\ q.pc = "load" /\ q.op \in {"complete", "void"} /\ SameRows
          /\ alloc[r][i] \in Nat
      BY <1>0, <1>2, <2>7, <2>m DEF LoadsInvoices, PassesOn, GoesOn, Keeps, Idle, MoveLabels
    <3>2. CASE AllocatedTo(r) = {}
      <4>1. alloc[r][i] = 0
        BY <3>1, <3>2 DEF AllocatedTo
      <4> QED BY <2>c, <3>1, <4>1 DEF SameRows
    <3>3. CASE AllocatedTo(r) # {}
      <4>1. n.pc = "apply" /\ n.op = q.op /\ n.r = r /\ n.due = alloc[r]
        BY <2>7, <3>1, <3>3 DEF LoadsInvoices, GoesOn, Keeps
      <4>2. CASE q.op = "complete"
        <5>1. Withholds(q, r, i) /\ (Withholds(n, r, i) <=> alloc[r][i] > 0)
          BY <3>1, <4>1, <4>2 DEF Withholds, Pending
        <5> QED BY <2>c, <3>1, <5>1 DEF SameRows
      <4>3. CASE q.op = "void"
        <5>1. ~Withholds(q, r, i) /\ (Withholds(n, r, i) <=> ~(alloc[r][i] > 0))
          BY <3>1, <4>1, <4>3 DEF Withholds, Pending
        <5> QED BY <2>c, <3>1, <5>1 DEF SameRows
      <4> QED BY <3>1, <4>2, <4>3
    <3> QED BY <3>2, <3>3
  <2>8. ASSUME NEW k \in Invoices, AppliesTo(w, k) PROVE Contribution(r, i)' = Contribution(r, i)
    <3>1. q.r = r /\ q.pc = "apply" /\ q.op \in {"complete", "void"}
      BY <1>0, <1>2, <2>8, <2>m DEF AppliesTo, PassesOn, GoesOn, Keeps, Idle, MoveLabels
    <3>2. i # k
      BY <2>8, <3>1
    <3>3. rcpt' = rcpt /\ alloc' = alloc
      BY <2>8 DEF AppliesTo
    <3>4. CASE n.pc = "apply" /\ GoesOn(w) /\ n.due = [q.due EXCEPT ![k] = 0]
      <4>1. n.op = q.op /\ n.r = q.r /\ n.due[i] = q.due[i]
        BY <1>0, <3>2, <3>4 DEF GoesOn, Keeps
      <4>2. Withholds(q, r, i) <=> Withholds(n, r, i)
        BY <3>1, <3>4, <4>1 DEF Withholds, Pending
      <4> QED BY <2>s, <3>3, <4>2
    <3>5. CASE q.due[i] = 0 /\ PassesOn(w)
      <4>1. CASE q.op = "void"
        <5>1. Withholds(q, r, i) /\ Withholds(n, r, i)
          BY <3>1, <3>5, <4>1 DEF PassesOn, GoesOn, Keeps, Withholds, Pending
        <5> QED BY <2>s, <3>3, <5>1
      <4>2. CASE q.op = "complete"
        <5>1. ~Withholds(q, r, i) /\ n = Idle
          BY <3>1, <3>5, <4>2 DEF PassesOn, Withholds, Pending
        <5> QED BY <1>j, <2>s, <3>3, <5>1
      <4> QED BY <3>1, <4>1, <4>2
    <3> QED BY <2>8, <3>2, <3>4, <3>5 DEF AppliesTo
  <2> QED BY <2>1, <2>2, <2>3, <2>4, <2>5, <2>6, <2>7, <2>8 DEF OnReceipt
<1> QED BY <1>1, <1>2

\* The payment of one allocation, and its reversal.
LEMMA AppliesContribution ==
    ASSUME TypeInv, ReadyInv, OneEach', NEW w \in Workers, Others(w), NEW i \in Invoices,
           AppliesTo(w, i), NEW c \in Receipts, c = req[w].r
    PROVE  LET q == req[w] IN
           /\ q.due[i] \in Nat /\ q.snap[i].paid = inv[i].paid
           /\ \/ /\ q.op = "complete"
                 /\ Contribution(c, i) = 0 /\ Contribution(c, i)' = q.due[i]
              \/ /\ q.op = "void"
                 /\ Contribution(c, i) = q.due[i] /\ Contribution(c, i)' = 0
<1> DEFINE q == req[w]
           n == req'[w]
<1>0. /\ Ready(q, inv, alloc, rcpt) /\ Placed(q) /\ q.due \in [Invoices -> Nat]
      /\ alloc \in [Receipts -> [Invoices -> Nat]] /\ \A s \in Receipts : s # 0
  BY LocalTypes, ReceivablesAssumption DEF ReadyInv, TypeInv, TypeOK
<1>1. q.pc = "apply" /\ q.due[i] > 0 /\ rcpt' = rcpt /\ alloc' = alloc
  BY DEF AppliesTo
<1>2. /\ q.op \in {"complete", "void"} /\ rcpt[q.r].st = Stage(q) /\ q.r = c
      /\ q.snap[i].paid = inv[i].paid
  BY <1>0, <1>1 DEF Ready, Placed, MoveLabels
<1>3. rcpt[c].st = "completed" /\ alloc[c][i] = q.due[i]
  BY <1>1, <1>2, WorksOn DEF Stage
<1>4. \A v \in Workers \ {w} : req[v].r # c
  BY <1>0, <1>2 DEF ReadyInv, OneEach
<1>5. /\ Contribution(c, i) =
            IF rcpt[c].st = "completed" /\ ~Withholds(q, c, i) THEN alloc[c][i] ELSE 0
      /\ Contribution(c, i)' =
            IF rcpt'[c].st = "completed" /\ ~Withholds(n, c, i) THEN alloc'[c][i] ELSE 0
  BY <1>2, <1>4, ContributionAlone
<1>6. CASE q.op = "complete"
  <2>1. Withholds(q, c, i)
    BY <1>1, <1>6 DEF Withholds, Pending
  <2>2. ~Withholds(n, c, i)
    <3>1. n = Idle \/ (n.op = "complete" /\ n.pc = "apply" /\ n.due = [q.due EXCEPT ![i] = 0])
      BY <1>6 DEF AppliesTo, PassesOn, GoesOn, Keeps
    <3>2. n = Idle \/ (n.op = "complete" /\ n.pc = "apply" /\ n.due[i] = 0)
      BY <1>0, <3>1
    <3> HIDE DEF n
    <3> QED BY <3>2 DEF Withholds, Pending, Idle
  <2> QED BY <1>0, <1>1, <1>2, <1>3, <1>5, <1>6, <2>1, <2>2
<1>7. CASE q.op = "void"
  <2>1. ~Withholds(q, c, i)
    BY <1>1, <1>7 DEF Withholds, Pending
  <2>2. Withholds(n, c, i)
    <3>1. /\ n.op = "void" /\ n.r = c
          /\ n.pc = "save_receipt" \/ (n.pc = "apply" /\ n.due = [q.due EXCEPT ![i] = 0])
      BY <1>7 DEF AppliesTo, PassesOn, GoesOn, Keeps
    <3>2. n.pc = "save_receipt" \/ (n.pc = "apply" /\ n.due[i] = 0)
      BY <1>0, <3>1
    <3> HIDE DEF n, q
    <3> QED BY <3>1, <3>2 DEF Withholds, Pending
  <2> QED BY <1>0, <1>1, <1>2, <1>3, <1>5, <1>7, <2>1, <2>2
<1> QED BY <1>2, <1>6, <1>7

\* Each step changes amount_paid of an invoice by as much as it changes what the
\* receipts contribute to it; a sum follows a change of one summand.
LEMMA ReceivedStep ==
    ASSUME ReceiptsApart, InvoicesApart, NoAutoMatch, IsFiniteSet(Receipts),
           TypeInv, PostInv, ReadyInv, PaidIsReceived, TypeInv', ReadyInv', [Next]_vars
    PROVE  PaidIsReceived'
<1>0. \A w \in Workers : req[w].op # "auto_match"
  BY DEF ReadyInv, Ready
<1>t. /\ \A r \in Receipts, i \in Invoices :
            Contribution(r, i) \in Nat /\ Contribution(r, i)' \in Nat
      /\ crashes \in Nat /\ crashes' \in Nat
      /\ \A i \in Invoices : inv[i].paid \in Nat /\ inv'[i].paid \in Nat
  <2>1. /\ \A r \in Receipts, i \in Invoices : alloc[r][i] \in Nat /\ alloc'[r][i] \in Nat
        /\ crashes \in Nat /\ crashes' \in Nat
        /\ \A i \in Invoices : inv[i] \in Invoice /\ inv'[i] \in Invoice
    BY ReceivablesAssumption DEF TypeInv, TypeOK
  <2> QED BY <2>1, ContributionIs DEF Invoice
<1>1. ASSUME NEW w \in Workers, Others(w), crashes' = crashes, OnInvoice(w) \/ OnReceipt(w),
             crashes = 0, NEW i \in Invoices
      PROVE  inv'[i].paid = SumOf([r \in Receipts |-> Contribution(r, i)'])
  <2> DEFINE g == [r \in Receipts |-> Contribution(r, i)]
             h == [r \in Receipts |-> Contribution(r, i)']
  <2>0. /\ g \in [Receipts -> Nat] /\ h \in [Receipts -> Nat]
        /\ \A r \in Receipts : g[r] = Contribution(r, i) /\ h[r] = Contribution(r, i)'
    BY <1>t
  <2>1. inv[i].paid = SumOf(g)
    BY <1>1 DEF PaidIsReceived
  <2>2. OneEach'
    BY DEF ReadyInv
  <2>3. CASE ~AppliesTo(w, i)
    <3>1. \A r \in Receipts : Contribution(r, i)' = Contribution(r, i)
      BY <1>1, <2>2, <2>3, ContributionStep
    <3>2. h = g
      BY <3>1
    <3>3. CASE inv'[i].paid = inv[i].paid
      BY <2>1, <3>2, <3>3
    <3>4. CASE EntersInvoice(w) /\ ~Entered(i) /\ inv'[i].paid = 0
      <4>1. \A r \in Receipts : alloc[r][i] \in Nat /\ ~(alloc[r][i] > 0)
        BY <3>4 DEF ReadyInv, AllEntered, TypeInv, TypeOK
      <4>2. \A r \in Receipts : g[r] = 0
        BY <4>1, ContributionIs
      <4>3. SumOf(g) = 0
        <5>1. g \in [Receipts -> Int]
          BY <2>0
        <5> HIDE DEF g
        <5> QED BY <4>2, <5>1, SumZero
      <4> QED BY <3>2, <3>4, <4>3
    <3>5. inv'[i].paid = inv[i].paid \/ (EntersInvoice(w) /\ ~Entered(i) /\ inv'[i].paid = 0)
      <4>1. CASE EntersInvoice(w)
        BY <4>1 DEF EntersInvoice
      <4>2. CASE SavesInvoice(w)
        <5>1. req[w].i \in Invoices /\ req[w].copy.paid = inv[req[w].i].paid
          BY <4>2, WorksOn DEF SavesInvoice, ReadyInv, Ready
        <5> QED BY <4>2, <5>1 DEF SavesInvoice
      <4>3. ASSUME NEW k \in Invoices, AppliesTo(w, k) PROVE inv'[i].paid = inv[i].paid
        BY <2>3, <4>3 DEF AppliesTo
      <4> QED
        BY <1>1, <4>1, <4>2, <4>3 DEF OnInvoice, OnReceipt, TakesInvoice, HoldsInvoice,
           EntersReceipt, Allocates, TakesReceipt, PostsEntry, MarksReceipt, LoadsInvoices,
           SameRows
    <3> QED BY <3>3, <3>4, <3>5
  <2>4. CASE AppliesTo(w, i)
    <3>0. PICK c \in Receipts : c = req[w].r
      BY <2>4, LocalTypes DEF AppliesTo, Placed, MoveLabels
    <3>1. PICK a \in Nat :
             /\ a = req[w].due[i] /\ req[w].snap[i].paid = inv[i].paid
             /\ \/ /\ req[w].op = "complete"
                   /\ Contribution(c, i) = 0 /\ Contribution(c, i)' = a
                \/ /\ req[w].op = "void"
                   /\ Contribution(c, i) = a /\ Contribution(c, i)' = 0
      BY <1>1, <2>2, <2>4, <3>0, AppliesContribution
    <3>2. \A r \in Receipts \ {c} : g[r] = h[r]
      BY <1>1, <2>2, <3>0, ContributionStep
    <3>3. /\ SumOf(g) \in Nat /\ SumOf(h) \in Nat /\ g[c] <= SumOf(g)
          /\ SumOf(g) + h[c] = SumOf(h) + g[c]
      <4> HIDE DEF g, h
      <4>1. g \in [Receipts -> Int] /\ h \in [Receipts -> Int]
        BY <2>0
      <4> QED BY <2>0, <3>2, <4>1, SumType, SumBounds, SumChange
    <3>4. CASE req[w].op = "complete"
      <4>1. inv'[i].paid = inv[i].paid + a
        BY <2>4, <3>1, <3>4 DEF AppliesTo
      <4>2. g[c] = 0 /\ h[c] = a
        BY <3>1, <3>4
      <4> HIDE DEF g, h
      <4>3. SumOf(h) = SumOf(g) + a
        BY <3>3, <4>2
      <4>4. inv'[i].paid = SumOf(h)
        BY <2>1, <4>1, <4>3
      <4> QED BY <4>4 DEF h
    <3>5. CASE req[w].op = "void"
      <4>1. inv'[i].paid = Left(inv[i].paid, a)
        BY <2>4, <3>1, <3>5 DEF AppliesTo
      <4>2. g[c] = a /\ h[c] = 0
        BY <3>1, <3>5
      <4> HIDE DEF g, h
      <4>3. SumOf(h) = Left(SumOf(g), a)
        BY <3>3, <4>2 DEF Left
      <4>4. inv'[i].paid = SumOf(h)
        BY <2>1, <4>1, <4>3
      <4> QED BY <4>4 DEF h
    <3> QED BY <3>1, <3>4, <3>5
  <2> QED BY <2>3, <2>4
<1>2. ASSUME NEW w \in Workers, Others(w), RowEffect(w) PROVE PaidIsReceived'
  <2>1. CASE Dies(w)
    BY <1>t, <2>1 DEF Dies, PaidIsReceived
  <2>2. CASE ~Dies(w)
    BY <1>1, <1>2, <2>2 DEF RowEffect, PaidIsReceived
  <2> QED BY <2>1, <2>2
<1>3. CASE UNCHANGED <<inv, alloc, rcpt, req, crashes>>
  <2>1. \A r \in Receipts, i \in Invoices : Contribution(r, i)' = Contribution(r, i)
    BY <1>3, ContributionIs
  <2>2. \A i \in Invoices : [r \in Receipts |-> Contribution(r, i)'] =
                            [r \in Receipts |-> Contribution(r, i)]
    BY <2>1
  <2> QED BY <1>3, <2>2 DEF PaidIsReceived
<1> QED BY <1>0, <1>2, <1>3, NextRowEffect

\* If nobody works on a receipt or on an invoice in two places at once, and cash
\* application is not used, the amount paid of every invoice is at every moment the sum of
\* what the completed receipts contribute to it: update_payment_status of
\* receipt_complete and receipt_void loses no payment and takes none back twice, although
\* it works on copies of the invoices.
THEOREM PaidIsWhatWasReceived ==
    ASSUME ReceiptsApart, InvoicesApart, NoAutoMatch, IsFiniteSet(Receipts)
    PROVE  Spec => []PaidIsReceived
<1>1. Init => ReadyInv /\ PaidIsReceived
  <2>1. ASSUME Init, NEW i \in Invoices
        PROVE  inv[i].paid = SumOf([r \in Receipts |-> Contribution(r, i)])
    <3> DEFINE g == [r \in Receipts |-> Contribution(r, i)]
    <3>1. \A r \in Receipts : Contribution(r, i) = 0
      BY <2>1, ContributionIs DEF Init, NoReceipt
    <3>2. g \in [Receipts -> Nat] /\ \A r \in Receipts : g[r] = 0
      BY <3>1
    <3>3. SumOf(g) = 0
      <4> HIDE DEF g
      <4>1. g \in [Receipts -> Int]
        BY <3>2
      <4> QED BY <3>2, <4>1, SumZero
    <3> QED BY <2>1, <3>3 DEF Init, NoSnap, NoInvoice
  <2> QED BY <2>1, ReadyInit DEF PaidIsReceived
<1>2. TypeInv /\ PostInv /\ ReadyInv /\ PaidIsReceived /\ TypeInv' /\ [Next]_vars
      => ReadyInv' /\ PaidIsReceived'
  BY ReadyStep, ReceivedStep
<1> QED BY <1>1, <1>2, TypesHold, PostHolds, PTL DEF Spec
=============================================================================
