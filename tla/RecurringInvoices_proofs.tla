----------------------- MODULE RecurringInvoices_proofs -----------------------
(***************************************************************************)
(* Theorems about RecurringInvoices, for any number of workers and         *)
(* templates, any limits and end dates and any requests that die: the      *)
(* dates of a template are billed in order, within its limit, and more     *)
(* than once only after a request that ended half-way.                     *)
(***************************************************************************)
EXTENDS RecurringInvoices, FiniteSetTheorems, SequenceTheorems, TLAPS

\* What the constants are.
Bounds ==
    /\ Limit \in [Templates -> Nat]
    /\ EndDate \in [Templates -> Nat]
    /\ Hand \notin Templates
    /\ MaxDate \in Nat \ {0}
    /\ MaxInvoices \in Nat

-----------------------------------------------------------------------------
(* Types, and what each statement needs of the local values.                   *)

\* The labels at which a template is in hand, before and after its invoice exists.
Before == {"number", "insert"}
After == {"lines", "totals", "save_invoice"}
Loop == {"find", "next", "save_template"} \cup Before \cup After

Placed(q) ==
    /\ q.op = "none" <=> q.pc = "idle"
    /\ q.op = "hand" <=> q.pc = "insert_hand"
    /\ q.op = "change" <=> q.pc = "change"
    /\ q.op = "generate" <=> q.pc \in Loop
    /\ q.pc \in {"change", "save_template"} \cup Before \cup After => q.t \in Templates
    /\ q.pc \in {"insert", "insert_hand"} => q.n <= MaxInvoices /\ q.n > 0

Local == {q \in Request : Placed(q)}

\* One generation at a time, and no change of a template beside it.
Alone(q) == q.op \in {"change", "generate"}

Solo == \A v, w \in Workers : Alone(req[v]) /\ Alone(req[w]) => v = w

\* The request that holds copies of templates: they are those of the table, up to what
\* it is going to save.
Fresh(q) ==
    /\ q.pc = "change" =>
          q.copy.next = template[q.t].next /\ q.copy.made = template[q.t].made
    /\ q.pc \in Loop \ {"find"} =>
          \A t \in q.todo : q.due[t] = template[t] /\ template[t].next <= today
    /\ q.pc \in Before \cup After =>
          /\ q.copy = template[q.t] /\ q.copy.next <= today /\ ~Exhausted(q.t, q.copy)
          /\ q.t \notin q.todo
    /\ q.pc \in After => q.n \in DOMAIN bills
    /\ q.pc = "save_template" =>
          /\ q.copy.made + 1 = q.copy.next
          /\ q.copy.next \in {template[q.t].next, template[q.t].next + 1}
          /\ q.t \notin q.todo

TypeInv == TypeOK /\ req \in [Workers -> Local]

GenInv ==
    /\ TypeInv
    /\ Solo
    /\ \A t \in Templates : template[t].made + 1 = template[t].next
    /\ \A w \in Workers : Fresh(req[w])

\* The invoice of the current date of template t is there, and the template not saved yet.
InHand(t) ==
    \E w \in Workers :
        /\ req[w].t = t
        /\ \/ req[w].pc \in After
           \/ req[w].pc = "save_template" /\ req[w].copy.next = template[t].next + 1

CountAt(t, date) ==
    /\ date < template[t].next => Billed(t, date) \in 1..1 + aborts
    /\ date > template[t].next => Billed(t, date) = 0
    /\ date = template[t].next =>
          IF InHand(t) THEN Billed(t, date) \in 1..1 + aborts ELSE Billed(t, date) <= aborts
    /\ \A last \in {Limit[t], EndDate[t]} \ {0} : date > last => Billed(t, date) = 0

CountInv == \A t \in Templates, date \in Dates : CountAt(t, date)

\* What is sent has its line and its total; the request that is going to send it copies
\* the line, and reads the total, first.
Sound(b) == b.status = "sent" => b.lines = 1 /\ b.total = 1

Sending(q) ==
    /\ q.pc \in After => bills[q.n].status # "sent"
    /\ q.pc \in {"totals", "save_invoice"} => bills[q.n].lines = 1
    /\ q.pc = "save_invoice" => q.total = 1

SentInv ==
    /\ \A n \in DOMAIN bills : Sound(bills[n])
    /\ \A w \in Workers : Sending(req[w])

-----------------------------------------------------------------------------
(* The request of each statement after it.                                     *)

LEMMA IdleIsLocal ==
    ASSUME Bounds
    PROVE  First \in Template /\ Idle \in Local /\ Idle.pc = "idle" /\ Idle.op = "none"
<1>1. PICK one \in Nat, zero \in Nat : one = 1 /\ zero = 0 /\ one \in 1..MaxDate + 1
  BY DEF Bounds
<1>2. First \in Template
  BY <1>1 DEF First, Template
<1> QED
  BY <1>1, <1>2 DEF Idle, Local, Request, Placed, Loop, Before, After

LEMMA InitGen == ASSUME Bounds, Init PROVE GenInv
<1>1. TypeInv
  <2>1. today \in Dates /\ bills \in Seq(Invoice) /\ Len(bills) <= MaxInvoices /\ aborts \in Nat
    BY DEF Init, Bounds, Dates
  <2> QED
    BY <2>1, IdleIsLocal DEF Init, TypeInv, TypeOK, Local
<1>2. \A t \in Templates : template[t].made + 1 = template[t].next
  BY DEF Init, First
<1> QED
  BY <1>1, <1>2, IdleIsLocal DEF Init, GenInv, Solo, Alone, Fresh, Loop, Before, After

\* Other requests keep what they hold, and the tables have their types.
Others(w) == \A v \in Workers \ {w} : req'[v] = req[v]

LEMMA TypesBy ==
    ASSUME Bounds, TypeInv, NEW w \in Workers, NEW q \in Local, req' = [req EXCEPT ![w] = q],
           today' = today, closed' = closed, template' = template, bills' = bills,
           aborts' \in Nat
    PROVE  TypeInv'
  BY DEF TypeInv, TypeOK, Local

\* A new invoice, and the columns of one that is there.
LEMMA NewInvoiceType ==
    ASSUME NEW t \in Templates \cup {Hand}, NEW date \in Dates \cup {0}
    PROVE  NewInvoice(t, date) \in Invoice
  BY DEF NewInvoice, Invoice

LEMMA TypeStep ==
    ASSUME Bounds, GenInv, [Next]_vars
    PROVE  TypeInv'
<1>0. /\ TypeInv
      /\ \A w \in Workers : req[w] \in Local /\ req[w] \in Request /\ Placed(req[w])
      /\ MaxDate \in Nat
      /\ Idle \in Local /\ First \in Template
  BY IdleIsLocal DEF GenInv, TypeInv, TypeOK, Local, Bounds
<1>1. CASE NextDay
  BY <1>0, <1>1 DEF NextDay, TypeInv, TypeOK, Dates
<1>2. ASSUME NEW date \in Dates, ClosePeriod(date) PROVE TypeInv'
  BY <1>0, <1>2 DEF ClosePeriod, TypeInv, TypeOK
<1>3. ASSUME NEW w \in Workers, EnterInvoice(w) PROVE TypeInv'
  <2>1. PICK n \in Nat : n = Len(bills) + 1 /\ n <= MaxInvoices /\ n > 0
    BY <1>0, <1>3 DEF EnterInvoice, TypeInv, TypeOK, Bounds
  <2>2. [Idle EXCEPT !.op = "hand", !.pc = "insert_hand", !.n = n] \in Local
    BY <1>0, <2>1, ZenonT(40) DEF Local, Request, Placed, Idle, Loop, Before, After
  <2>3. req' = [req EXCEPT ![w] = [Idle EXCEPT !.op = "hand", !.pc = "insert_hand", !.n = n]]
    BY <1>3, <2>1 DEF EnterInvoice
  <2> QED
    BY <1>0, <1>3, <2>2, <2>3, TypesBy DEF EnterInvoice, rows, TypeInv, TypeOK
<1>4. ASSUME NEW w \in Workers, NEW t \in Templates, ChangeTemplate(w, t) PROVE TypeInv'
  <2>1. PICK status \in NewStatuses(template[t].status) :
          req' = [req EXCEPT ![w] = [Idle EXCEPT !.op = "change", !.pc = "change", !.t = t,
                                        !.copy = [template[t] EXCEPT !.status = status]]]
    BY <1>4 DEF ChangeTemplate
  <2>2. [template[t] EXCEPT !.status = status] \in Template
    BY <1>0 DEF NewStatuses, TypeInv, TypeOK, Template
  <2>3. [Idle EXCEPT !.op = "change", !.pc = "change", !.t = t,
                     !.copy = [template[t] EXCEPT !.status = status]] \in Local
    BY <1>0, <2>2 DEF Local, Request, Placed, Idle, Loop, Before, After
  <2> QED
    BY <1>0, <1>4, <2>1, <2>3, TypesBy DEF ChangeTemplate, rows, TypeInv, TypeOK
<1>5. ASSUME NEW w \in Workers, NEW t \in Templates, Generate(w, t) PROVE TypeInv'
  <2>1. [Idle EXCEPT !.op = "generate", !.pc = "find"] \in Local
    BY <1>0 DEF Local, Request, Placed, Idle, Loop, Before, After
  <2> QED
    BY <1>0, <1>5, <2>1, TypesBy DEF Generate, rows, TypeInv, TypeOK
<1>6. ASSUME NEW w \in Workers, SaveChange(w) PROVE TypeInv'
  <2>1. req[w].t \in Templates /\ req[w].copy \in Template
    BY <1>0, <1>6 DEF SaveChange, At, Placed, Request
  <2>2. Local \subseteq Request
    BY DEF Local
  <2> QED
    BY <1>0, <1>6, <2>1, <2>2 DEF SaveChange, Finish, TypeInv, TypeOK
<1>7. ASSUME NEW w \in Workers, FindDue(w) PROVE TypeInv'
  <2> DEFINE found == {t \in Templates : template[t].status = "active" /\ template[t].next <= today}
  <2>1. [req[w] EXCEPT !.pc = "next", !.due = template, !.todo = found] \in Local
    BY <1>0, <1>7 DEF FindDue, At, Local, Request, Placed, Loop, Before, After, TypeInv, TypeOK
  <2>2. req' = [req EXCEPT ![w] = [req[w] EXCEPT !.pc = "next", !.due = template, !.todo = found]]
    BY <1>0, <1>7 DEF FindDue, TypeInv, TypeOK
  <2> QED
    BY <1>0, <1>7, <2>1, <2>2, TypesBy DEF FindDue, rows, TypeInv, TypeOK
<1>8. ASSUME NEW w \in Workers, NextTemplate(w) PROVE TypeInv'
  <2>1. PICK t \in req[w].todo :
          LET row == req[w].due[t] IN
          req' = [req EXCEPT ![w].todo = @ \ {t}, ![w].t = t,
                    ![w].copy = IF Exhausted(t, row) THEN [row EXCEPT !.status = "completed"]
                                ELSE row,
                    ![w].pc = IF Exhausted(t, row) THEN "save_template"
                              ELSE IF row.next \in closed THEN "next" ELSE "number"]
    BY <1>8, Zenon DEF NextTemplate
  <2> DEFINE row == req[w].due[t]
             copy == IF Exhausted(t, row) THEN [row EXCEPT !.status = "completed"] ELSE row
             pc == IF Exhausted(t, row) THEN "save_template"
                   ELSE IF row.next \in closed THEN "next" ELSE "number"
             q == [req[w] EXCEPT !.todo = @ \ {t}, !.t = t, !.copy = copy, !.pc = pc]
  <2>2. t \in Templates /\ row \in Template
    BY <1>0 DEF Request
  <2>3. copy \in Template /\ pc \in {"save_template", "next", "number"}
    BY <2>2 DEF Template
  <2>4. q \in Local
    <3> HIDE DEF copy, pc
    <3> QED
      BY <1>0, <1>8, <2>2, <2>3 DEF NextTemplate, At, Local, Request, Placed, Loop, Before, After
  <2>5. req' = [req EXCEPT ![w] = q]
    BY <1>0, <2>1 DEF TypeInv, TypeOK
  <2> HIDE DEF q
  <2> QED
    BY <1>0, <1>8, <2>4, <2>5, TypesBy DEF NextTemplate, rows, TypeInv, TypeOK
<1>9. ASSUME NEW w \in Workers, EndLoop(w) PROVE TypeInv'
  BY <1>0, <1>9, TypesBy DEF EndLoop, Finish, rows, TypeInv, TypeOK
<1>10. ASSUME NEW w \in Workers, GenerateNumber(w) PROVE TypeInv'
  <2>1. PICK n \in Nat : n = Len(bills) + 1 /\ n <= MaxInvoices /\ n > 0
    BY <1>0, <1>10 DEF GenerateNumber, TypeInv, TypeOK, Bounds
  <2>2. [req[w] EXCEPT !.pc = "insert", !.n = n] \in Local
    BY <1>0, <1>10, <2>1, ZenonT(40) DEF GenerateNumber, At, Local, Request, Placed, Loop, Before, After
  <2>3. req' = [req EXCEPT ![w] = [req[w] EXCEPT !.pc = "insert", !.n = n]]
    BY <1>0, <1>10, <2>1 DEF GenerateNumber, TypeInv, TypeOK
  <2> QED
    BY <1>0, <1>10, <2>2, <2>3, TypesBy DEF GenerateNumber, rows, TypeInv, TypeOK

<1>11. ASSUME NEW w \in Workers, InsertInvoice(w) PROVE TypeInv'
  <2>1. \/ /\ At(w, "insert_hand")
           /\ bills' = Append(bills, [NewInvoice(Hand, 0) EXCEPT !.lines = 1, !.total = 1])
           /\ Finish(w)
        \/ /\ At(w, "insert")
           /\ bills' = Append(bills, NewInvoice(req[w].t, req[w].copy.next))
           /\ Goto(w, "lines")
    BY <1>11 DEF InsertInvoice
  <2>2. At(w, "insert_hand") \/ At(w, "insert") => Len(bills) + 1 <= MaxInvoices
    BY <1>0, <1>11 DEF InsertInvoice, At, Placed
  <2>3. [NewInvoice(Hand, 0) EXCEPT !.lines = 1, !.total = 1] \in Invoice
    <3>1. PICK one \in Nat : one = 1
      OBVIOUS
    <3>2. NewInvoice(Hand, 0) \in Invoice
      BY NewInvoiceType
    <3>3. [NewInvoice(Hand, 0) EXCEPT !.lines = one, !.total = one] \in Invoice
      BY <3>2 DEF Invoice
    <3> QED
      BY <3>1, <3>3
  <2>4. At(w, "insert") => NewInvoice(req[w].t, req[w].copy.next) \in Invoice
    <3> SUFFICES ASSUME At(w, "insert") PROVE NewInvoice(req[w].t, req[w].copy.next) \in Invoice
      OBVIOUS
    <3>1. req[w].copy.next <= today /\ req[w].copy \in Template /\ today \in 1..MaxDate
      BY <1>0 DEF At, GenInv, Fresh, Before, Request, TypeInv, TypeOK, Dates
    <3>2. req[w].copy.next \in Dates
      BY <1>0, <3>1 DEF Template, Dates
    <3> QED
      BY <1>0, <3>2, NewInvoiceType DEF Request
  <2>5. \A e \in Invoice : /\ Append(bills, e) \in Seq(Invoice)
                           /\ Len(Append(bills, e)) = Len(bills) + 1
    BY <1>0 DEF TypeInv, TypeOK
  <2>6. bills' \in Seq(Invoice) /\ Len(bills') <= MaxInvoices
    BY <2>1, <2>2, <2>3, <2>4, <2>5
  <2>7. req' \in [Workers -> Local]
    <3>1. At(w, "insert") => [req[w] EXCEPT !.pc = "lines"] \in Local
      BY <1>0 DEF At, Local, Request, Placed, Loop, Before, After
    <3>2. req \in [Workers -> Local]
      BY <1>0 DEF TypeInv
    <3> QED
      BY <1>0, <2>1, <3>1, <3>2 DEF Goto, Finish
  <2>8. Local \subseteq Request
    BY DEF Local
  <2> QED
    BY <1>0, <1>11, <2>6, <2>7, <2>8 DEF InsertInvoice, TypeInv, TypeOK
<1>12. ASSUME NEW w \in Workers, InsertFails(w) PROVE TypeInv'
  <2>1. aborts' \in Nat
    BY <1>0, <1>12 DEF InsertFails, TypeInv, TypeOK
  <2> QED
    BY <1>0, <1>12, <2>1, TypesBy DEF InsertFails, Finish, rows
<1>13. ASSUME NEW w \in Workers, CopyLines(w) PROVE TypeInv'
  <2>1. PICK one \in Nat : one = 1
    OBVIOUS
  <2>2. req[w].n \in 1..Len(bills) /\ bills \in Seq(Invoice)
    BY <1>0, <1>13 DEF CopyLines, At, GenInv, Fresh, After, TypeInv, TypeOK
  <2>3. bills[req[w].n] \in Invoice
    BY <2>2
  <2>4. [bills[req[w].n] EXCEPT !.lines = one] \in Invoice
    BY <2>3 DEF Invoice
  <2>5. bills' = [bills EXCEPT ![req[w].n] = [bills[req[w].n] EXCEPT !.lines = one]]
    BY <1>13, <2>1, <2>2 DEF CopyLines
  <2>6. bills' \in Seq(Invoice) /\ Len(bills') = Len(bills)
    BY <2>2, <2>4, <2>5, ExceptSeq
  <2>7. [req[w] EXCEPT !.pc = "totals"] \in Local
    BY <1>0, <1>13 DEF CopyLines, At, Local, Request, Placed, Loop, Before, After
  <2>8. req' = [req EXCEPT ![w] = [req[w] EXCEPT !.pc = "totals"]]
    BY <1>0, <1>13 DEF CopyLines, Goto, TypeInv, TypeOK
  <2>9. Local \subseteq Request
    BY DEF Local
  <2> QED
    BY <1>0, <1>13, <2>6, <2>7, <2>8, <2>9 DEF CopyLines, TypeInv, TypeOK
<1>14. ASSUME NEW w \in Workers, UpdateTotals(w) PROVE TypeInv'
  <2>1. req[w].n \in 1..Len(bills) /\ bills \in Seq(Invoice)
    BY <1>0, <1>14 DEF UpdateTotals, At, GenInv, Fresh, After, TypeInv, TypeOK
  <2>2. bills[req[w].n] \in Invoice
    BY <2>1
  <2>3. PICK sum \in Nat : sum = bills[req[w].n].lines
    BY <2>2 DEF Invoice
  <2>4. [req[w] EXCEPT !.pc = "save_invoice", !.total = sum] \in Local
    BY <1>0, <1>14 DEF UpdateTotals, At, Local, Request, Placed, Loop, Before, After
  <2>5. req' = [req EXCEPT ![w] = [req[w] EXCEPT !.pc = "save_invoice", !.total = sum]]
    BY <1>0, <1>14, <2>3 DEF UpdateTotals, TypeInv, TypeOK
  <2> QED
    BY <1>0, <1>14, <2>4, <2>5, TypesBy DEF UpdateTotals, rows, TypeInv, TypeOK
<1>15. ASSUME NEW w \in Workers, SaveInvoice(w) PROVE TypeInv'
  <2>1. req[w].n \in 1..Len(bills) /\ bills \in Seq(Invoice) /\ req[w].pc = "save_invoice"
    BY <1>0, <1>15 DEF SaveInvoice, At, GenInv, Fresh, After, TypeInv, TypeOK
  <2>2. bills[req[w].n] \in Invoice
    BY <2>1
  <2>3. PICK status \in {"draft", "approved", "sent"} :
          status = IF req[w].t \in AutoSend THEN "sent" ELSE bills[req[w].n].status
    BY <2>2 DEF Invoice
  <2>4. [bills[req[w].n] EXCEPT !.total = req[w].total, !.status = status] \in Invoice
    BY <1>0, <2>2 DEF Invoice, Request
  <2>5. bills' = [bills EXCEPT ![req[w].n] =
                     [bills[req[w].n] EXCEPT !.total = req[w].total, !.status = status]]
    BY <1>15, <2>1, <2>3 DEF SaveInvoice
  <2>6. bills' \in Seq(Invoice) /\ Len(bills') = Len(bills)
    BY <2>1, <2>4, <2>5, ExceptSeq
  <2>7. req[w].copy \in Template /\ req[w].copy.next <= today /\ today \in 1..MaxDate
    BY <1>0, <2>1 DEF GenInv, Fresh, After, Request, TypeInv, TypeOK, Dates
  <2>8. PICK next \in 1..MaxDate + 1, made \in Nat :
          next = req[w].copy.next + 1 /\ made = req[w].copy.made + 1
    BY <1>0, <2>7 DEF Template
  <2>9. [req[w].copy EXCEPT !.next = next, !.made = made] \in Template
    BY <2>7 DEF Template
  <2>10. [req[w] EXCEPT !.pc = "save_template",
                        !.copy = [req[w].copy EXCEPT !.next = next, !.made = made]] \in Local
    BY <1>0, <2>1, <2>9 DEF Local, Request, Placed, Loop, Before, After
  <2>11. req' = [req EXCEPT ![w] =
            [req[w] EXCEPT !.pc = "save_template",
                           !.copy = [req[w].copy EXCEPT !.next = next, !.made = made]]]
    BY <1>0, <1>15, <2>7, <2>8, ZenonT(40) DEF SaveInvoice, TypeInv, TypeOK, Request, Template
  <2>12. Local \subseteq Request
    BY DEF Local
  <2> QED
    BY <1>0, <1>15, <2>6, <2>10, <2>11, <2>12 DEF SaveInvoice, TypeInv, TypeOK
<1>16. ASSUME NEW w \in Workers, SaveTemplate(w) PROVE TypeInv'
  <2>1. req[w].t \in Templates /\ req[w].copy \in Template
    BY <1>0, <1>16 DEF SaveTemplate, At, Placed, Request
  <2>2. [req[w] EXCEPT !.pc = "next"] \in Local
    BY <1>0, <1>16 DEF SaveTemplate, At, Local, Request, Placed, Loop, Before, After
  <2>3. req' = [req EXCEPT ![w] = [req[w] EXCEPT !.pc = "next"]]
    BY <1>0, <1>16 DEF SaveTemplate, Goto, TypeInv, TypeOK
  <2>4. Local \subseteq Request
    BY DEF Local
  <2> QED
    BY <1>0, <1>16, <2>1, <2>2, <2>3, <2>4 DEF SaveTemplate, TypeInv, TypeOK
<1>17. ASSUME NEW w \in Workers, Crash(w) PROVE TypeInv'
  <2>1. aborts' \in Nat
    BY <1>0, <1>17 DEF Crash, TypeInv, TypeOK
  <2> QED
    BY <1>0, <1>17, <2>1, TypesBy DEF Crash, Finish, rows
<1>18. CASE UNCHANGED vars
  BY <1>0, <1>18 DEF vars, TypeInv, TypeOK
<1> QED
  BY <1>1, <1>2, <1>3, <1>4, <1>5, <1>6, <1>7, <1>8, <1>9, <1>10, <1>11, <1>12, <1>13, <1>14,
     <1>15, <1>16, <1>17, <1>18 DEF Next, Continue

-----------------------------------------------------------------------------
(* What a step does to the request of its worker and to the tables, column by  *)
(* column: every statement once, for the invariants below.                     *)

SameTables == template' = template /\ bills' = bills /\ today' = today

\* The request goes on with the template and the invoice it has in hand.
Holds(w) ==
    /\ req'[w].op = req[w].op /\ req'[w].t = req[w].t
    /\ req'[w].todo = req[w].todo /\ req'[w].due = req[w].due

Starts(w) ==
    LET q == req'[w] IN
    /\ SameTables /\ aborts' = aborts /\ req[w].pc = "idle" /\ req[w].op = "none"
    /\ q.pc \in {"insert_hand", "change", "find"}
    /\ Alone(q) => \A v \in Workers : ~Alone(req[v])
    /\ q.pc = "change" =>
          /\ q.copy.next = template[q.t].next
          /\ q.copy.made = template[q.t].made

Looks(w) ==
    LET p == req[w]
        q == req'[w]
    IN  /\ SameTables /\ aborts' = aborts /\ q.op = p.op
        /\ \/ /\ p.pc = "find" /\ q.pc = "next" /\ q.due = template
              /\ q.todo = {t \in Templates : template[t].status = "active" /\ template[t].next <= today}
           \/ /\ p.pc = "next" /\ q.pc \in {"next", "number", "save_template"} /\ q.due = p.due
              /\ q.t \in p.todo /\ q.todo = p.todo \ {q.t}
              /\ q.copy.next = p.due[q.t].next /\ q.copy.made = p.due[q.t].made
              /\ q.pc = "number" => q.copy = p.due[q.t] /\ ~Exhausted(q.t, q.copy)

Works(w) ==
    /\ Holds(w) /\ req'[w].copy = req[w].copy /\ template' = template /\ today' = today
    /\ aborts' = aborts
    /\ \/ req[w].pc = "number" /\ req'[w].pc = "insert" /\ bills' = bills
       \/ /\ req[w].pc = "insert" /\ req'[w].pc = "lines"
          /\ req[w].n = Len(bills) + 1 /\ req'[w].n = req[w].n
          /\ bills' = Append(bills, NewInvoice(req[w].t, req[w].copy.next))
       \/ /\ req[w].pc = "lines" /\ req'[w].pc = "totals" /\ req'[w].n = req[w].n
          /\ bills' = [bills EXCEPT ![req[w].n].lines = 1]
       \/ /\ req[w].pc = "totals" /\ req'[w].pc = "save_invoice" /\ bills' = bills
          /\ req'[w].n = req[w].n /\ req'[w].total = bills[req[w].n].lines

Sends(w) ==
    /\ Holds(w) /\ req[w].pc = "save_invoice" /\ req'[w].pc = "save_template"
    /\ req'[w].copy.next = req[w].copy.next + 1
    /\ req'[w].copy.made = req[w].copy.made + 1
    /\ \E status \in {bills[req[w].n].status, "sent"} :
          bills' = [bills EXCEPT ![req[w].n] =
                       [bills[req[w].n] EXCEPT !.total = req[w].total, !.status = status]]
    /\ template' = template /\ today' = today /\ aborts' = aborts

SavesRow(w) ==
    /\ \/ req[w].pc = "save_template" /\ req'[w].pc = "next" /\ Holds(w)
       \/ req[w].pc = "change" /\ req'[w] = Idle
    /\ template' = [template EXCEPT ![req[w].t] = req[w].copy]
    /\ bills' = bills /\ today' = today /\ aborts' = aborts

EntersByHand(w) ==
    /\ req[w].pc = "insert_hand" /\ req'[w] = Idle
    /\ bills' = Append(bills, [NewInvoice(Hand, 0) EXCEPT !.lines = 1, !.total = 1])
    /\ template' = template /\ today' = today /\ aborts' = aborts

\* The loop is over, or the request ends half-way.
Ends(w) ==
    /\ SameTables /\ req'[w] = Idle
    /\ aborts' = aborts + 1 \/ (aborts' = aborts /\ req[w].pc = "next")

Effect(w) ==
    /\ Others(w)
    /\ \/ Starts(w) \/ Looks(w) \/ Works(w) \/ Sends(w) \/ SavesRow(w) \/ EntersByHand(w) \/ Ends(w)

\* Time passes, and periods close and reopen.
Aside == req' = req /\ template' = template /\ bills' = bills /\ aborts' = aborts /\ today <= today'

LEMMA Effects ==
    ASSUME Bounds, GenInv, [Next]_vars
    PROVE  Aside \/ \E w \in Workers : Effect(w)
<1>0. /\ \A w \in Workers : req[w] \in Request /\ Placed(req[w])
      /\ req \in [Workers -> Local] /\ today \in Nat
      /\ template \in [Templates -> Template]
      /\ \A w \in Workers : \A t \in req[w].todo : req[w].due[t] \in Template
  BY DEF GenInv, TypeInv, TypeOK, Local, Dates, Request
<1>1. CASE NextDay \/ (\E date \in Dates : ClosePeriod(date)) \/ UNCHANGED vars
  BY <1>0, <1>1 DEF NextDay, ClosePeriod, vars, Aside
<1>2. ASSUME NEW w \in Workers, EnterInvoice(w) PROVE Effect(w)
  BY <1>0, <1>2 DEF EnterInvoice, MayStart, Busy, At, rows, Idle, Effect, Others, Starts, SameTables,
     Alone, Placed
<1>3. ASSUME NEW w \in Workers, NEW t \in Templates, ChangeTemplate(w, t) PROVE Effect(w)
  <2>1. PICK status \in NewStatuses(template[t].status) :
          req' = [req EXCEPT ![w] = [Idle EXCEPT !.op = "change", !.pc = "change", !.t = t,
                                        !.copy = [template[t] EXCEPT !.status = status]]]
    BY <1>3 DEF ChangeTemplate
  <2>2. /\ req'[w].pc = "change" /\ req'[w].op = "change" /\ req'[w].t = t
        /\ req'[w].copy = [template[t] EXCEPT !.status = status]
    BY <1>0, <2>1 DEF Idle
  <2>3. req'[w].copy.next = template[t].next /\ req'[w].copy.made = template[t].made
    BY <1>0, <2>2 DEF Template
  <2>4. \A v \in Workers : ~Alone(req[v])
    BY <1>3 DEF ChangeTemplate, MayStart, Alone
  <2> QED
    BY <1>0, <1>3, <2>1, <2>2, <2>3, <2>4
       DEF ChangeTemplate, MayStart, Busy, At, rows, Effect, Others, Starts, SameTables, Placed
<1>4. ASSUME NEW w \in Workers, NEW t \in Templates, Generate(w, t) PROVE Effect(w)
  BY <1>0, <1>4 DEF Generate, MayStart, Busy, At, rows, Idle, Effect, Others, Starts, SameTables,
     Alone, Placed
<1>5. ASSUME NEW w \in Workers, FindDue(w) PROVE Effect(w)
  <2> DEFINE found == {t \in Templates : template[t].status = "active" /\ template[t].next <= today}
  <2>1. req' = [req EXCEPT ![w] = [req[w] EXCEPT !.pc = "next", !.due = template, !.todo = found]]
    BY <1>0, <1>5 DEF FindDue
  <2> HIDE DEF found
  <2>2. /\ req'[w].pc = "next" /\ req'[w].op = req[w].op /\ req'[w].due = template
        /\ req'[w].todo = found
    BY <1>0, <2>1 DEF Request
  <2> USE DEF found
  <2> QED
    BY <1>0, <1>5, <2>1, <2>2 DEF FindDue, At, rows, Effect, Others, Looks, SameTables
<1>6. ASSUME NEW w \in Workers, NextTemplate(w) PROVE Effect(w)
  <2>1. PICK t \in req[w].todo :
          LET row == req[w].due[t] IN
          req' = [req EXCEPT ![w].todo = @ \ {t}, ![w].t = t,
                    ![w].copy = IF Exhausted(t, row) THEN [row EXCEPT !.status = "completed"]
                                ELSE row,
                    ![w].pc = IF Exhausted(t, row) THEN "save_template"
                              ELSE IF row.next \in closed THEN "next" ELSE "number"]
    BY <1>6, Zenon DEF NextTemplate
  <2> DEFINE row == req[w].due[t]
             copy == IF Exhausted(t, row) THEN [row EXCEPT !.status = "completed"] ELSE row
             pc == IF Exhausted(t, row) THEN "save_template"
                   ELSE IF row.next \in closed THEN "next" ELSE "number"
  <2>2. req' = [req EXCEPT ![w] = [req[w] EXCEPT !.todo = @ \ {t}, !.t = t, !.copy = copy, !.pc = pc]]
    BY <1>0, <2>1
  <2>3. /\ copy.next = row.next /\ copy.made = row.made
        /\ pc = "number" => copy = row /\ ~Exhausted(t, row)
        /\ pc \in {"next", "number", "save_template"}
    BY <1>0 DEF Template
  <2> HIDE DEF copy, pc, row
  <2>4. /\ req'[w].pc = pc /\ req'[w].op = req[w].op /\ req'[w].due = req[w].due
        /\ req'[w].t = t /\ req'[w].todo = req[w].todo \ {t} /\ req'[w].copy = copy
    BY <1>0, <2>2 DEF Request
  <2>5. row = req[w].due[t]
    BY DEF row
  <2>6. SameTables /\ aborts' = aborts /\ req[w].pc = "next" /\ Others(w)
    BY <1>0, <1>6, <2>2 DEF NextTemplate, At, rows, SameTables, Others
  <2> QED
    BY <2>3, <2>4, <2>5, <2>6 DEF Effect, Looks
<1>7. ASSUME NEW w \in Workers, EndLoop(w) PROVE Effect(w)
  BY <1>0, <1>7 DEF EndLoop, Finish, At, rows, Effect, Others, Ends, SameTables
<1>8. ASSUME NEW w \in Workers, GenerateNumber(w) PROVE Effect(w)
  BY <1>0, <1>8 DEF GenerateNumber, At, rows, Effect, Others, Works, Holds, Request
<1>9. ASSUME NEW w \in Workers, InsertInvoice(w) PROVE Effect(w)
  BY <1>0, <1>9 DEF InsertInvoice, At, Goto, Finish, Effect, Others, Works, Holds, EntersByHand, Request
<1>10. ASSUME NEW w \in Workers, InsertFails(w) \/ Crash(w) PROVE Effect(w)
  BY <1>0, <1>10 DEF InsertFails, Crash, Finish, rows, Effect, Others, Ends, SameTables
<1>11. ASSUME NEW w \in Workers, CopyLines(w) PROVE Effect(w)
  BY <1>0, <1>11 DEF CopyLines, At, Goto, Effect, Others, Works, Holds, Request
<1>12. ASSUME NEW w \in Workers, UpdateTotals(w) PROVE Effect(w)
  BY <1>0, <1>12 DEF UpdateTotals, At, rows, Effect, Others, Works, Holds, Request
<1>13. ASSUME NEW w \in Workers, SaveInvoice(w) PROVE Effect(w)
  <2>1. PICK status \in {bills[req[w].n].status, "sent"} :
          status = IF req[w].t \in AutoSend THEN "sent" ELSE bills[req[w].n].status
    OBVIOUS
  <2>2. bills \in Seq(Invoice) /\ req[w].n \in 1..Len(bills)
    BY <1>0, <1>13 DEF SaveInvoice, At, GenInv, Fresh, After, TypeInv, TypeOK
  <2>3. bills[req[w].n] \in Invoice
    BY <2>2
  <2>4. bills' = [bills EXCEPT ![req[w].n] =
                     [bills[req[w].n] EXCEPT !.total = req[w].total, !.status = status]]
    BY <1>13, <2>1, <2>2, <2>3 DEF SaveInvoice
  <2>5. PICK next \in Nat, made \in Nat : next = req[w].copy.next + 1 /\ made = req[w].copy.made + 1
    BY <1>0 DEF Request, Template, Bounds
  <2>6. req' = [req EXCEPT ![w] =
            [req[w] EXCEPT !.pc = "save_template",
                           !.copy = [req[w].copy EXCEPT !.next = next, !.made = made]]]
    BY <1>0, <1>13, <2>5 DEF SaveInvoice
  <2>7. /\ req'[w].pc = "save_template" /\ Holds(w) /\ Others(w)
        /\ req'[w].copy = [req[w].copy EXCEPT !.next = next, !.made = made]
    BY <1>0, <2>6 DEF Holds, Others, Request
  <2>8. req'[w].copy.next = next /\ req'[w].copy.made = made
    BY <1>0, <2>7 DEF Request, Template
  <2> QED
    BY <1>13, <2>4, <2>5, <2>7, <2>8 DEF SaveInvoice, At, Effect, Sends
<1>14. ASSUME NEW w \in Workers, SaveTemplate(w) \/ SaveChange(w) PROVE Effect(w)
  BY <1>0, <1>14 DEF SaveTemplate, SaveChange, At, Goto, Finish, Effect, Others, SavesRow, Holds, Request
<1> QED
  BY <1>1, <1>2, <1>3, <1>4, <1>5, <1>6, <1>7, <1>8, <1>9, <1>10, <1>11, <1>12, <1>13, <1>14
     DEF Next, Continue

LEMMA Facts ==
    ASSUME GenInv
    PROVE  /\ \A w \in Workers : req[w] \in Request /\ Placed(req[w]) /\ Fresh(req[w])
           /\ template \in [Templates -> Template] /\ bills \in Seq(Invoice)
           /\ aborts \in Nat /\ today \in Nat
           /\ \A t \in Templates : template[t].next \in Nat /\ template[t].made \in Nat
           /\ \A w \in Workers : req[w].copy.next \in Nat /\ req[w].copy.made \in Nat
           /\ \A v, w \in Workers : Alone(req[v]) /\ Alone(req[w]) => v = w
  BY DEF GenInv, TypeInv, TypeOK, Local, Dates, Template, Request, Solo

LEMMA SoloStep ==
    ASSUME GenInv, NEW w \in Workers, Effect(w), TypeInv'
    PROVE  Solo'
<1>1. Alone(req'[w]) => Alone(req[w]) \/ \A v \in Workers : ~Alone(req[v])
  BY DEF Effect, Starts, Looks, Works, Sends, SavesRow, EntersByHand, Ends, Holds, Idle, Alone
<1>2. \A v \in Workers \ {w} : req'[v] = req[v]
  BY DEF Effect, Others
<1> QED
  BY <1>1, <1>2 DEF GenInv, Solo, Alone

\* Only requests that are alone work on templates and on invoices of templates.
LEMMA OnlyByHand ==
    ASSUME GenInv, NEW w \in Workers, Effect(w), ~Alone(req[w]), ~Alone(req'[w]), TypeInv'
    PROVE  /\ template' = template /\ today' = today
           /\ \/ bills' = bills
              \/ EntersByHand(w)
<1>1. req[w].pc \notin Loop \cup {"change"} /\ req'[w].pc \notin Loop \cup {"change"}
  BY Facts DEF Placed, Alone, TypeInv, Local
<1> QED
  BY <1>1 DEF Effect, Starts, Looks, Works, Sends, SavesRow, EntersByHand, Ends, SameTables,
     Loop, Before, After

LEMMA RowStep ==
    ASSUME GenInv, NEW w \in Workers, Effect(w), NEW t \in Templates
    PROVE  template'[t].made + 1 = template'[t].next
<1>1. CASE SavesRow(w) /\ req[w].t = t
  <2>1. template'[t] = req[w].copy
    BY <1>1, Facts DEF SavesRow
  <2>2. req[w].copy.made + 1 = req[w].copy.next
    <3>1. req[w].pc = "save_template" => req[w].copy.made + 1 = req[w].copy.next
      BY Facts DEF Fresh
    <3>2. req[w].pc = "change" => /\ req[w].copy.made = template[t].made
                                  /\ req[w].copy.next = template[t].next
      BY <1>1, Facts DEF Fresh
    <3> QED
      BY <1>1, <3>1, <3>2 DEF SavesRow, GenInv
  <2> QED
    BY <2>1, <2>2
<1>2. CASE ~(SavesRow(w) /\ req[w].t = t)
  <2>1. template'[t] = template[t]
    BY <1>2, Facts DEF Effect, Starts, Looks, Works, Sends, SavesRow, EntersByHand, Ends, SameTables
  <2> QED
    BY <2>1 DEF GenInv
<1> QED
  BY <1>1, <1>2

\* Invoices are added and columns of theirs written, and none is taken away.
LEMMA BillsGrow ==
    ASSUME GenInv, NEW w \in Workers, Effect(w)
    PROVE  DOMAIN bills \subseteq DOMAIN bills'
<1>1. bills \in Seq(Invoice)
  BY Facts
<1>2. \A e : DOMAIN bills \subseteq DOMAIN Append(bills, e)
  BY <1>1
<1>3. CASE Works(w)
  BY <1>1, <1>2, <1>3 DEF Works
<1>4. CASE Sends(w)
  BY <1>1, <1>4 DEF Sends
<1>5. CASE EntersByHand(w)
  BY <1>2, <1>5 DEF EntersByHand
<1> QED
  BY <1>3, <1>4, <1>5 DEF Effect, Starts, Looks, SavesRow, Ends, SameTables

LEMMA FreshStep ==
    ASSUME Bounds, GenInv, NEW w \in Workers, Effect(w), TypeInv'
    PROVE  Fresh(req[w])'
<1>0. /\ req[w] \in Request /\ Placed(req[w]) /\ Fresh(req[w])
      /\ template \in [Templates -> Template] /\ bills \in Seq(Invoice)
      /\ req'[w] \in Request /\ Placed(req'[w])
  BY Facts DEF TypeInv, Local
<1>1. CASE Starts(w)
  BY <1>0, <1>1 DEF Starts, Fresh, SameTables, Loop, Before, After
<1>2. CASE Looks(w)
  <2>1. SameTables
    BY <1>2 DEF Looks
  <2>2. CASE req[w].pc = "find"
    BY <1>2, <2>1, <2>2 DEF Looks, Fresh, SameTables, Loop, Before, After
  <2>3. CASE req[w].pc = "next"
    <3>1. /\ req'[w].t \in req[w].todo /\ req'[w].todo = req[w].todo \ {req'[w].t}
          /\ req'[w].due = req[w].due /\ req'[w].pc \in {"next", "number", "save_template"}
          /\ req'[w].copy.next = req[w].due[req'[w].t].next
          /\ req'[w].copy.made = req[w].due[req'[w].t].made
          /\ req'[w].pc = "number" =>
                req'[w].copy = req[w].due[req'[w].t] /\ ~Exhausted(req'[w].t, req'[w].copy)
      BY <1>2, <2>3 DEF Looks
    <3>2. \A t \in req[w].todo : req[w].due[t] = template[t] /\ template[t].next <= today /\ t \in Templates
      BY <1>0, <2>3 DEF Fresh, Loop, Request
    <3>3. req'[w].copy.made + 1 = req'[w].copy.next
      BY <3>1, <3>2 DEF GenInv
    <3> QED
      BY <2>1, <3>1, <3>2, <3>3 DEF Fresh, SameTables, Loop, Before, After, Exhausted
  <2> QED
    BY <1>2, <2>2, <2>3 DEF Looks
<1>3. CASE Works(w)
  <2>1. /\ req[w].pc \in Before \cup After /\ req'[w].pc \in Before \cup After
        /\ req'[w].todo = req[w].todo /\ req'[w].due = req[w].due /\ req'[w].t = req[w].t
        /\ req'[w].copy = req[w].copy /\ template' = template /\ today' = today
    BY <1>3 DEF Works, Holds, Before, After
  <2>2. req'[w].pc \in After => req'[w].n \in DOMAIN bills'
    <3>1. CASE req[w].pc = "insert"
      BY <1>0, <1>3, <3>1 DEF Works
    <3>2. CASE req[w].pc \in After
      BY <1>0, <1>3, <3>2, BillsGrow DEF Works, Fresh, After
    <3> QED
      BY <1>3, <3>1, <3>2 DEF Works, After
  <2> QED
    BY <1>0, <2>1, <2>2 DEF Fresh, Before, After, Loop, Exhausted
<1>4. CASE Sends(w)
  <2>1. /\ req[w].pc = "save_invoice" /\ req'[w].pc = "save_template"
        /\ req'[w].todo = req[w].todo /\ req'[w].due = req[w].due /\ req'[w].t = req[w].t
        /\ req'[w].copy.next = req[w].copy.next + 1
        /\ req'[w].copy.made = req[w].copy.made + 1
        /\ template' = template /\ today' = today
    BY <1>4 DEF Sends, Holds
  <2>2. req[w].copy = template[req[w].t] /\ req[w].t \notin req[w].todo /\ req[w].t \in Templates
    BY <1>0, <2>1 DEF Fresh, Placed, After
  <2>3. req'[w].copy.made + 1 = req'[w].copy.next
    BY <2>1, <2>2 DEF GenInv
  <2> QED
    BY <1>0, <2>1, <2>2, <2>3 DEF Fresh, Before, After, Loop
<1>5. CASE SavesRow(w)
  <2>1. CASE req'[w] = Idle
    BY <2>1 DEF Fresh, Idle, Loop, Before, After
  <2>2. CASE req[w].pc = "save_template" /\ req'[w].pc = "next" /\ Holds(w)
    <3>1. \A t \in req[w].todo : template'[t] = template[t] /\ t \in Templates
      BY <1>0, <1>5, <2>2 DEF SavesRow, Fresh, Request
    <3> QED
      BY <1>0, <1>5, <2>2, <3>1 DEF SavesRow, Fresh, Holds, Loop, Before, After
  <2> QED
    BY <1>5, <2>1, <2>2 DEF SavesRow
<1>6. CASE EntersByHand(w) \/ Ends(w)
  BY <1>6 DEF EntersByHand, Ends, Fresh, Idle, Loop, Before, After
<1> QED
  BY <1>1, <1>2, <1>3, <1>4, <1>5, <1>6 DEF Effect

LEMMA GenStep ==
    ASSUME Bounds, GenInv, [Next]_vars
    PROVE  GenInv'
<1>0. TypeInv'
  BY TypeStep
<1>1. CASE Aside
  <2>1. today \in Nat /\ today' \in Nat /\ \A t \in Templates : template[t].next \in Nat
    BY <1>0, Facts DEF TypeInv, TypeOK, Dates
  <2>2. \A w \in Workers : req[w] \in Request /\ Placed(req[w]) /\ req[w].copy.next \in Nat
    BY Facts
  <2>3. \A w \in Workers : Fresh(req[w])'
    BY <1>1, <2>1, <2>2 DEF GenInv, Aside, Fresh, Request, Exhausted
  <2> QED
    BY <1>0, <1>1, <2>3 DEF GenInv, Aside, Solo, Alone
<1>2. ASSUME NEW w \in Workers, Effect(w) PROVE GenInv'
  <2>1. ASSUME NEW v \in Workers \ {w} PROVE Fresh(req[v])'
    <3>1. req'[v] = req[v] /\ Fresh(req[v]) /\ Placed(req[v]) /\ DOMAIN bills \subseteq DOMAIN bills'
      BY <1>2, Facts, BillsGrow DEF Effect, Others
    <3>2. CASE Alone(req[v])
      <4>1. ~Alone(req[w]) /\ ~Alone(req'[w])
        BY <1>0, <1>2, <3>1, <3>2, SoloStep DEF GenInv, Solo, Alone
      <4>2. template' = template /\ today' = today
        BY <1>0, <1>2, <4>1, OnlyByHand
      <4> QED
        BY <3>1, <4>2 DEF Fresh, Exhausted
    <3>3. CASE ~Alone(req[v])
      BY <3>1, <3>3 DEF Fresh, Placed, Alone, Loop, Before, After
    <3> QED
      BY <3>2, <3>3
  <2> QED
    BY <1>0, <1>2, <2>1, SoloStep, RowStep, FreshStep DEF GenInv
<1> QED
  BY <1>1, <1>2, Effects

-----------------------------------------------------------------------------
(* Counts.                                                                      *)

Bills(t, date) == {n \in DOMAIN bills : bills[n].of = t /\ bills[n].date = date}

LEMMA Counted ==
    ASSUME bills \in Seq(Invoice), NEW t, NEW date
    PROVE  /\ Billed(t, date) = Cardinality(Bills(t, date))
           /\ IsFiniteSet(Bills(t, date))
           /\ Billed(t, date) \in Nat
<1>1. DOMAIN bills = 1..Len(bills) /\ Len(bills) \in Nat
  OBVIOUS
<1>2. IsFiniteSet(DOMAIN bills)
  <2>1. 1 \in Int /\ Len(bills) \in Int
    BY <1>1
  <2> QED BY <1>1, <2>1, FS_Interval, Zenon
<1>3. IsFiniteSet(Bills(t, date))
  BY <1>2, FS_Subset DEF Bills
<1> QED
  BY <1>3, FS_CardinalityType DEF Billed, Bills

\* An invoice more.
LEMMA CountMore ==
    ASSUME bills \in Seq(Invoice), NEW e \in Invoice, bills' = Append(bills, e), NEW t, NEW date
    PROVE  Billed(t, date)' = IF e.of = t /\ e.date = date THEN Billed(t, date) + 1
                              ELSE Billed(t, date)
<1>1. /\ DOMAIN bills = 1..Len(bills) /\ Len(bills) \in Nat
      /\ DOMAIN bills' = 1..Len(bills) + 1
      /\ \A n \in 1..Len(bills) : bills'[n] = bills[n]
      /\ bills'[Len(bills) + 1] = e
  BY AppendProperties
<1>2. Billed(t, date)' = Cardinality(Bills(t, date)')
  BY DEF Billed, Bills
<1>3. CASE e.of = t /\ e.date = date
  <2>1. Bills(t, date)' = Bills(t, date) \cup {Len(bills) + 1}
    BY <1>1, <1>3 DEF Bills
  <2>2. Len(bills) + 1 \notin Bills(t, date)
    BY <1>1 DEF Bills
  <2>3. Cardinality(Bills(t, date) \cup {Len(bills) + 1}) = Cardinality(Bills(t, date)) + 1
    BY <2>2, Counted, FS_AddElement
  <2> QED
    BY <1>2, <1>3, <2>1, <2>3, Counted
<1>4. CASE ~(e.of = t /\ e.date = date)
  <2>1. Bills(t, date)' = Bills(t, date)
    BY <1>1, <1>4 DEF Bills
  <2> QED
    BY <1>2, <1>4, <2>1, Counted
<1> QED
  BY <1>3, <1>4

\* Columns that do not say what is billed.
LEMMA CountSame ==
    ASSUME bills \in Seq(Invoice), NEW k \in DOMAIN bills, NEW b,
           b.of = bills[k].of, b.date = bills[k].date, bills' = [bills EXCEPT ![k] = b],
           NEW t, NEW date
    PROVE  Billed(t, date)' = Billed(t, date)
<1>1. DOMAIN bills' = DOMAIN bills
  OBVIOUS
<1>2. \A n \in DOMAIN bills : bills'[n].of = bills[n].of /\ bills'[n].date = bills[n].date
  OBVIOUS
<1>3. Bills(t, date)' = Bills(t, date)
  BY <1>1, <1>2 DEF Bills
<1> QED
  BY <1>3 DEF Billed, Bills

\* What a step adds to the count of a date.
Inserts(w, t, date) == req[w].pc = "insert" /\ Works(w) /\ req[w].t = t /\ req[w].copy.next = date

LEMMA CountStep ==
    ASSUME Bounds, GenInv, NEW w \in Workers, Effect(w), NEW t \in Templates, NEW date
    PROVE  Billed(t, date)' = IF Inserts(w, t, date) THEN Billed(t, date) + 1 ELSE Billed(t, date)
<1>0. bills \in Seq(Invoice) /\ req[w] \in Request /\ Placed(req[w]) /\ Fresh(req[w])
  BY Facts
<1>1. CASE Works(w)
  <2>1. CASE req[w].pc = "insert"
    <3>1. req[w].copy \in Template /\ req[w].copy.next <= today /\ today \in 1..MaxDate
      BY <1>0, <2>1 DEF Fresh, Before, Request, GenInv, TypeInv, TypeOK, Dates
    <3>2. req[w].copy.next \in Dates
      BY <3>1 DEF Template, Dates, Bounds
    <3>3. NewInvoice(req[w].t, req[w].copy.next) \in Invoice
      BY <1>0, <3>2, NewInvoiceType DEF Request
    <3>4. bills' = Append(bills, NewInvoice(req[w].t, req[w].copy.next))
      BY <1>1, <2>1 DEF Works
    <3>5. NewInvoice(req[w].t, req[w].copy.next).of = req[w].t
          /\ NewInvoice(req[w].t, req[w].copy.next).date = req[w].copy.next
      BY DEF NewInvoice
    <3> QED
      BY <1>0, <1>1, <2>1, <3>3, <3>4, <3>5, CountMore DEF Inserts
  <2>2. CASE req[w].pc = "lines"
    <3>1. req[w].n \in DOMAIN bills
      BY <1>0, <2>2 DEF Fresh, After
    <3>2. bills[req[w].n] \in Invoice
      BY <1>0, <3>1
    <3>3. bills' = [bills EXCEPT ![req[w].n] = [bills[req[w].n] EXCEPT !.lines = 1]]
      BY <1>1, <2>2, <3>1 DEF Works
    <3>4. /\ [bills[req[w].n] EXCEPT !.lines = 1].of = bills[req[w].n].of
          /\ [bills[req[w].n] EXCEPT !.lines = 1].date = bills[req[w].n].date
      BY <3>2 DEF Invoice
    <3> QED
      BY <1>0, <2>2, <3>1, <3>3, <3>4, CountSame DEF Inserts
  <2>3. CASE req[w].pc \notin {"insert", "lines"}
    BY <1>1, <2>3 DEF Works, Inserts, Billed
  <2> QED
    BY <2>1, <2>2, <2>3
<1>2. CASE Sends(w)
  <2>1. req[w].n \in DOMAIN bills /\ req[w].pc = "save_invoice"
    BY <1>0, <1>2 DEF Sends, Fresh, After
  <2>2. bills[req[w].n] \in Invoice
    BY <1>0, <2>1
  <2>3. PICK status \in {bills[req[w].n].status, "sent"} :
          bills' = [bills EXCEPT ![req[w].n] =
                       [bills[req[w].n] EXCEPT !.total = req[w].total, !.status = status]]
    BY <1>2 DEF Sends
  <2> DEFINE b == [bills[req[w].n] EXCEPT !.total = req[w].total, !.status = status]
  <2>4. b.of = bills[req[w].n].of /\ b.date = bills[req[w].n].date
    BY <2>2 DEF Invoice
  <2>5. bills' = [bills EXCEPT ![req[w].n] = b]
    BY <2>3
  <2> HIDE DEF b
  <2> QED
    BY <1>0, <2>1, <2>4, <2>5, CountSame DEF Inserts
<1>3. CASE EntersByHand(w)
  <2> DEFINE e == [NewInvoice(Hand, 0) EXCEPT !.lines = 1, !.total = 1]
  <2>1. PICK one \in Nat : one = 1
    OBVIOUS
  <2>2. NewInvoice(Hand, 0) \in Invoice
    BY NewInvoiceType
  <2>3. [NewInvoice(Hand, 0) EXCEPT !.lines = one, !.total = one] \in Invoice
    BY <2>2 DEF Invoice
  <2>4. e \in Invoice /\ e.of = Hand
    BY <2>1, <2>3 DEF NewInvoice
  <2>5. bills' = Append(bills, e)
    BY <1>3 DEF EntersByHand
  <2>6. req[w].pc # "insert"
    BY <1>3 DEF EntersByHand
  <2> HIDE DEF e
  <2> QED
    BY <1>0, <2>4, <2>5, <2>6, CountMore DEF Inserts, Bounds
<1>4. CASE Starts(w) \/ Looks(w) \/ SavesRow(w) \/ Ends(w)
  <2>1. bills' = bills
    BY <1>4 DEF Starts, Looks, SavesRow, Ends, SameTables
  <2>2. ~Works(w) \/ req[w].pc # "insert"
    BY <1>4 DEF Starts, Looks, SavesRow, Ends, Works, Idle
  <2> QED
    BY <2>1, <2>2 DEF Billed, Inserts
<1> QED
  BY <1>1, <1>2, <1>3, <1>4 DEF Effect

\* The invoice in hand is that of the one request that is alone.
Has(q, t, row) == q.t = t /\ (q.pc \in After \/ (q.pc = "save_template" /\ q.copy.next = row.next + 1))

LEMMA HandStep ==
    ASSUME GenInv, GenInv', NEW w \in Workers, Effect(w), NEW t \in Templates
    PROVE  /\ Alone(req[w]) => (InHand(t) <=> Has(req[w], t, template[t]))
           /\ Alone(req'[w]) => (InHand(t)' <=> Has(req'[w], t, template'[t]))
           /\ Alone(req[w]) /\ ~Alone(req'[w]) => ~InHand(t)'
           /\ ~Alone(req[w]) /\ Alone(req'[w]) => ~InHand(t)
           /\ ~Alone(req[w]) /\ ~Alone(req'[w]) => (InHand(t)' <=> InHand(t))
<1>1. /\ InHand(t) <=> \E v \in Workers : Has(req[v], t, template[t])
      /\ InHand(t)' <=> \E v \in Workers : Has(req'[v], t, template'[t])
  BY DEF InHand, Has
<1>2. \A v \in Workers : /\ Placed(req[v]) /\ (Has(req[v], t, template[t]) => Alone(req[v]))
                         /\ Placed(req'[v]) /\ (Has(req'[v], t, template'[t]) => Alone(req'[v]))
  BY DEF GenInv, TypeInv, Local, Placed, Has, Alone, Loop, After
<1>3. /\ \A v \in Workers \ {w} : req'[v] = req[v]
      /\ \A u, v \in Workers : Alone(req[u]) /\ Alone(req[v]) => u = v
      /\ \A u, v \in Workers : Alone(req'[u]) /\ Alone(req'[v]) => u = v
  BY DEF Effect, Others, GenInv, Solo, Alone
<1>4. CASE Alone(req[w])
  BY <1>1, <1>2, <1>3, <1>4
<1>5. CASE ~Alone(req[w]) /\ Alone(req'[w])
  BY <1>1, <1>2, <1>3, <1>5
<1>6. CASE ~Alone(req[w]) /\ ~Alone(req'[w])
  <2>1. template' = template
    BY <1>6, OnlyByHand DEF GenInv
  <2> QED
    BY <1>1, <1>2, <1>3, <1>6, <2>1
<1> QED
  BY <1>4, <1>5, <1>6

LEMMA CountsHold ==
    ASSUME Bounds, GenInv, GenInv', NEW w \in Workers, Effect(w),
           NEW t \in Templates, NEW date \in Dates, CountAt(t, date)
    PROVE  CountAt(t, date)'
<1> DEFINE row == template[t]
           B == Billed(t, date)
<1>0. /\ bills \in Seq(Invoice) /\ req[w] \in Request /\ Placed(req[w]) /\ Fresh(req[w])
      /\ row.next \in Nat /\ row.made \in Nat /\ row.made + 1 = row.next
      /\ req[w].copy.next \in Nat /\ req[w].copy.made \in Nat
      /\ aborts \in Nat /\ B \in Nat /\ date \in Nat
      /\ Limit[t] \in Nat /\ EndDate[t] \in Nat
      /\ Placed(req'[w]) /\ Fresh(req[w])'
  BY Facts, Counted DEF GenInv, TypeInv, Local, Dates, Bounds
<1>1. /\ Alone(req[w]) => (InHand(t) <=> Has(req[w], t, template[t]))
      /\ Alone(req'[w]) => (InHand(t)' <=> Has(req'[w], t, template'[t]))
      /\ Alone(req[w]) /\ ~Alone(req'[w]) => ~InHand(t)'
      /\ ~Alone(req[w]) /\ Alone(req'[w]) => ~InHand(t)
      /\ ~Alone(req[w]) /\ ~Alone(req'[w]) => (InHand(t)' <=> InHand(t))
  BY HandStep
<1>2. Billed(t, date)' = IF Inserts(w, t, date) THEN B + 1 ELSE B
  BY CountStep
<1>3. CASE Inserts(w, t, date)
  <2>1. /\ req[w].pc = "insert" /\ req'[w].pc = "lines" /\ req[w].t = t /\ req'[w].t = t
        /\ template' = template /\ aborts' = aborts /\ req[w].copy.next = date
    BY <1>3 DEF Inserts, Works, Holds
  <2>2. Alone(req[w]) /\ Alone(req'[w])
    BY <1>0, <2>1 DEF Placed, Alone, Loop, Before, After
  <2>3. req[w].copy = row /\ ~Exhausted(t, row) /\ date = row.next
    BY <1>0, <2>1 DEF Fresh, Before
  <2>4. ~InHand(t) /\ InHand(t)'
    BY <1>1, <2>1, <2>2 DEF Has, After
  <2>5. B <= aborts
    BY <2>3, <2>4 DEF CountAt
  <2>6. \A last \in {Limit[t], EndDate[t]} \ {0} : ~(date > last)
    BY <1>0, <2>3 DEF Exhausted
  <2>7. B + 1 \in 1..1 + aborts
    BY <1>0, <2>5
  <2> QED
    BY <1>0, <1>2, <1>3, <2>1, <2>3, <2>4, <2>6, <2>7 DEF CountAt
<1>4. CASE ~Inserts(w, t, date)
  <2>0. Billed(t, date)' = B
    BY <1>2, <1>4
  <2>1. CASE SavesRow(w) /\ req[w].t = t
    <3>1. template'[t] = req[w].copy /\ aborts' = aborts
      BY <2>1, Facts DEF SavesRow
    <3>2. ~InHand(t)'
      <4>1. req'[w].pc \notin After \cup {"save_template"}
        BY <2>1 DEF SavesRow, Idle, After
      <4>2. Alone(req[w])
        BY <1>0, <2>1 DEF SavesRow, Placed, Alone, Loop
      <4> QED
        BY <1>1, <4>1, <4>2 DEF Has
    <3>3. CASE req[w].pc = "change"
      <4>1. template'[t].next = row.next
        BY <1>0, <2>1, <3>1, <3>3 DEF Fresh
      <4>2. Alone(req[w])
        BY <1>0, <3>3 DEF Placed, Alone
      <4>3. ~InHand(t)
        BY <1>1, <3>3, <4>2 DEF Has, After
      <4> QED
        BY <2>0, <3>1, <3>2, <4>1, <4>3 DEF CountAt
    <3>4. CASE req[w].pc = "save_template"
      <4>1. req[w].copy.next \in {row.next, row.next + 1}
        BY <1>0, <2>1, <3>4 DEF Fresh
      <4>2. Alone(req[w])
        BY <1>0, <3>4 DEF Placed, Alone, Loop
      <4>3. InHand(t) <=> req[w].copy.next = row.next + 1
        BY <1>1, <2>1, <3>4, <4>2 DEF Has, After
      <4>4. CASE req[w].copy.next = row.next
        <5>1. template'[t].next = row.next /\ ~InHand(t)
          BY <1>0, <3>1, <4>3, <4>4
        <5> QED
          BY <2>0, <3>1, <3>2, <5>1 DEF CountAt
      <4>5. CASE req[w].copy.next = row.next + 1
        <5>1. template'[t].next = row.next + 1 /\ InHand(t)
          BY <3>1, <4>3, <4>5
        <5>2. date <= row.next => B \in 1..1 + aborts
          BY <1>0, <5>1 DEF CountAt
        <5>3. date > row.next => B = 0
          BY DEF CountAt
        <5>4. \A last \in {Limit[t], EndDate[t]} \ {0} : date > last => B = 0
          BY DEF CountAt
        <5> HIDE DEF row, B
        <5> QED
          BY <1>0, <2>0, <3>1, <3>2, <5>1, <5>2, <5>3, <5>4 DEF CountAt
      <4> QED
        BY <4>1, <4>4, <4>5
    <3> QED
      BY <2>1, <3>3, <3>4 DEF SavesRow
  <2>2. CASE ~(SavesRow(w) /\ req[w].t = t)
    <3>1. template'[t] = template[t]
      BY <2>2, Facts DEF Effect, Starts, Looks, Works, Sends, SavesRow, EntersByHand, Ends, SameTables
    <3>2. CASE aborts' = aborts + 1 /\ Ends(w)
      <4>1. InHand(t)' => InHand(t)
        <5>1. ~Alone(req'[w])
          BY <3>2 DEF Ends, Idle, Alone
        <5> QED
          BY <1>1, <5>1
      <4>2. B <= 1 + aborts
        BY <1>0 DEF CountAt
      <4>3. date < row.next \/ (date = row.next /\ InHand(t)') => B \in 1..1 + aborts'
        BY <1>0, <3>2, <4>1 DEF CountAt
      <4> QED
        BY <1>0, <2>0, <3>1, <3>2, <4>2, <4>3 DEF CountAt
    <3>3. CASE ~(aborts' = aborts + 1 /\ Ends(w))
      <4>1. aborts' = aborts
        BY <3>3 DEF Effect, Starts, Looks, Works, Sends, SavesRow, EntersByHand, Ends
      <4>2. date = row.next => (InHand(t)' <=> InHand(t))
        <5> SUFFICES ASSUME date = row.next PROVE InHand(t)' <=> InHand(t)
          OBVIOUS
        <5>1. CASE Starts(w)
          BY <1>0, <1>1, <5>1 DEF Starts, Has, Alone, Placed, After
        <5>2. CASE Looks(w)
          <6>1. Alone(req[w]) /\ Alone(req'[w])
            BY <1>0, <5>2 DEF Looks, Placed, Alone, Loop
          <6>2. ~Has(req[w], t, template[t])
            BY <5>2 DEF Looks, Has, After
          <6>3. req'[w].pc = "save_template" /\ req'[w].t = t => req'[w].copy.next = row.next
            BY <1>0, <5>2 DEF Looks, Fresh, Loop
          <6>4. ~Has(req'[w], t, template'[t])
            BY <1>0, <3>1, <5>2, <6>3 DEF Looks, Has, After
          <6> QED
            BY <1>1, <6>1, <6>2, <6>4
        <5>3. CASE Works(w)
          <6>1. Alone(req[w]) /\ Alone(req'[w]) /\ req'[w].t = req[w].t
            BY <1>0, <5>3 DEF Works, Holds, Placed, Alone, Loop, Before, After
          <6>2. ~(req[w].pc = "insert" /\ req[w].t = t)
            BY <1>0, <1>4, <5>3 DEF Inserts, Fresh, Before
          <6>3. Has(req'[w], t, template'[t]) <=> Has(req[w], t, template[t])
            BY <3>1, <5>3, <6>1, <6>2 DEF Works, Has, After
          <6> QED
            BY <1>1, <6>1, <6>3
        <5>4. CASE Sends(w)
          <6>1. Alone(req[w]) /\ Alone(req'[w])
            BY <1>0, <5>4 DEF Sends, Placed, Alone, Loop, After
          <6>2. req[w].t = t => req'[w].copy.next = row.next + 1
            BY <1>0, <5>4 DEF Sends, Fresh, After
          <6>3. Has(req'[w], t, template'[t]) <=> Has(req[w], t, template[t])
            BY <3>1, <5>4, <6>2 DEF Sends, Holds, Has, After
          <6> QED
            BY <1>1, <6>1, <6>3
        <5>5. CASE SavesRow(w)
          <6>1. Alone(req[w]) /\ req[w].t # t
            BY <1>0, <2>2, <5>5 DEF SavesRow, Placed, Alone, Loop
          <6>2. ~Has(req[w], t, template[t])
            BY <6>1 DEF Has
          <6>3. ~Has(req'[w], t, template'[t])
            BY <5>5 DEF SavesRow, Idle, Has, After
          <6> QED
            BY <1>1, <6>1, <6>2, <6>3
        <5>6. CASE EntersByHand(w)
          BY <1>0, <1>1, <5>6 DEF EntersByHand, Placed, Alone, Idle
        <5>7. CASE Ends(w)
          <6>1. Alone(req[w]) /\ ~Alone(req'[w]) /\ ~Has(req[w], t, template[t])
            BY <1>0, <3>3, <4>1, <5>7 DEF Ends, Placed, Alone, Idle, Loop, Has, After
          <6> QED
            BY <1>1, <6>1
        <5> QED
          BY <5>1, <5>2, <5>3, <5>4, <5>5, <5>6, <5>7 DEF Effect
      <4> QED
        BY <1>0, <2>0, <3>1, <4>1, <4>2 DEF CountAt
    <3> QED
      BY <3>2, <3>3
  <2> QED
    BY <2>1, <2>2
<1> QED
  BY <1>3, <1>4

LEMMA CountsHoldAside == ASSUME CountInv, Aside PROVE CountInv'
<1>1. \A t \in Templates, date \in Dates :
          Billed(t, date)' = Billed(t, date) /\ InHand(t)' = InHand(t)
  BY DEF Aside, Billed, InHand
<1> QED
  BY <1>1 DEF CountInv, CountAt, Aside

-----------------------------------------------------------------------------
(* What is sent.                                                                *)

LEMMA SentStep ==
    ASSUME Bounds, GenInv, GenInv', SentInv, NEW w \in Workers, Effect(w)
    PROVE  SentInv'
<1>0. /\ bills \in Seq(Invoice) /\ req[w] \in Request /\ Placed(req[w]) /\ Fresh(req[w])
      /\ Sending(req[w]) /\ Placed(req'[w]) /\ Fresh(req[w])'
      /\ \A v \in Workers \ {w} : req'[v] = req[v] /\ Placed(req[v]) /\ Fresh(req[v]) /\ Sending(req[v])
      /\ \A v \in Workers : Alone(req[v]) /\ Alone(req[w]) => v = w
      /\ \A n \in DOMAIN bills : Sound(bills[n])
      /\ \A n \in DOMAIN bills : bills[n] \in Invoice
  BY Facts DEF GenInv, TypeInv, Local, SentInv, Effect, Others
<1>1. CASE bills' = bills /\ (Works(w) => req[w].pc \in {"number", "totals"})
  <2>1. Sending(req[w])'
    <3>1. CASE Works(w)
      BY <1>0, <1>1, <3>1 DEF Works, Sending, After
    <3>2. CASE ~Works(w)
      BY <1>1, <3>2 DEF Effect, Starts, Looks, Sends, SavesRow, EntersByHand, Ends, Idle, Sending, After
    <3> QED
      BY <3>1, <3>2
  <2> QED
    BY <1>0, <1>1, <2>1 DEF SentInv, Sending
<1>2. ASSUME NEW e, bills' = Append(bills, e), e.status # "sent" \/ (e.lines = 1 /\ e.total = 1),
             req'[w].pc \in After => /\ req'[w].pc = "lines" /\ req'[w].n = Len(bills) + 1
                                     /\ e.status # "sent"
      PROVE  SentInv'
  <2>1. /\ DOMAIN bills = 1..Len(bills) /\ DOMAIN bills' = 1..Len(bills) + 1 /\ Len(bills) \in Nat
        /\ \A n \in 1..Len(bills) : bills'[n] = bills[n]
        /\ bills'[Len(bills) + 1] = e
    BY <1>0, <1>2
  <2>2. \A n \in DOMAIN bills' : Sound(bills'[n])
    BY <1>0, <1>2, <2>1 DEF Sound
  <2>3. Sending(req[w])'
    BY <1>2, <2>1 DEF Sending, After
  <2>4. ASSUME NEW v \in Workers \ {w} PROVE Sending(req[v])'
    BY <1>0, <2>1 DEF Sending, Fresh, After
  <2> QED
    BY <2>2, <2>3, <2>4 DEF SentInv, Sound
<1>3. ASSUME req[w].pc \in After, NEW b, bills' = [bills EXCEPT ![req[w].n] = b], Sound(b),
             Sending(req[w])'
      PROVE  SentInv'
  <2>1. Alone(req[w]) /\ req[w].n \in DOMAIN bills
    BY <1>0, <1>3 DEF Placed, Alone, Loop, Fresh
  <2>2. \A n \in DOMAIN bills' : n \in DOMAIN bills /\ (bills'[n] = b \/ bills'[n] = bills[n])
    BY <1>3
  <2>3. \A n \in DOMAIN bills' : Sound(bills'[n])
    BY <1>0, <1>3, <2>2
  <2>4. ASSUME NEW v \in Workers \ {w} PROVE Sending(req[v])'
    <3>1. ~Alone(req[v]) /\ req'[v] = req[v]
      BY <1>0, <2>1
    <3>2. req[v].pc \notin After
      BY <1>0, <3>1 DEF Placed, Alone, Loop
    <3> QED
      BY <3>1, <3>2 DEF Sending, After
  <2> QED
    BY <1>3, <2>3, <2>4 DEF SentInv, Sound
<1>4. CASE Works(w)
  <2>1. CASE req[w].pc = "insert"
    <3> DEFINE e == NewInvoice(req[w].t, req[w].copy.next)
    <3>1. bills' = Append(bills, e) /\ e.status # "sent"
      BY <1>4, <2>1 DEF Works, NewInvoice
    <3>2. req'[w].pc = "lines" /\ req'[w].n = Len(bills) + 1
      BY <1>4, <2>1 DEF Works
    <3> HIDE DEF e
    <3> QED
      BY <1>2, <3>1, <3>2
  <2>2. CASE req[w].pc = "lines"
    <3> DEFINE b == [bills[req[w].n] EXCEPT !.lines = 1]
    <3>1. req[w].n \in DOMAIN bills /\ bills[req[w].n] \in Invoice /\ bills[req[w].n].status # "sent"
      BY <1>0, <2>2 DEF Fresh, Sending, After
    <3>2. bills' = [bills EXCEPT ![req[w].n] = b]
      BY <1>4, <2>2, <3>1 DEF Works
    <3>3. b.lines = 1 /\ b.status # "sent"
      BY <3>1 DEF Invoice
    <3>4. bills'[req[w].n] = b
      BY <3>1, <3>2
    <3> HIDE DEF b
    <3>5. Sending(req[w])'
      BY <1>4, <2>2, <3>3, <3>4 DEF Works, Sending, After
    <3> QED
      BY <1>3, <2>2, <3>2, <3>3, <3>5 DEF Sound, After
  <2>3. CASE req[w].pc \notin {"insert", "lines"}
    BY <1>1, <1>4, <2>3 DEF Works
  <2> QED
    BY <2>1, <2>2, <2>3
<1>5. CASE Sends(w)
  <2>1. PICK status \in {bills[req[w].n].status, "sent"} :
          bills' = [bills EXCEPT ![req[w].n] =
                       [bills[req[w].n] EXCEPT !.total = req[w].total, !.status = status]]
    BY <1>5 DEF Sends
  <2> DEFINE b == [bills[req[w].n] EXCEPT !.total = req[w].total, !.status = status]
  <2>2. bills[req[w].n] \in Invoice /\ bills[req[w].n].lines = 1 /\ req[w].total = 1
        /\ req[w].pc \in After /\ req'[w].pc = "save_template"
    BY <1>0, <1>5 DEF Sends, Fresh, Sending, After
  <2>3. Sound(b)
    BY <2>2 DEF Sound, Invoice
  <2>4. Sending(req[w])'
    BY <2>2 DEF Sending, After
  <2>5. bills' = [bills EXCEPT ![req[w].n] = b]
    BY <2>1
  <2> HIDE DEF b
  <2> QED
    BY <1>3, <2>2, <2>3, <2>4, <2>5
<1>6. CASE EntersByHand(w)
  <2> DEFINE e == [NewInvoice(Hand, 0) EXCEPT !.lines = 1, !.total = 1]
  <2>1. e.lines = 1 /\ e.total = 1
    BY DEF NewInvoice
  <2>2. bills' = Append(bills, e) /\ req'[w].pc \notin After
    BY <1>6 DEF EntersByHand, Idle, After
  <2> HIDE DEF e
  <2> QED
    BY <1>2, <2>1, <2>2
<1>7. CASE Starts(w) \/ Looks(w) \/ SavesRow(w) \/ Ends(w)
  BY <1>1, <1>4, <1>7 DEF Starts, Looks, SavesRow, Ends, SameTables
<1> QED
  BY <1>4, <1>5, <1>6, <1>7 DEF Effect

\* Every variable has its type: the pages of recurring templates keep the rows that they
\* read and write, and what they hold of them, within what the tables may hold.
THEOREM TypeCorrect ==
    ASSUME Bounds
    PROVE  Spec => []TypeOK
<1>1. Init => GenInv
  BY InitGen
<1>2. GenInv /\ [Next]_vars => GenInv'
  BY GenStep
<1>3. GenInv => TypeOK
  BY DEF GenInv, TypeInv
<1> QED BY <1>1, <1>2, <1>3, PTL DEF Spec

\* Each date of a template is billed once, and once more at most for each request that
\* ended half-way; dates are billed in order, within the template's limit and end date;
\* what was sent by itself has its lines and its total.
THEOREM DatesAreBilledOnce ==
    ASSUME Bounds
    PROVE  Spec => []BilledOnce
<1>1. Init => GenInv
  BY InitGen
<1>2. Init => CountInv /\ SentInv
  <2> SUFFICES ASSUME Init PROVE CountInv /\ SentInv
    OBVIOUS
  <2>1. bills = <<>> /\ DOMAIN bills = {} /\ aborts = 0
    BY DEF Init
  <2>2. ASSUME NEW t \in Templates, NEW date \in Dates PROVE Billed(t, date) = 0
    <3>1. Bills(t, date) = {}
      BY <2>1 DEF Bills
    <3> QED
      BY <3>1, FS_EmptySet DEF Billed, Bills
  <2>3. \A t \in Templates : ~InHand(t) /\ template[t].next = 1
    BY DEF Init, InHand, Idle, First, After
  <2>4. CountInv
    BY <2>1, <2>2, <2>3 DEF CountInv, CountAt, Dates
  <2> QED
    BY <2>1, <2>4 DEF Init, SentInv, Sending, Idle, After
<1>3. GenInv /\ GenInv' /\ CountInv /\ SentInv /\ [Next]_vars => CountInv' /\ SentInv'
  <2> SUFFICES ASSUME GenInv, GenInv', CountInv, SentInv, [Next]_vars PROVE CountInv' /\ SentInv'
    OBVIOUS
  <2>1. CASE Aside
    BY <2>1, CountsHoldAside DEF Aside, SentInv, Sending
  <2>2. ASSUME NEW w \in Workers, Effect(w) PROVE CountInv' /\ SentInv'
    <3>1. \A t \in Templates, date \in Dates : CountAt(t, date)'
      BY <2>2, CountsHold DEF CountInv
    <3> QED
      BY <2>2, <3>1, SentStep DEF CountInv
  <2> QED
    BY <2>1, <2>2, Effects
<1>4. GenInv /\ CountInv /\ SentInv => BilledOnce
  <2> SUFFICES ASSUME GenInv, CountInv, SentInv PROVE BilledOnce
    OBVIOUS
  <2>1. ASSUME NEW t \in Templates, NEW date \in Dates
        PROVE  /\ Billed(t, date) <= 1 + aborts
               /\ date < template[t].next => Billed(t, date) >= 1
               /\ date > template[t].next => Billed(t, date) = 0
               /\ \A last \in {Limit[t], EndDate[t]} \ {0} : date > last => Billed(t, date) = 0
    <3>1. /\ Billed(t, date) \in Nat /\ aborts \in Nat /\ template[t].next \in Nat /\ date \in Nat
          /\ CountAt(t, date)
      BY Facts, Counted DEF CountInv, Dates
    <3> QED
      BY <3>1 DEF CountAt
  <2> QED
    BY <2>1 DEF BilledOnce, SentInv, Sound
<1>5. GenInv /\ [Next]_vars => GenInv'
  BY GenStep
<1> QED
  BY <1>1, <1>2, <1>3, <1>4, <1>5, PTL DEF Spec
=============================================================================
