---------------------------- MODULE Payables_proofs ----------------------------
(***************************************************************************)
(* Theorems about Payables, for any number of workers, bills, payments,    *)
(* batches, schedules and uploads, any amounts, any overlap and any number *)
(* of requests that end half-way, except where a hypothesis says more.     *)
(***************************************************************************)
EXTENDS Payables, TLAPS, FiniteSetTheorems

-----------------------------------------------------------------------------
(* Types.  TypeOK lets a request have no bill and any document; it is inductive  *)
(* together with what the kind of the request says about them.                   *)

FormOps == {"create_bill", "edit_bill"}
BillOps == FormOps \cup WorkflowOps
PayingOps == {"create_payment", "process", "execute"}
FormLabels == {"header", "lines", "totals"}
BillLabels == FormLabels \cup {"find_row", "approval_row", "update"}
PayLabels == {"number", "insert", "allocate"}

\* The documents that requests of a kind work on.
DocsOf(op) ==
    IF op \in {"create_batch", "process"} THEN Batches
    ELSE IF op \in {"execute", "cancel"} THEN Schedules
    ELSE IF op = "create_from_upload" THEN Uploads
    ELSE {0}

\* The kinds of request that execute a statement.
OpsAt(pc) ==
    IF pc = "idle" THEN {"none"}
    ELSE IF pc \in FormLabels THEN FormOps
    ELSE IF pc = "find_row" THEN Decisions
    ELSE IF pc = "approval_row" THEN {"submit"} \cup Decisions
    ELSE IF pc = "update" THEN BillOps
    ELSE IF pc \in PayLabels THEN PayingOps
    ELSE IF pc = "count" THEN {"create_batch"}
    ELSE IF pc \in {"eligible", "select", "save_batch"} THEN {"process"}
    ELSE IF pc = "respond" THEN {"create_batch", "process"}
    ELSE IF pc = "save_schedule" THEN {"execute", "cancel"}
    ELSE {"create_from_upload"}

Placed(q) ==
    /\ q.op \in OpsAt(q.pc)
    /\ q.d \in DocsOf(q.op)
    /\ q.b \in IF q.pc \in BillLabels \cup {"link"} THEN Bills ELSE {0}
    /\ q.pc \in {"insert", "allocate"} => q.p \in Payments
    /\ q.op = "submit" => q.rec = 0

Local == {q \in Request : Placed(q)}

TypeInv == TypeOK /\ req \in [Workers -> Local]

LEMMA EmptyTypes ==
    /\ NoBill \in Bill
    /\ NoSchedule \in Schedule
    /\ NoBills \in [Bills -> Nat]
    /\ NoRows \in [Rows -> RowStatus]
    /\ NoSelection \in [Batches -> SUBSET Bills]
    /\ Idle \in Local
<1>1. NoBill \in Bill /\ NoSchedule \in Schedule
  BY DEF NoBill, Bill, NoSchedule, Schedule
<1>2. NoBills \in [Bills -> Nat] /\ NoSelection \in [Batches -> SUBSET Bills]
  BY DEF NoBills, NoSelection
<1>3. NoRows \in [Rows -> RowStatus]
  BY DEF NoRows, RowStatus
<1>4. Idle \in Request
  BY <1>1, <1>2 DEF Idle, Request, Labels
<1> QED
  BY <1>1, <1>2, <1>3, <1>4
     DEF Local, Placed, Idle, OpsAt, DocsOf, BillLabels, FormLabels

\* What the types say of the local values of one worker.
LEMMA LocalTypes ==
    ASSUME TypeInv, NEW w \in Workers
    PROVE  /\ req[w] \in Local /\ req[w] \in Request /\ Placed(req[w])
           /\ req[w].copy \in Bill
           /\ req[w].rec \in Rows \cup {0}
           /\ req[w].amt \in Nat
           /\ req[w].row \in Schedule
           /\ req[w].p \in Payments \cup {0}
           /\ req[w].due \in [Bills -> Nat]
           /\ req[w].made \in Nat
           /\ req[w].sess \in [Batches -> SUBSET Bills]
  BY DEF TypeInv, Local, Request

\* A request arrives with well typed local values.
LEMMA ArriveType ==
    ASSUME TypeInv, NEW w \in Workers, NEW r \in Local, Arrive(w, r)
    PROVE  req' \in [Workers -> Local]
<1> DEFINE s == IF w \in Clerks THEN session ELSE r.sess
<1>1. s \in [Batches -> SUBSET Bills]
  BY DEF TypeInv, TypeOK, Local, Request
<1>2. [r EXCEPT !.sess = s] \in Local
  <2> HIDE DEF s
  <2> QED BY <1>1 DEF Local, Request, Placed
<1>3. req' = [req EXCEPT ![w] = [r EXCEPT !.sess = s]]
  BY DEF Arrive
<1> QED BY <1>2, <1>3 DEF TypeInv

LEMMA RespondType ==
    ASSUME TypeInv, NEW w \in Workers, Respond(w)
    PROVE  /\ req' \in [Workers -> Local]
           /\ session' \in [Batches -> SUBSET Bills]
           /\ aborts' \in Nat
  BY EmptyTypes, LocalTypes DEF Respond, TypeInv, TypeOK

LEMMA AbortType ==
    ASSUME TypeInv, NEW w \in Workers, Abort(w)
    PROVE  /\ req' \in [Workers -> Local]
           /\ session' \in [Batches -> SUBSET Bills]
           /\ aborts' \in Nat
  BY EmptyTypes DEF Abort, TypeInv, TypeOK

\* A worker goes on with local values that are well typed.
LEMMA GoOnType ==
    ASSUME TypeInv, NEW w \in Workers, NEW q \in Local, req' = [req EXCEPT ![w] = q]
    PROVE  req' \in [Workers -> Local]
  BY DEF TypeInv

\* A step keeps the types if it keeps that of each table.
LEMMA TypesTogether ==
    ASSUME req' \in [Workers -> Local], session' \in [Batches -> SUBSET Bills],
           bill' \in [Bills -> Bill], lines' \in [Bills -> Nat],
           approval' \in [Bills -> [Rows -> RowStatus]],
           pay' \in [Payments -> {"none", "form"} \cup Batches \cup Schedules],
           alloc' \in [Payments -> [Bills -> Nat]],
           batch' \in [Batches -> Batch], sched' \in [Schedules -> Schedule],
           upload' \in [Uploads -> Bills \cup {0}],
           offered' \in Offerings, aborts' \in Nat
    PROVE  TypeInv'
  BY DEF TypeInv, TypeOK, Local

LEMMA InitTypes == Init => TypeInv
<1> SUFFICES ASSUME Init PROVE TypeInv
  OBVIOUS
<1>1. batch \in [Batches -> Batch]
  BY DEF Init, Batch
<1> QED BY <1>1, EmptyTypes DEF Init, TypeInv, TypeOK, Local

\* The number of bills in a set of bills.
LEMMA BillCount ==
    ASSUME NEW S \in SUBSET Bills
    PROVE  IsFiniteSet(S) /\ Cardinality(S) \in Nat
<1>1. IsFiniteSet(Bills)
  <2>1. 1 \in Int /\ MaxBills \in Int
    BY PayablesAssumption
  <2> QED BY <2>1, FS_Interval, Zenon DEF Bills
<1> QED BY <1>1, FS_Subset, FS_CardinalityType

LEMMA NewStatusType ==
    ASSUME NEW op \in WorkflowOps
    PROVE  NewStatus(op) \in {"draft", "pending_approval", "approved", "void"}
  BY DEF WorkflowOps, NewStatus

LEMMA StartTypes ==
    ASSUME TypeInv, offered' = offered, NEW w \in Workers, Start(w)
    PROVE  TypeInv'
<1> USE DEF Placed, FormOps, BillOps, PayingOps, FormLabels, BillLabels, PayLabels, Local,
        OpsAt, DocsOf
<1>t. TypeOK
  BY DEF TypeInv
<1>1. CASE CreateBill(w)
  <2> DEFINE row == [NoBill EXCEPT !.st = "draft"]
  <2>1. PICK b \in Bills, a \in Totals :
           /\ bill' = [bill EXCEPT ![b] = row]
           /\ Arrive(w, [Idle EXCEPT !.op = "create_bill", !.pc = "lines", !.b = b,
                                     !.copy = row, !.amt = a])
    BY <1>1 DEF CreateBill
  <2>2. row \in Bill /\ a \in Nat
    BY EmptyTypes, PayablesAssumption DEF Bill
  <2> HIDE DEF row
  <2>3. [Idle EXCEPT !.op = "create_bill", !.pc = "lines", !.b = b, !.copy = row,
                     !.amt = a] \in Local
    BY <2>2, EmptyTypes DEF Request, Idle, Ops, Labels
  <2>4. req' \in [Workers -> Local]
    BY <2>1, <2>3, ArriveType
  <2>5. bill' \in [Bills -> Bill]
    BY <1>t, <2>1, <2>2 DEF TypeOK
  <2> QED BY <1>t, <1>1, <2>4, <2>5, TypesTogether
          DEF CreateBill, payments, documents, TypeOK
<1>2. CASE CreatePayment(w)
  <2>1. PICK due \in [Bills -> Totals \cup {0}] :
           /\ due # NoBills
           /\ \A b \in Bills : due[b] > 0 => bill[b].st # "none"
           /\ Arrive(w, [Idle EXCEPT !.op = "create_payment", !.pc = "number", !.due = due])
    BY <1>2, Zenon DEF CreatePayment
  <2>2. due \in [Bills -> Nat]
    <3>1. Totals \cup {0} \subseteq Nat
      BY PayablesAssumption
    <3>2. \A b \in Bills : due[b] \in Nat
      BY <3>1
    <3> QED BY <3>2
  <2>3. [Idle EXCEPT !.op = "create_payment", !.pc = "number", !.due = due] \in Local
    BY <2>2, EmptyTypes DEF Request, Idle, Ops, Labels
  <2>4. req' \in [Workers -> Local]
    BY <2>1, <2>3, ArriveType
  <2> QED BY <1>t, <1>2, <2>4, TypesTogether
          DEF CreatePayment, bills, payments, documents, TypeOK
<1>3. ASSUME NEW b \in Bills, EditBill(w, b) PROVE TypeInv'
  <2>1. PICK a \in Totals :
           Arrive(w, [Idle EXCEPT !.op = "edit_bill", !.pc = "header", !.b = b,
                                  !.copy = bill[b], !.amt = a])
    BY <1>3 DEF EditBill
  <2>2. bill[b] \in Bill /\ a \in Nat
    BY <1>t, PayablesAssumption DEF TypeOK
  <2>3. [Idle EXCEPT !.op = "edit_bill", !.pc = "header", !.b = b, !.copy = bill[b],
                     !.amt = a] \in Local
    BY <2>2, EmptyTypes DEF Request, Idle, Ops, Labels
  <2>4. req' \in [Workers -> Local]
    BY <2>1, <2>3, ArriveType
  <2> QED BY <1>t, <1>3, <2>4, TypesTogether
          DEF EditBill, bills, payments, documents, TypeOK
<1>4. ASSUME NEW b \in Bills, NEW op \in WorkflowOps, ChangeBill(w, b, op) PROVE TypeInv'
  <2> DEFINE row == [bill[b] EXCEPT !.st = NewStatus(op)]
             label == IF op \in Decisions THEN "find_row" ELSE "update"
             q == [Idle EXCEPT !.op = op, !.b = b, !.pc = label, !.copy = row]
  <2>1. row \in Bill
    <3> HIDE DEF label, q
    <3>1. bill[b] \in Bill /\ NewStatus(op) \in {"draft", "pending_approval", "approved", "void"}
      BY <1>t, NewStatusType DEF TypeOK
    <3> QED BY <3>1 DEF Bill
  <2>2. /\ label \in {"find_row", "update"} /\ op \in Ops
        /\ label = "find_row" => op \in Decisions
    BY DEF WorkflowOps, Ops
  <2>3. Arrive(w, q)
    BY <1>4 DEF ChangeBill
  <2>4. q \in Local
    <3> HIDE DEF row, label
    <3>1. q \in Request /\ q.op = op /\ q.pc = label /\ q.b = b /\ q.d = 0 /\ q.rec = 0
      BY <2>1, <2>2, EmptyTypes DEF Request, Idle, Labels
    <3> HIDE DEF q
    <3>2. CASE label = "find_row"
      BY <2>2, <3>1, <3>2 DEF WorkflowOps
    <3>3. CASE label = "update"
      BY <3>1, <3>3 DEF WorkflowOps
    <3> QED BY <2>2, <3>2, <3>3
  <2>5. req' \in [Workers -> Local]
    <3> HIDE DEF q
    <3> QED BY <2>3, <2>4, ArriveType
  <2> QED BY <1>t, <1>4, <2>5, TypesTogether
          DEF ChangeBill, bills, payments, documents, TypeOK
<1>5. ASSUME NEW x \in Batches, CreateBatch(w, x) PROVE TypeInv'
  <2>1. PICK due \in [Bills -> 0..1] :
           Arrive(w, [Idle EXCEPT !.op = "create_batch", !.pc = "count", !.d = x, !.due = due])
    BY <1>5 DEF CreateBatch
  <2>0. due \in [Bills -> Nat]
    OBVIOUS
  <2>2. [Idle EXCEPT !.op = "create_batch", !.pc = "count", !.d = x, !.due = due] \in Local
    BY <2>0, EmptyTypes DEF Request, Idle, Ops, Labels, Docs
  <2>3. req' \in [Workers -> Local]
    BY <2>1, <2>2, ArriveType
  <2>4. batch' \in [Batches -> Batch]
    BY <1>t, <1>5 DEF CreateBatch, TypeOK, Batch
  <2> QED BY <1>t, <1>5, <2>3, <2>4, TypesTogether
          DEF CreateBatch, bills, payments, TypeOK
<1>6. ASSUME NEW x \in Batches, ProcessBatch(w, x) PROVE TypeInv'
  <2>1. [Idle EXCEPT !.op = "process", !.pc = "eligible", !.d = x] \in Local
    BY EmptyTypes DEF Request, Idle, Ops, Labels, Docs
  <2>2. req' \in [Workers -> Local]
    BY <1>6, <2>1, ArriveType DEF ProcessBatch
  <2> QED BY <1>t, <1>6, <2>2, TypesTogether
          DEF ProcessBatch, bills, payments, documents, TypeOK
<1>7. ASSUME NEW s \in Schedules, SchedulePayment(w, s) PROVE TypeInv'
  <2>1. PICK b \in Bills, a \in Totals :
           sched' = [sched EXCEPT ![s] = [st |-> "scheduled", b |-> b, amt |-> a, p |-> 0]]
    BY <1>7 DEF SchedulePayment
  <2>2. [st |-> "scheduled", b |-> b, amt |-> a, p |-> 0] \in Schedule
    BY PayablesAssumption DEF Schedule
  <2>3. sched' \in [Schedules -> Schedule]
    BY <1>t, <2>1, <2>2 DEF TypeOK
  <2> QED BY <1>t, <1>7, <2>3, TypesTogether
          DEF SchedulePayment, bills, payments, TypeOK, TypeInv
<1>8. ASSUME NEW s \in Schedules, ExecuteSchedule(w, s) PROVE TypeInv'
  <2> DEFINE due == [NoBills EXCEPT ![sched[s].b] = sched[s].amt]
  <2>1. sched[s] \in Schedule /\ due \in [Bills -> Nat]
    BY <1>t, EmptyTypes DEF TypeOK, Schedule
  <2>2. Arrive(w, [Idle EXCEPT !.op = "execute", !.pc = "number", !.d = s,
                               !.row = sched[s], !.due = due])
    BY <1>8 DEF ExecuteSchedule
  <2> HIDE DEF due
  <2>3. [Idle EXCEPT !.op = "execute", !.pc = "number", !.d = s, !.row = sched[s],
                     !.due = due] \in Local
    BY <2>1, EmptyTypes DEF Request, Idle, Ops, Labels, Docs
  <2>4. req' \in [Workers -> Local]
    BY <2>2, <2>3, ArriveType
  <2> QED BY <1>t, <1>8, <2>4, TypesTogether
          DEF ExecuteSchedule, bills, payments, documents, TypeOK
<1>9. ASSUME NEW s \in Schedules, CancelSchedule(w, s) PROVE TypeInv'
  <2>1. sched[s] \in Schedule
    BY <1>t DEF TypeOK
  <2>2. [Idle EXCEPT !.op = "cancel", !.pc = "save_schedule", !.d = s,
                     !.row = sched[s]] \in Local
    BY <2>1, EmptyTypes DEF Request, Idle, Ops, Labels, Docs
  <2>3. req' \in [Workers -> Local]
    BY <1>9, <2>2, ArriveType DEF CancelSchedule
  <2> QED BY <1>t, <1>9, <2>3, TypesTogether
          DEF CancelSchedule, bills, payments, documents, TypeOK
<1>10. ASSUME NEW u \in Uploads, CreateFromUpload(w, u) PROVE TypeInv'
  <2>1. PICK a \in Totals :
           Arrive(w, [Idle EXCEPT !.op = "create_from_upload", !.pc = "insert_bill",
                                  !.d = u, !.amt = a])
    BY <1>10 DEF CreateFromUpload
  <2>2. [Idle EXCEPT !.op = "create_from_upload", !.pc = "insert_bill", !.d = u,
                     !.amt = a] \in Local
    BY PayablesAssumption, EmptyTypes, ZenonT(40) DEF Request, Idle, Ops, Labels, Docs
  <2>3. req' \in [Workers -> Local]
    BY <2>1, <2>2, ArriveType
  <2> QED BY <1>t, <1>10, <2>3, TypesTogether
          DEF CreateFromUpload, bills, payments, documents, TypeOK
<1> QED
  BY <1>1, <1>2, <1>3, <1>4, <1>5, <1>6, <1>7, <1>8, <1>9, <1>10 DEF Start

\* Moving on to another statement about the same documents.
LEMMA GotoType ==
    ASSUME TypeInv, NEW w \in Workers, NEW label \in Labels, Goto(w, label),
           Placed([req[w] EXCEPT !.pc = label])
    PROVE  req' \in [Workers -> Local]
<1>1. [req[w] EXCEPT !.pc = label] \in Request
  BY LocalTypes DEF Request
<1> QED BY <1>1 DEF Goto, TypeInv, Local

LEMMA ContinueTypes ==
    ASSUME TypeInv, offered' = offered, NEW w \in Workers, Continue(w)
    PROVE  TypeInv'
<1> USE DEF Placed, FormOps, BillOps, PayingOps, FormLabels, BillLabels, PayLabels, OpsAt,
        DocsOf
<1> DEFINE q == req[w]
<1>0. /\ q \in Local /\ q \in Request /\ Placed(q)
      /\ q.copy \in Bill
      /\ q.rec \in Rows \cup {0}
      /\ q.amt \in Nat
      /\ q.row \in Schedule
      /\ q.p \in Payments \cup {0}
      /\ q.due \in [Bills -> Nat]
      /\ q.made \in Nat
      /\ q.sess \in [Batches -> SUBSET Bills]
  BY LocalTypes
<1>t. TypeOK
  BY DEF TypeInv
<1>1. CASE SaveHeader(w)
  <2>1. q.b \in Bills /\ q.pc = "header" /\ Placed([q EXCEPT !.pc = "lines"])
    BY <1>0, <1>1 DEF SaveHeader, At, Request
  <2>2. req' \in [Workers -> Local]
    BY <1>1, <2>1, GotoType DEF SaveHeader, Labels
  <2>3. bill' \in [Bills -> Bill]
    BY <1>t, <1>0, <1>1, <2>1 DEF SaveHeader, TypeOK
  <2> QED BY <1>t, <1>1, <2>2, <2>3, TypesTogether
          DEF SaveHeader, payments, documents, TypeOK
<1>2. CASE SaveLines(w)
  <2>1. q.b \in Bills /\ q.pc = "lines" /\ Placed([q EXCEPT !.pc = "totals"])
    BY <1>0, <1>2 DEF SaveLines, At, Request
  <2>2. req' \in [Workers -> Local]
    BY <1>2, <2>1, GotoType DEF SaveLines, Labels
  <2>3. lines' \in [Bills -> Nat]
    BY <1>t, <1>0, <1>2, <2>1 DEF SaveLines, TypeOK
  <2> QED BY <1>t, <1>2, <2>2, <2>3, TypesTogether
          DEF SaveLines, payments, documents, TypeOK
<1>3. CASE UpdateTotals(w)
  <2> DEFINE n == [q EXCEPT !.pc = "update", !.copy = [q.copy EXCEPT !.total = lines[q.b]]]
  <2>1. q.b \in Bills /\ q.pc = "totals"
    BY <1>0, <1>3 DEF UpdateTotals, At
  <2>2. [q.copy EXCEPT !.total = lines[q.b]] \in Bill
    BY <1>t, <1>0, <2>1 DEF TypeOK, Bill
  <2>3. n \in Local
    BY <1>0, <2>1, <2>2 DEF Local, Request, Labels
  <2>4. req' \in [Workers -> Local]
    <3>1. req' = [req EXCEPT ![w] = n]
      BY <1>3 DEF UpdateTotals
    <3> HIDE DEF n
    <3> QED BY <2>3, <3>1, GoOnType
  <2> QED BY <1>t, <1>3, <2>4, TypesTogether
          DEF UpdateTotals, bills, payments, documents, TypeOK
<1>4. CASE UpdateBill(w)
  <2>1. q.b \in Bills
    BY <1>0, <1>4 DEF UpdateBill, At
  <2>2. bill' \in [Bills -> Bill]
    BY <1>t, <1>0, <1>4, <2>1 DEF UpdateBill, TypeOK
  <2>3. /\ req' \in [Workers -> Local]
        /\ session' \in [Batches -> SUBSET Bills]
        /\ aborts' \in Nat
    <3>1. CASE q.op = "submit"
      <4>1. Goto(w, "approval_row") /\ UNCHANGED <<session, aborts>>
        BY <1>4, <3>1 DEF UpdateBill
      <4>2. Placed([q EXCEPT !.pc = "approval_row"])
        BY <1>0, <1>4, <2>1, <3>1 DEF UpdateBill, At, Request, WorkflowOps
      <4>3. req' \in [Workers -> Local]
        BY <4>1, <4>2, GotoType DEF Labels
      <4> QED BY <1>t, <4>1, <4>3 DEF TypeOK
    <3>2. CASE q.op # "submit"
      BY <1>4, <3>2, RespondType DEF UpdateBill
    <3> QED BY <3>1, <3>2
  <2> QED BY <1>t, <1>4, <2>2, <2>3, TypesTogether
          DEF UpdateBill, payments, documents, TypeOK
<1>5. CASE FindRow(w)
  <2>1. PICK r \in Rows \cup {0} :
           req' = [req EXCEPT ![w].rec = r, ![w].pc = "approval_row"]
    BY <1>5, Zenon DEF FindRow
  <2>2. req' = [req EXCEPT ![w] = [q EXCEPT !.rec = r, !.pc = "approval_row"]]
    BY <2>1
  <2>3. q.pc = "find_row" /\ q.op \in Decisions /\ q.b \in Bills /\ q.d = 0
    BY <1>0, <1>5 DEF FindRow, At, Decisions
  <2>4. [q EXCEPT !.rec = r, !.pc = "approval_row"] \in Local
    BY <1>0, <2>3 DEF Local, Request, Labels, Decisions
  <2>5. req' \in [Workers -> Local]
    BY <2>2, <2>4, GoOnType
  <2> QED BY <1>t, <1>5, <2>5, TypesTogether
          DEF FindRow, bills, payments, documents, TypeOK
<1>17. CASE SaveApproval(w)
  <2>1. /\ q.b \in Bills /\ q.pc = "approval_row" /\ q.d = 0
        /\ q.op \in {"submit", "approve", "reject"}
    BY <1>0, <1>17 DEF SaveApproval, At, Decisions
  <2>2. PICK r \in Rows : approval' = [approval EXCEPT ![q.b][r] = Recorded(q.op)]
    BY <1>17, Zenon DEF SaveApproval
  <2>3. approval' \in [Bills -> [Rows -> RowStatus]]
    <3>1. Recorded(q.op) \in RowStatus
      BY <2>1 DEF Recorded, RowStatus
    <3> QED BY <1>t, <2>1, <2>2, <3>1 DEF TypeOK
  <2>4. /\ req' \in [Workers -> Local]
        /\ session' \in [Batches -> SUBSET Bills]
        /\ aborts' \in Nat
    <3>1. CASE q.op = "submit"
      BY <1>17, <3>1, RespondType DEF SaveApproval
    <3>2. CASE q.op # "submit"
      <4>1. Goto(w, "update") /\ UNCHANGED <<session, aborts>>
        BY <1>17, <3>2 DEF SaveApproval
      <4>2. Placed([q EXCEPT !.pc = "update"])
        BY <1>0, <2>1 DEF Request, WorkflowOps
      <4>3. req' \in [Workers -> Local]
        BY <4>1, <4>2, GotoType DEF Labels
      <4> QED BY <1>t, <4>1, <4>3 DEF TypeOK
    <3> QED BY <3>1, <3>2
  <2> QED BY <1>t, <1>17, <2>3, <2>4, TypesTogether
          DEF SaveApproval, payments, documents, TypeOK
<1>6. CASE GenerateNumber(w)
  <2>1. PICK p \in Payments : req' = [req EXCEPT ![w] = [q EXCEPT !.p = p, !.pc = "insert"]]
    BY <1>6 DEF GenerateNumber
  <2>2. [q EXCEPT !.p = p, !.pc = "insert"] \in Local
    BY <1>0, <1>6 DEF GenerateNumber, At, Local, Request, Labels
  <2>3. req' \in [Workers -> Local]
    BY <2>1, <2>2, GoOnType
  <2> QED BY <1>t, <1>6, <2>3, TypesTogether
          DEF GenerateNumber, bills, payments, documents, TypeOK
<1>7. CASE InsertPayment(w)
  <2>1. q.p \in Payments /\ q.pc = "insert" /\ q.op \in PayingOps
    BY <1>0, <1>7 DEF InsertPayment, At
  <2>2. Source(w) \in {"form"} \cup Batches \cup Schedules
    BY <1>0, <2>1 DEF Source
  <2>3. CASE pay[q.p] = "none"
    <3>1. pay' = [pay EXCEPT ![q.p] = Source(w)] /\ Goto(w, "allocate")
             /\ UNCHANGED <<session, aborts>>
      BY <1>7, <2>3 DEF InsertPayment
    <3>2. pay' \in [Payments -> {"none", "form"} \cup Batches \cup Schedules]
      BY <1>t, <2>1, <2>2, <3>1 DEF TypeOK
    <3>3. Placed([q EXCEPT !.pc = "allocate"])
      BY <1>0, <2>1 DEF Request
    <3>4. req' \in [Workers -> Local]
      BY <3>1, <3>3, GotoType DEF Labels
    <3> QED BY <1>t, <1>7, <3>1, <3>2, <3>4, TypesTogether
            DEF InsertPayment, bills, documents, TypeOK
  <2>4. CASE pay[q.p] # "none"
    <3>1. /\ req' \in [Workers -> Local]
          /\ session' \in [Batches -> SUBSET Bills]
          /\ aborts' \in Nat
      BY <1>7, <2>4, AbortType DEF InsertPayment
    <3> QED BY <1>t, <1>7, <2>4, <3>1, TypesTogether
            DEF InsertPayment, bills, documents, TypeOK
  <2> QED BY <2>3, <2>4
<1>8. CASE SaveAllocation(w)
  <2> DEFINE rest(b) == [q.due EXCEPT ![b] = 0]
             n(b) == [q EXCEPT !.due = rest(b), !.made = q.made + 1,
                               !.pc = AfterAllocation(w, rest(b))]
  <2>0. PICK b \in Todo(w) :
           /\ alloc' = [alloc EXCEPT ![q.p][b] = q.due[b]]
           /\ IF q.op = "create_payment" /\ rest(b) = NoBills
              THEN Respond(w)
              ELSE /\ req' = [req EXCEPT ![w].due = rest(b), ![w].made = @ + 1,
                                         ![w].pc = AfterAllocation(w, rest(b))]
                   /\ UNCHANGED <<session, aborts>>
    BY <1>8, Zenon DEF SaveAllocation
  <2>1. /\ alloc' = [alloc EXCEPT ![q.p][b] = q.due[b]]
        /\ \/ Respond(w)
           \/ req' = [req EXCEPT ![w] = n(b)] /\ UNCHANGED <<session, aborts>>
    <3> HIDE DEF rest
    <3> QED BY <2>0
  <2>2. /\ q.p \in Payments /\ q.pc = "allocate" /\ q.op \in PayingOps
        /\ b \in Bills /\ rest(b) \in [Bills -> Nat]
    BY <1>0, <1>8, <2>1 DEF SaveAllocation, At, Todo
  <2>3. alloc' \in [Payments -> [Bills -> Nat]]
    BY <1>t, <1>0, <2>1, <2>2 DEF TypeOK
  <2>4. n(b) \in Local
    <3>1. /\ AfterAllocation(w, rest(b)) \in Labels
          /\ \/ AfterAllocation(w, rest(b)) \in {"save_batch", "number"} /\ q.op = "process"
             \/ AfterAllocation(w, rest(b)) = "save_schedule" /\ q.op = "execute"
             \/ AfterAllocation(w, rest(b)) = "allocate"
      BY <2>2 DEF AfterAllocation, Labels
    <3>2. PICK label \in Labels : label = AfterAllocation(w, rest(b))
      BY <3>1
    <3>3. [q EXCEPT !.due = rest(b), !.made = q.made + 1, !.pc = label] \in Request
      <4>1. PICK m \in Nat : m = q.made + 1
        BY <1>0
      <4>2. PICK r \in [Bills -> Nat] : r = rest(b)
        BY <2>2
      <4> HIDE DEF rest
      <4>3. [q EXCEPT !.due = r, !.made = m, !.pc = label] \in Request
        BY <1>0, <4>1, <4>2 DEF Request
      <4> QED BY <4>1, <4>2, <4>3
    <3> HIDE DEF rest
    <3>4. n(b) \in Request /\ n(b).pc = label /\ n(b).op = q.op /\ n(b).d = q.d
             /\ n(b).b = q.b /\ n(b).p = q.p
      BY <1>0, <3>2, <3>3 DEF Request
    <3> HIDE DEF n
    <3>5. Placed(n(b))
      BY <1>0, <2>2, <3>1, <3>2, <3>4
    <3> QED BY <3>4, <3>5 DEF Local
  <2>5. /\ req' \in [Workers -> Local]
        /\ session' \in [Batches -> SUBSET Bills]
        /\ aborts' \in Nat
    <3>1. CASE Respond(w)
      BY <3>1, RespondType
    <3>2. CASE req' = [req EXCEPT ![w] = n(b)] /\ UNCHANGED <<session, aborts>>
      <4> HIDE DEF n
      <4> QED BY <1>t, <2>4, <3>2, GoOnType DEF TypeOK
    <3> QED BY <2>1, <3>1, <3>2
  <2> QED BY <1>t, <1>8, <2>3, <2>5, TypesTogether
          DEF SaveAllocation, bills, documents, TypeOK
<1>9. CASE CountBatch(w)
  <2> DEFINE s == [q.sess EXCEPT ![q.d] = Todo(w)]
  <2>1. q.d \in Batches /\ q.pc = "count" /\ q.op = "create_batch"
    BY <1>0, <1>9 DEF CountBatch, At
  <2>2. Todo(w) \in SUBSET Bills /\ s \in [Batches -> SUBSET Bills]
    BY <1>0, <2>1 DEF Todo
  <2>3. batch' \in [Batches -> Batch]
    <3>1. Cardinality(Todo(w)) \in Nat
      BY <2>2, BillCount
    <3> QED BY <1>t, <1>9, <2>1, <3>1 DEF CountBatch, TypeOK, Batch
  <2>4. [q EXCEPT !.sess = s, !.pc = "respond"] \in Local
    <3> HIDE DEF s
    <3> QED BY <1>0, <2>1, <2>2 DEF Local, Request, Labels
  <2>5. req' \in [Workers -> Local]
    BY <1>9, <2>4, GoOnType, ZenonT(40) DEF CountBatch
  <2> QED BY <1>t, <1>9, <2>3, <2>5, TypesTogether
          DEF CountBatch, bills, payments, TypeOK
<1>10. CASE FindEligible(w)
  <2>1. CASE Respond(w)
    <3>1. /\ req' \in [Workers -> Local]
          /\ session' \in [Batches -> SUBSET Bills]
          /\ aborts' \in Nat
      BY <2>1, RespondType
    <3> QED BY <1>t, <1>10, <3>1, TypesTogether
            DEF FindEligible, bills, payments, documents, TypeOK
  <2>2. CASE Goto(w, "select") /\ UNCHANGED <<session, aborts>>
    <3>1. Placed([q EXCEPT !.pc = "select"])
      BY <1>0, <1>10 DEF FindEligible, At, Request
    <3>2. req' \in [Workers -> Local]
      BY <2>2, <3>1, GotoType DEF Labels
    <3> QED BY <1>t, <1>10, <2>2, <3>2, TypesTogether
            DEF FindEligible, bills, payments, documents, TypeOK
  <2> QED BY <1>10, <2>1, <2>2 DEF FindEligible
<1>11. CASE SelectBills(w)
  <2> DEFINE due == [b \in Bills |-> IF b \in Eligible(w) THEN bill[b].total ELSE 0]
             label == IF due = NoBills THEN "save_batch" ELSE "number"
  <2>1. due \in [Bills -> Nat] /\ label \in {"save_batch", "number"}
    BY <1>t DEF TypeOK, Bill
  <2>2. req' = [req EXCEPT ![w] = [q EXCEPT !.due = due, !.pc = label]]
    BY <1>11 DEF SelectBills
  <2>3. [q EXCEPT !.due = due, !.pc = label] \in Local
    <3> HIDE DEF due, label
    <3> QED BY <1>0, <1>11, <2>1 DEF SelectBills, At, Local, Request, Labels
  <2>4. req' \in [Workers -> Local]
    <3> HIDE DEF due, label
    <3> QED BY <2>2, <2>3, GoOnType
  <2> QED BY <1>t, <1>11, <2>4, TypesTogether
          DEF SelectBills, bills, payments, documents, TypeOK
<1>12. CASE SaveBatch(w)
  <2> DEFINE s == [q.sess EXCEPT ![q.d] = {}]
  <2>1. q.d \in Batches /\ q.pc = "save_batch" /\ q.op = "process"
    BY <1>0, <1>12 DEF SaveBatch, At
  <2>2. s \in [Batches -> SUBSET Bills]
    BY <1>0, <2>1
  <2>3. batch' \in [Batches -> Batch]
    BY <1>t, <1>0, <1>12, <2>1 DEF SaveBatch, TypeOK, Batch
  <2>4. [q EXCEPT !.sess = s, !.pc = "respond"] \in Local
    <3> HIDE DEF s
    <3> QED BY <1>0, <2>1, <2>2 DEF Local, Request, Labels
  <2>5. req' \in [Workers -> Local]
    BY <1>12, <2>4, GoOnType, ZenonT(40) DEF SaveBatch
  <2> QED BY <1>t, <1>12, <2>3, <2>5, TypesTogether
          DEF SaveBatch, bills, payments, TypeOK
<1>13. CASE SendResponse(w)
  <2>1. /\ req' \in [Workers -> Local]
        /\ session' \in [Batches -> SUBSET Bills]
        /\ aborts' \in Nat
    BY <1>13, RespondType DEF SendResponse
  <2> QED BY <1>t, <1>13, <2>1, TypesTogether
          DEF SendResponse, bills, payments, documents, TypeOK
<1>14. CASE SaveSchedule(w)
  <2>1. q.d \in Schedules /\ q.op \in {"execute", "cancel"}
    BY <1>0, <1>14 DEF SaveSchedule, At
  <2>2. /\ [q.row EXCEPT !.st = "executed", !.p = q.p] \in Schedule
        /\ [q.row EXCEPT !.st = "cancelled"] \in Schedule
    BY <1>0 DEF Schedule
  <2>3. sched' \in [Schedules -> Schedule]
    BY <1>t, <1>14, <2>1, <2>2 DEF SaveSchedule, TypeOK
  <2>4. /\ req' \in [Workers -> Local]
        /\ session' \in [Batches -> SUBSET Bills]
        /\ aborts' \in Nat
    BY <1>14, RespondType DEF SaveSchedule
  <2> QED BY <1>t, <1>14, <2>3, <2>4, TypesTogether
          DEF SaveSchedule, bills, payments, TypeOK
<1>15. CASE InsertBill(w)
  <2>1. PICK b \in Bills :
           /\ bill' = [bill EXCEPT ![b] = [st |-> "draft", total |-> q.amt, from |-> q.d]]
           /\ req' = [req EXCEPT ![w] = [q EXCEPT !.b = b, !.pc = "link"]]
    BY <1>15 DEF InsertBill
  <2>2. q.d \in Uploads /\ q.op = "create_from_upload"
    BY <1>0, <1>15 DEF InsertBill, At
  <2>3. bill' \in [Bills -> Bill]
    <3>1. [st |-> "draft", total |-> q.amt, from |-> q.d] \in Bill
      BY <1>0, <2>2 DEF Bill
    <3> QED BY <1>t, <2>1, <3>1 DEF TypeOK
  <2>4. [q EXCEPT !.b = b, !.pc = "link"] \in Local
    BY <1>0, <2>2 DEF Local, Request, Labels
  <2>5. req' \in [Workers -> Local]
    BY <2>1, <2>4, GoOnType
  <2> QED BY <1>t, <1>15, <2>3, <2>5, TypesTogether
          DEF InsertBill, payments, documents, TypeOK
<1>16. CASE LinkUpload(w)
  <2>1. q.d \in Uploads /\ q.b \in Bills
    BY <1>0, <1>16 DEF LinkUpload, At
  <2>2. upload' \in [Uploads -> Bills \cup {0}]
    BY <1>t, <1>16, <2>1 DEF LinkUpload, TypeOK
  <2>3. /\ req' \in [Workers -> Local]
        /\ session' \in [Batches -> SUBSET Bills]
        /\ aborts' \in Nat
    BY <1>16, RespondType DEF LinkUpload
  <2> QED BY <1>t, <1>16, <2>2, <2>3, TypesTogether
          DEF LinkUpload, bills, payments, TypeOK
<1> QED
  BY <1>1, <1>2, <1>3, <1>4, <1>5, <1>6, <1>7, <1>8, <1>9, <1>10, <1>11, <1>12, <1>13,
     <1>14, <1>15, <1>16, <1>17 DEF Continue

LEMMA NextTypes == TypeInv /\ [Next]_vars => TypeInv'
<1> SUFFICES ASSUME TypeInv, [Next]_vars PROVE TypeInv'
  OBVIOUS
<1>1. ASSUME NEW w \in Workers, Crash(w), offered' = offered PROVE TypeInv'
  <2>1. /\ req' \in [Workers -> Local]
        /\ session' \in [Batches -> SUBSET Bills]
        /\ aborts' \in Nat
    BY <1>1, AbortType DEF Crash
  <2> QED BY <1>1, <2>1, TypesTogether
          DEF Crash, bills, payments, documents, TypeInv, TypeOK
<1>2. CASE UNCHANGED vars
  BY <1>2 DEF vars, TypeInv, TypeOK
<1> QED BY <1>1, <1>2, StartTypes, ContinueTypes DEF Next

LEMMA TypesHold == Spec => []TypeInv
<1> QED BY InitTypes, NextTypes, PTL DEF Spec

\* Every row and every local value has its type, whatever the bounds are.
THEOREM TypeCorrect == Spec => []TypeOK
<1>1. TypeInv => TypeOK
  BY DEF TypeInv
<1> QED BY <1>1, TypesHold, PTL

-----------------------------------------------------------------------------
(* What a step of one worker does to the tables and to its request: to bills and  *)
(* uploads, or to payments, batches and schedules, never to both.                 *)

Others(w) == \A v \in Workers \ {w} : req'[v] = req[v]

\* A request arrives that is not yet at work.
Arrives(w) ==
    /\ req[w].pc = "idle" /\ (w \in Clerks => req'[w].sess = session)
    /\ UNCHANGED <<session, aborts>>

\* The request goes on, on the same documents.
Keeps(w) ==
    /\ req'[w].op = req[w].op /\ req'[w].d = req[w].d /\ req'[w].row = req[w].row
    /\ req'[w].sess = req[w].sess
    /\ UNCHANGED <<session, aborts>>

\* The request is answered.
Answers(w) ==
    /\ req'[w] = Idle
    /\ session' = IF w \in Clerks THEN req[w].sess ELSE session
    /\ UNCHANGED aborts

FormBill == [NoBill EXCEPT !.st = "draft"]

BeginsBill(w) ==
    LET n == req'[w] IN
    /\ Arrives(w) /\ n.pc = "lines" /\ n.op = "create_bill"
    /\ n.b \in Bills /\ bill[n.b].st = "none" /\ n.copy = FormBill
    /\ bill' = [bill EXCEPT ![n.b] = FormBill]
    /\ UNCHANGED <<lines, approval, upload>>

TakesBill(w) ==
    LET n == req'[w] IN
    /\ Arrives(w)
    /\ n.b \in Bills /\ bill[n.b].st # "none"
    /\ n.copy.from = bill[n.b].from /\ n.copy.total = bill[n.b].total
    /\ \/ n.op = "edit_bill" /\ n.pc = "header" /\ bill[n.b].st = "draft" /\ n.copy.st = "draft"
       \/ /\ n.op \in WorkflowOps /\ MayChange(n.op, bill[n.b].st)
          /\ n.pc = IF n.op \in Decisions THEN "find_row" ELSE "update"
          /\ n.copy.st = NewStatus(n.op)
    /\ Apart("bill") => \A v \in Workers : req[v].b # n.b
    /\ UNCHANGED <<bills, upload>>

TakesUpload(w) ==
    LET n == req'[w] IN
    /\ Arrives(w) /\ n.pc = "insert_bill" /\ n.op = "create_from_upload"
    /\ n.d \in Uploads /\ upload[n.d] = 0
    /\ Apart("upload") => \A v \in Workers : req[v].d # n.d
    /\ UNCHANGED <<bills, upload>>

SavesHeader(w) ==
    LET q == req[w]
        n == req'[w]
    IN  /\ q.pc = "header" /\ n.pc = "lines" /\ Keeps(w) /\ n.b = q.b /\ n.copy = q.copy
        /\ bill' = [bill EXCEPT ![q.b] = q.copy]
        /\ UNCHANGED <<lines, approval, upload>>

SavesLines(w) ==
    LET q == req[w]
        n == req'[w]
    IN  /\ q.pc = "lines" /\ n.pc = "totals" /\ Keeps(w) /\ n.b = q.b /\ n.copy = q.copy
        /\ lines' = [lines EXCEPT ![q.b] = q.amt]
        /\ UNCHANGED <<bill, approval, upload>>

ReadsTotals(w) ==
    LET q == req[w]
        n == req'[w]
    IN  /\ q.pc = "totals" /\ n.pc = "update" /\ Keeps(w) /\ n.b = q.b
        /\ n.copy.st = q.copy.st /\ n.copy.from = q.copy.from
        /\ n.copy.total = lines[q.b]
        /\ UNCHANGED <<bills, upload>>

SavesBill(w) ==
    LET q == req[w]
        n == req'[w]
    IN  /\ q.pc = "update"
        /\ \/ q.op # "submit" /\ Answers(w)
           \/ q.op = "submit" /\ n.pc = "approval_row" /\ Keeps(w) /\ n.b = q.b /\ n.copy = q.copy
        /\ bill' = [bill EXCEPT ![q.b] = q.copy]
        /\ UNCHANGED <<lines, approval, upload>>

NonePending(b) == \A r \in Rows : approval[b][r] # "pending"

FindsRow(w) ==
    LET q == req[w]
        n == req'[w]
    IN  /\ q.pc = "find_row" /\ n.pc = "approval_row" /\ Keeps(w) /\ n.b = q.b /\ n.copy = q.copy
        /\ \/ n.rec = 0 /\ NonePending(q.b)
           \/ n.rec \in Rows /\ approval[q.b][n.rec] = "pending"
        /\ UNCHANGED <<bills, upload>>

SavesApproval(w) ==
    LET q == req[w]
        n == req'[w]
    IN  /\ q.pc = "approval_row"
        /\ \E r \in Rows :
              /\ IF q.rec = 0 THEN IsNextRow(q.b, r) ELSE r = q.rec
              /\ approval' = [approval EXCEPT ![q.b][r] = Recorded(q.op)]
        /\ \/ q.op = "submit" /\ Answers(w)
           \/ q.op \in Decisions /\ n.pc = "update" /\ Keeps(w) /\ n.b = q.b /\ n.copy = q.copy
        /\ UNCHANGED <<bill, lines, upload>>

InsertsBill(w) ==
    LET q == req[w]
        n == req'[w]
    IN  /\ q.pc = "insert_bill" /\ n.pc = "link" /\ Keeps(w)
        /\ n.b \in Bills /\ bill[n.b].st = "none"
        /\ bill' = [bill EXCEPT ![n.b] = [st |-> "draft", total |-> q.amt, from |-> q.d]]
        /\ UNCHANGED <<lines, approval, upload>>

LinksUpload(w) ==
    /\ req[w].pc = "link" /\ Answers(w)
    /\ upload' = [upload EXCEPT ![req[w].d] = req[w].b]
    /\ UNCHANGED bills

OnBills(w) ==
    /\ \/ BeginsBill(w) \/ TakesBill(w) \/ TakesUpload(w)
       \/ SavesHeader(w) \/ SavesLines(w) \/ ReadsTotals(w) \/ SavesBill(w)
       \/ FindsRow(w) \/ SavesApproval(w) \/ InsertsBill(w) \/ LinksUpload(w)
    /\ UNCHANGED <<payments, batch, sched>>

TakesPayment(w) ==
    /\ Arrives(w) /\ req'[w].op = "create_payment" /\ req'[w].pc = "number"
    /\ UNCHANGED <<payments, batch, sched>>

MakesBatch(w) ==
    LET n == req'[w] IN
    /\ Arrives(w) /\ n.op = "create_batch" /\ n.pc = "count"
    /\ w \in Clerks /\ n.d \in Batches /\ batch[n.d].st = "none"
    /\ batch' = [batch EXCEPT ![n.d].st = "draft"]
    /\ UNCHANGED <<payments, sched>>

TakesBatch(w) ==
    LET n == req'[w] IN
    /\ Arrives(w) /\ n.op = "process" /\ n.pc = "eligible" /\ n.made = 0
    /\ w \in Clerks /\ n.d \in Batches /\ batch[n.d].st = "draft"
    /\ Apart("batch") => \A v \in Workers : req[v].d # n.d
    /\ UNCHANGED <<payments, batch, sched>>

MakesSchedule(w) ==
    /\ req[w].pc = "idle" /\ req'[w] = req[w]
    /\ \E s \in Schedules, b \in Bills, a \in Totals :
          /\ sched[s].st = "none"
          /\ sched' = [sched EXCEPT ![s] = [st |-> "scheduled", b |-> b, amt |-> a, p |-> 0]]
    /\ UNCHANGED <<payments, batch, session, aborts>>

TakesSchedule(w) ==
    LET n == req'[w] IN
    /\ Arrives(w) /\ n.p = 0
    /\ n.d \in Schedules /\ sched[n.d].st = "scheduled" /\ n.row = sched[n.d]
    /\ Apart("schedule") => \A v \in Workers : req[v].d # n.d
    /\ \/ /\ n.op = "execute" /\ n.pc = "number"
          /\ n.due = [NoBills EXCEPT ![n.row.b] = n.row.amt]
       \/ n.op = "cancel" /\ n.pc = "save_schedule"
    /\ UNCHANGED <<payments, batch, sched>>

Numbers(w) ==
    LET q == req[w]
        n == req'[w]
    IN  /\ q.pc = "number" /\ n.pc = "insert" /\ Keeps(w)
        /\ n.due = q.due /\ n.made = q.made
        /\ UNCHANGED <<payments, batch, sched>>

SourceOf(q) == IF q.op = "create_payment" THEN "form" ELSE q.d

Inserts(w) ==
    LET q == req[w]
        n == req'[w]
    IN  /\ q.pc = "insert" /\ n.pc = "allocate" /\ Keeps(w)
        /\ n.p = q.p /\ n.due = q.due /\ n.made = q.made
        /\ pay[q.p] = "none" /\ pay' = [pay EXCEPT ![q.p] = SourceOf(q)]
        /\ UNCHANGED <<alloc, batch, sched>>

Allocates(w) ==
    LET q == req[w]
        n == req'[w]
    IN  /\ q.pc = "allocate"
        /\ \E b \in Bills :
              /\ q.due[b] > 0
              /\ alloc' = [alloc EXCEPT ![q.p][b] = q.due[b]]
              /\ \/ q.op = "create_payment" /\ Answers(w)
                 \/ /\ Keeps(w) /\ n.p = q.p /\ n.made = q.made + 1
                    /\ n.due = [q.due EXCEPT ![b] = 0]
                    /\ n.pc = AfterAllocation(w, n.due)
        /\ UNCHANGED <<pay, batch, sched>>

Counts(w) ==
    LET q == req[w]
        n == req'[w]
    IN  /\ q.pc = "count" /\ n.pc = "respond" /\ n.op = q.op /\ n.d = q.d
        /\ n.sess = [q.sess EXCEPT ![q.d] = Todo(w)]
        /\ batch' = [batch EXCEPT ![q.d] = [st |-> "draft", count |-> Cardinality(Todo(w))]]
        /\ UNCHANGED <<payments, sched, session, aborts>>

Looks(w) ==
    LET q == req[w]
        n == req'[w]
    IN  /\ q.pc = "eligible"
        /\ Answers(w) \/ (Keeps(w) /\ n.pc = "select" /\ n.made = q.made /\ q.sess[q.d] # {})
        /\ UNCHANGED <<payments, batch, sched>>

Selects(w) ==
    LET q == req[w]
        n == req'[w]
    IN  /\ q.pc = "select" /\ Keeps(w) /\ n.made = q.made
        /\ n.pc \in {"save_batch", "number"}
        /\ UNCHANGED <<payments, batch, sched>>

SavesBatch(w) ==
    LET q == req[w]
        n == req'[w]
    IN  /\ q.pc = "save_batch" /\ n.pc = "respond" /\ n.op = q.op /\ n.d = q.d
        /\ n.sess = [q.sess EXCEPT ![q.d] = {}]
        /\ batch' = [batch EXCEPT ![q.d] = [st |-> "completed", count |-> q.made]]
        /\ UNCHANGED <<payments, sched, session, aborts>>

Responds(w) ==
    /\ req[w].pc = "respond" /\ Answers(w)
    /\ UNCHANGED <<payments, batch, sched>>

SavesSchedule(w) ==
    LET q == req[w] IN
    /\ q.pc = "save_schedule" /\ Answers(w)
    /\ sched' = [sched EXCEPT ![q.d] = IF q.op = "execute"
                                       THEN [q.row EXCEPT !.st = "executed", !.p = q.p]
                                       ELSE [q.row EXCEPT !.st = "cancelled"]]
    /\ UNCHANGED <<payments, batch>>

OnPayments(w) ==
    /\ \/ TakesPayment(w) \/ MakesBatch(w) \/ TakesBatch(w) \/ MakesSchedule(w)
       \/ TakesSchedule(w) \/ Numbers(w) \/ Inserts(w) \/ Allocates(w) \/ Counts(w)
       \/ Looks(w) \/ Selects(w) \/ SavesBatch(w) \/ Responds(w) \/ SavesSchedule(w)
    /\ UNCHANGED <<bills, upload>>

\* The request ends half-way.
Dies(w) ==
    /\ req'[w] = Idle /\ aborts' = aborts + 1
    /\ UNCHANGED <<bills, payments, documents, session>>

Effect(w) == OnBills(w) \/ OnPayments(w) \/ Dies(w)

\* The fields of a request that arrives.
LEMMA Arrival ==
    ASSUME TypeInv, NEW w \in Workers, NEW r \in Request, Arrive(w, r), ~Busy(w),
           UNCHANGED <<session, aborts>>
    PROVE  /\ Others(w) /\ Arrives(w)
           /\ req'[w].op = r.op /\ req'[w].pc = r.pc /\ req'[w].b = r.b
           /\ req'[w].copy = r.copy /\ req'[w].d = r.d /\ req'[w].row = r.row
           /\ req'[w].p = r.p /\ req'[w].due = r.due /\ req'[w].made = r.made
  BY DEF Arrive, Arrives, Busy, Others, TypeInv, TypeOK, Request

LEMMA StartEffect ==
    ASSUME TypeInv, NEW w \in Workers, Start(w)
    PROVE  Others(w) /\ Effect(w)
<1>t. TypeOK /\ Idle \in Request
  BY EmptyTypes DEF TypeInv, Local
<1>1. CASE CreateBill(w)
  <2>1. PICK b \in Bills, a \in Totals :
           /\ IsNext(b)
           /\ bill' = [bill EXCEPT ![b] = FormBill]
           /\ Arrive(w, [Idle EXCEPT !.op = "create_bill", !.pc = "lines", !.b = b,
                                     !.copy = FormBill, !.amt = a])
    BY <1>1 DEF CreateBill, FormBill
  <2> DEFINE r == [Idle EXCEPT !.op = "create_bill", !.pc = "lines", !.b = b,
                               !.copy = FormBill, !.amt = a]
  <2>2. FormBill \in Bill /\ a \in Nat
    BY EmptyTypes, PayablesAssumption DEF Bill, FormBill
  <2>3. r \in Request /\ r.op = "create_bill" /\ r.pc = "lines" /\ r.b = b /\ r.copy = FormBill
    BY <1>t, <2>2 DEF Request, Ops, Labels, Idle
  <2> HIDE DEF r
  <2>4. /\ Others(w) /\ Arrives(w) /\ req'[w].op = "create_bill"
        /\ req'[w].pc = "lines" /\ req'[w].b = b /\ req'[w].copy = FormBill
    BY <1>1, <2>1, <2>3, Arrival DEF CreateBill, MayStart, r
  <2>5. bill[b].st = "none"
    BY <2>1, PayablesAssumption DEF IsNext, Bills
  <2> QED BY <1>1, <2>1, <2>4, <2>5
          DEF CreateBill, payments, documents, BeginsBill, OnBills, Effect
<1>2. CASE CreatePayment(w)
  <2>1. PICK due \in [Bills -> Totals \cup {0}] :
           /\ due # NoBills
           /\ \A b \in Bills : due[b] > 0 => bill[b].st # "none"
           /\ Arrive(w, [Idle EXCEPT !.op = "create_payment", !.pc = "number", !.due = due])
    BY <1>2, Zenon DEF CreatePayment
  <2> DEFINE r == [Idle EXCEPT !.op = "create_payment", !.pc = "number", !.due = due]
  <2>2. due \in [Bills -> Nat]
    <3>1. Totals \cup {0} \subseteq Nat
      BY PayablesAssumption
    <3>2. \A b \in Bills : due[b] \in Nat
      BY <3>1
    <3> QED BY <3>2
  <2>3. r \in Request /\ r.op = "create_payment" /\ r.pc = "number"
    BY <1>t, <2>2 DEF Request, Ops, Labels, Idle
  <2> HIDE DEF r
  <2>4. /\ Others(w) /\ Arrives(w)
        /\ req'[w].op = "create_payment" /\ req'[w].pc = "number"
    BY <1>2, <2>1, <2>3, Arrival DEF CreatePayment, MayStart, r
  <2> QED BY <1>2, <2>4 DEF CreatePayment, documents, TakesPayment, OnPayments, Effect
<1>3. ASSUME NEW b \in Bills, EditBill(w, b) PROVE Others(w) /\ Effect(w)
  <2>1. PICK a \in Totals :
           Arrive(w, [Idle EXCEPT !.op = "edit_bill", !.pc = "header", !.b = b,
                                  !.copy = bill[b], !.amt = a])
    BY <1>3 DEF EditBill
  <2> DEFINE r == [Idle EXCEPT !.op = "edit_bill", !.pc = "header", !.b = b,
                               !.copy = bill[b], !.amt = a]
  <2>2. r \in Request /\ r.op = "edit_bill" /\ r.pc = "header" /\ r.b = b /\ r.copy = bill[b]
    BY <1>t, PayablesAssumption DEF Request, Ops, Labels, Idle, TypeOK
  <2> HIDE DEF r
  <2>3. /\ Others(w) /\ Arrives(w) /\ req'[w].op = "edit_bill"
        /\ req'[w].pc = "header" /\ req'[w].b = b /\ req'[w].copy = bill[b]
    BY <1>3, <2>1, <2>2, Arrival DEF EditBill, MayStart, r
  <2>4. b # 0 /\ (Apart("bill") => \A v \in Workers : req[v].b # b)
    BY <1>3, PayablesAssumption DEF EditBill, MayStart, Bills
  <2>5. TakesBill(w)
    BY <1>3, <2>3, <2>4 DEF EditBill, documents, TakesBill
  <2> QED BY <1>3, <2>3, <2>5 DEF EditBill, documents, OnBills, Effect
<1>4. ASSUME NEW b \in Bills, NEW op \in WorkflowOps, ChangeBill(w, b, op)
      PROVE  Others(w) /\ Effect(w)
  <2> DEFINE row == [bill[b] EXCEPT !.st = NewStatus(op)]
             label == IF op \in Decisions THEN "find_row" ELSE "update"
             r == [Idle EXCEPT !.op = op, !.b = b, !.pc = label, !.copy = row]
  <2>1. Arrive(w, r)
    BY <1>4 DEF ChangeBill
  <2>2. /\ row \in Bill /\ row.st = NewStatus(op) /\ row.total = bill[b].total
        /\ row.from = bill[b].from
    BY <1>t, NewStatusType DEF TypeOK, Bill
  <2>3. label \in {"find_row", "update"} /\ op \in Ops
    BY DEF WorkflowOps, Ops
  <2> HIDE DEF row, label
  <2>4. r \in Request /\ r.op = op /\ r.pc = label /\ r.b = b /\ r.copy = row
    BY <1>t, <2>2, <2>3 DEF Request, Labels, Idle
  <2> HIDE DEF r
  <2>5. /\ Others(w) /\ Arrives(w) /\ req'[w].op = op /\ req'[w].pc = label
        /\ req'[w].b = b /\ req'[w].copy = row
    BY <1>4, <2>1, <2>4, Arrival DEF ChangeBill, MayStart
  <2>6. b # 0 /\ (Apart("bill") => \A v \in Workers : req[v].b # b)
    BY <1>4, PayablesAssumption DEF ChangeBill, MayStart, Bills
  <2>7. bill[b].st # "none" /\ MayChange(op, bill[b].st)
           /\ UNCHANGED <<bills, payments, documents>>
    BY <1>4 DEF ChangeBill
  <2>8. TakesBill(w)
    BY <2>2, <2>5, <2>6, <2>7 DEF documents, TakesBill, label
  <2> QED BY <2>5, <2>7, <2>8 DEF documents, OnBills, Effect
<1>5. ASSUME NEW x \in Batches, CreateBatch(w, x) PROVE Others(w) /\ Effect(w)
  <2>1. PICK due \in [Bills -> 0..1] :
           Arrive(w, [Idle EXCEPT !.op = "create_batch", !.pc = "count", !.d = x, !.due = due])
    BY <1>5 DEF CreateBatch
  <2> DEFINE r == [Idle EXCEPT !.op = "create_batch", !.pc = "count", !.d = x, !.due = due]
  <2>2. due \in [Bills -> Nat]
    OBVIOUS
  <2>3. r \in Request /\ r.op = "create_batch" /\ r.pc = "count" /\ r.d = x
    BY <1>t, <2>2 DEF Request, Ops, Labels, Docs, Idle
  <2> HIDE DEF r
  <2>4. /\ Others(w) /\ Arrives(w)
        /\ req'[w].op = "create_batch" /\ req'[w].pc = "count" /\ req'[w].d = x
    BY <1>5, <2>1, <2>3, Arrival DEF CreateBatch, MayStart, r
  <2> QED BY <1>5, <2>4 DEF CreateBatch, MakesBatch, OnPayments, Effect
<1>6. ASSUME NEW x \in Batches, ProcessBatch(w, x) PROVE Others(w) /\ Effect(w)
  <2> DEFINE r == [Idle EXCEPT !.op = "process", !.pc = "eligible", !.d = x]
  <2>1. r \in Request /\ r.op = "process" /\ r.pc = "eligible" /\ r.d = x /\ r.made = 0
    BY <1>t DEF Request, Ops, Labels, Docs, Idle
  <2>2. Arrive(w, r)
    BY <1>6 DEF ProcessBatch
  <2> HIDE DEF r
  <2>3. /\ Others(w) /\ Arrives(w) /\ req'[w].op = "process" /\ req'[w].pc = "eligible"
        /\ req'[w].d = x /\ req'[w].made = 0
    BY <1>6, <2>1, <2>2, Arrival DEF ProcessBatch, MayStart
  <2>4. Apart("batch") => \A v \in Workers : req[v].d # x
    BY <1>6 DEF ProcessBatch, MayStart
  <2> QED BY <1>6, <2>3, <2>4 DEF ProcessBatch, documents, TakesBatch, OnPayments, Effect
<1>7. ASSUME NEW s \in Schedules, SchedulePayment(w, s) PROVE Others(w) /\ Effect(w)
  <2>1. Others(w) /\ MakesSchedule(w)
    BY <1>7 DEF SchedulePayment, MayStart, Busy, Others, MakesSchedule
  <2> QED BY <1>7, <2>1 DEF SchedulePayment, OnPayments, Effect
<1>8. ASSUME NEW s \in Schedules, ExecuteSchedule(w, s) PROVE Others(w) /\ Effect(w)
  <2> DEFINE due == [NoBills EXCEPT ![sched[s].b] = sched[s].amt]
             r == [Idle EXCEPT !.op = "execute", !.pc = "number", !.d = s, !.row = sched[s],
                               !.due = due]
  <2>1. sched[s] \in Schedule /\ due \in [Bills -> Nat]
    BY <1>t, EmptyTypes DEF TypeOK, Schedule
  <2>2. Arrive(w, r)
    BY <1>8 DEF ExecuteSchedule
  <2>3. r \in Request /\ r.op = "execute" /\ r.pc = "number" /\ r.d = s
           /\ r.row = sched[s] /\ r.due = due /\ r.p = 0
    <3> HIDE DEF due
    <3> QED BY <1>t, <2>1 DEF Request, Ops, Labels, Docs, Idle
  <2> HIDE DEF r
  <2>4. /\ Others(w) /\ Arrives(w) /\ req'[w].op = "execute" /\ req'[w].pc = "number"
        /\ req'[w].d = s /\ req'[w].row = sched[s] /\ req'[w].due = due /\ req'[w].p = 0
    BY <1>8, <2>2, <2>3, Arrival DEF ExecuteSchedule, MayStart
  <2>5. Apart("schedule") => \A v \in Workers : req[v].d # s
    BY <1>8 DEF ExecuteSchedule, MayStart
  <2> QED BY <1>8, <2>4, <2>5
          DEF ExecuteSchedule, documents, TakesSchedule, OnPayments, Effect
<1>9. ASSUME NEW s \in Schedules, CancelSchedule(w, s) PROVE Others(w) /\ Effect(w)
  <2> DEFINE r == [Idle EXCEPT !.op = "cancel", !.pc = "save_schedule", !.d = s,
                               !.row = sched[s]]
  <2>1. Arrive(w, r)
    BY <1>9 DEF CancelSchedule
  <2>2. r \in Request /\ r.op = "cancel" /\ r.pc = "save_schedule" /\ r.d = s
           /\ r.row = sched[s] /\ r.p = 0
    BY <1>t DEF Request, Ops, Labels, Docs, Idle, TypeOK
  <2> HIDE DEF r
  <2>3. /\ Others(w) /\ Arrives(w) /\ req'[w].op = "cancel" /\ req'[w].pc = "save_schedule"
        /\ req'[w].d = s /\ req'[w].row = sched[s] /\ req'[w].p = 0
    BY <1>9, <2>1, <2>2, Arrival DEF CancelSchedule, MayStart
  <2>4. Apart("schedule") => \A v \in Workers : req[v].d # s
    BY <1>9 DEF CancelSchedule, MayStart
  <2> QED BY <1>9, <2>3, <2>4
          DEF CancelSchedule, documents, TakesSchedule, OnPayments, Effect
<1>10. ASSUME NEW u \in Uploads, CreateFromUpload(w, u) PROVE Others(w) /\ Effect(w)
  <2>1. PICK a \in Totals :
           Arrive(w, [Idle EXCEPT !.op = "create_from_upload", !.pc = "insert_bill",
                                  !.d = u, !.amt = a])
    BY <1>10 DEF CreateFromUpload
  <2> DEFINE r == [Idle EXCEPT !.op = "create_from_upload", !.pc = "insert_bill", !.d = u,
                               !.amt = a]
  <2>2. r \in Request /\ r.pc = "insert_bill" /\ r.op = "create_from_upload" /\ r.d = u
    BY <1>t, PayablesAssumption DEF Request, Ops, Labels, Docs, Idle
  <2> HIDE DEF r
  <2>3. /\ Others(w) /\ Arrives(w) /\ req'[w].pc = "insert_bill" /\ req'[w].d = u
        /\ req'[w].op = "create_from_upload"
    BY <1>10, <2>1, <2>2, Arrival DEF CreateFromUpload, MayStart, r
  <2>4. Apart("upload") => \A v \in Workers : req[v].d # u
    BY <1>10 DEF CreateFromUpload, MayStart
  <2> QED BY <1>10, <2>3, <2>4
          DEF CreateFromUpload, documents, TakesUpload, OnBills, Effect
<1> QED
  BY <1>1, <1>2, <1>3, <1>4, <1>5, <1>6, <1>7, <1>8, <1>9, <1>10 DEF Start

\* A worker goes on with some of its local values changed.
LEMMA ContinueEffect ==
    ASSUME TypeInv, NEW w \in Workers, Continue(w)
    PROVE  Others(w) /\ Effect(w)
<1> DEFINE q == req[w]
<1>t. TypeOK /\ req \in [Workers -> Request]
  BY DEF TypeInv, TypeOK
<1>q. q \in Request /\ Placed(q)
  BY LocalTypes
<1>a. ASSUME Respond(w) PROVE Others(w) /\ Answers(w)
  BY <1>t, <1>a DEF Respond, Others, Answers
<1>g. ASSUME NEW label, Goto(w, label)
      PROVE  /\ Others(w)
             /\ UNCHANGED <<session, aborts>> => Keeps(w)
             /\ req'[w].pc = label /\ req'[w].b = q.b /\ req'[w].copy = q.copy
             /\ req'[w].p = q.p /\ req'[w].due = q.due /\ req'[w].made = q.made
  BY <1>t, <1>g DEF Goto, Others, Keeps, Request
<1>1. CASE SaveHeader(w)
  BY <1>1, <1>g DEF SaveHeader, At, payments, documents, SavesHeader, OnBills, Effect
<1>2. CASE SaveLines(w)
  BY <1>2, <1>g DEF SaveLines, At, payments, documents, SavesLines, OnBills, Effect
<1>3. CASE UpdateTotals(w)
  <2>1. PICK c : c = [q.copy EXCEPT !.total = lines[q.b]]
    OBVIOUS
  <2>2. req' = [req EXCEPT ![w] = [q EXCEPT !.pc = "update", !.copy = c]]
    BY <1>3, <2>1 DEF UpdateTotals
  <2>3. c.total = lines[q.b] /\ c.st = q.copy.st /\ c.from = q.copy.from
    BY <2>1, LocalTypes DEF Bill
  <2>4. /\ Others(w) /\ req'[w].pc = "update" /\ req'[w].copy = c /\ req'[w].b = q.b
        /\ req'[w].op = q.op /\ req'[w].d = q.d /\ req'[w].row = q.row
        /\ req'[w].sess = q.sess
    BY <1>t, <2>2 DEF Others, Request
  <2> QED BY <1>3, <2>3, <2>4
          DEF UpdateTotals, At, documents, Keeps, ReadsTotals, OnBills, Effect
<1>4. CASE UpdateBill(w)
  <2>1. /\ q.pc = "update" /\ bill' = [bill EXCEPT ![q.b] = q.copy]
        /\ UNCHANGED <<lines, approval, payments, documents>>
    BY <1>4 DEF UpdateBill, At
  <2>2. CASE q.op = "submit"
    <3>1. Goto(w, "approval_row") /\ UNCHANGED <<session, aborts>>
      BY <1>4, <2>2 DEF UpdateBill
    <3> QED BY <1>g, <2>1, <2>2, <3>1 DEF documents, SavesBill, OnBills, Effect
  <2>3. CASE q.op # "submit"
    <3>1. Respond(w)
      BY <1>4, <2>3 DEF UpdateBill
    <3> QED BY <1>a, <2>1, <2>3, <3>1 DEF documents, SavesBill, OnBills, Effect
  <2> QED BY <2>2, <2>3
<1>5. CASE FindRow(w)
  <2>1. PICK r \in Rows \cup {0} :
           /\ IF {o \in Rows : approval[q.b][o] = "pending"} = {} THEN r = 0
              ELSE r \in {o \in Rows : approval[q.b][o] = "pending"}
           /\ req' = [req EXCEPT ![w].rec = r, ![w].pc = "approval_row"]
    BY <1>5, Zenon DEF FindRow
  <2>2. req' = [req EXCEPT ![w] = [q EXCEPT !.rec = r, !.pc = "approval_row"]]
    BY <2>1
  <2>3. /\ Others(w) /\ req'[w].pc = "approval_row" /\ req'[w].rec = r
        /\ req'[w].b = q.b /\ req'[w].copy = q.copy
        /\ req'[w].op = q.op /\ req'[w].d = q.d /\ req'[w].row = q.row
        /\ req'[w].sess = q.sess
    BY <1>t, <2>2 DEF Others, Request
  <2>4. (r = 0 /\ NonePending(q.b)) \/ (r \in Rows /\ approval[q.b][r] = "pending")
    BY <2>1 DEF NonePending
  <2> QED BY <1>5, <2>3, <2>4 DEF FindRow, At, documents, Keeps, FindsRow, OnBills, Effect
<1>17. CASE SaveApproval(w)
  <2>1. /\ q.pc = "approval_row"
        /\ \E r \in Rows :
              /\ IF q.rec = 0 THEN IsNextRow(q.b, r) ELSE r = q.rec
              /\ approval' = [approval EXCEPT ![q.b][r] = Recorded(q.op)]
        /\ UNCHANGED <<bill, lines, payments, documents>>
    BY <1>17, Zenon DEF SaveApproval, At
  <2>2. CASE q.op = "submit"
    <3>1. Respond(w)
      BY <1>17, <2>2 DEF SaveApproval
    <3> QED BY <1>a, <2>1, <2>2, <3>1 DEF documents, SavesApproval, OnBills, Effect
  <2>3. CASE q.op # "submit"
    <3>1. Goto(w, "update") /\ UNCHANGED <<session, aborts>>
      BY <1>17, <2>3 DEF SaveApproval
    <3>2. q.op \in Decisions
      BY <1>q, <2>1, <2>3 DEF Placed, OpsAt, FormLabels
    <3> QED BY <1>g, <2>1, <3>1, <3>2 DEF documents, SavesApproval, OnBills, Effect
  <2> QED BY <2>2, <2>3
<1>6. CASE GenerateNumber(w)
  <2>1. PICK p \in Payments : req' = [req EXCEPT ![w] = [q EXCEPT !.p = p, !.pc = "insert"]]
    BY <1>6 DEF GenerateNumber
  <2>2. /\ Others(w) /\ req'[w].pc = "insert" /\ req'[w].due = q.due
        /\ req'[w].op = q.op /\ req'[w].d = q.d /\ req'[w].row = q.row
        /\ req'[w].sess = q.sess /\ req'[w].made = q.made
    BY <1>t, <2>1 DEF Others, Request
  <2> QED BY <1>6, <2>2 DEF GenerateNumber, At, documents, Keeps, Numbers, OnPayments, Effect
<1>7. CASE InsertPayment(w)
  <2>1. CASE pay[q.p] = "none"
    <3>1. Goto(w, "allocate") /\ UNCHANGED <<session, aborts>>
             /\ pay' = [pay EXCEPT ![q.p] = SourceOf(q)]
      BY <1>7, <2>1 DEF InsertPayment, Source, SourceOf
    <3> QED BY <1>7, <2>1, <3>1, <1>g
            DEF InsertPayment, At, documents, Inserts, OnPayments, Effect
  <2>2. CASE pay[q.p] # "none"
    <3>1. Abort(w) /\ UNCHANGED <<bills, alloc, documents, pay>>
      BY <1>7, <2>2 DEF InsertPayment
    <3>2. Others(w) /\ Dies(w)
      BY <1>t, <3>1 DEF Abort, Others, Dies, payments
    <3> QED BY <3>2 DEF Effect
  <2> QED BY <2>1, <2>2
<1>8. CASE SaveAllocation(w)
  <2> DEFINE rest(b) == [q.due EXCEPT ![b] = 0]
  <2>0. PICK b \in Todo(w) :
           /\ alloc' = [alloc EXCEPT ![q.p][b] = q.due[b]]
           /\ IF q.op = "create_payment" /\ rest(b) = NoBills
              THEN Respond(w)
              ELSE /\ req' = [req EXCEPT ![w].due = rest(b), ![w].made = @ + 1,
                                         ![w].pc = AfterAllocation(w, rest(b))]
                   /\ UNCHANGED <<session, aborts>>
    BY <1>8, Zenon DEF SaveAllocation
  <2>1. q.pc = "allocate" /\ b \in Bills /\ q.due[b] > 0
           /\ UNCHANGED <<bills, upload>> /\ UNCHANGED <<pay, batch, sched>>
    BY <1>8, <2>0 DEF SaveAllocation, At, Todo, documents
  <2>2. CASE q.op = "create_payment" /\ Respond(w)
    BY <2>0, <2>1, <2>2, <1>a DEF Allocates, OnPayments, Effect
  <2>3. CASE /\ req' = [req EXCEPT ![w].due = rest(b), ![w].made = @ + 1,
                                   ![w].pc = AfterAllocation(w, rest(b))]
             /\ UNCHANGED <<session, aborts>>
    <3>1. PICK due, label : due = rest(b) /\ label = AfterAllocation(w, due)
      OBVIOUS
    <3>2. req' = [req EXCEPT ![w] = [q EXCEPT !.due = due, !.made = q.made + 1, !.pc = label]]
      BY <2>3, <3>1
    <3>3. /\ Others(w) /\ req'[w].pc = label /\ req'[w].due = due /\ req'[w].made = q.made + 1
          /\ req'[w].op = q.op /\ req'[w].d = q.d /\ req'[w].row = q.row
          /\ req'[w].sess = q.sess /\ req'[w].p = q.p
      BY <1>t, <3>2 DEF Others, Request
    <3>4. Allocates(w)
      BY <2>0, <2>1, <2>3, <3>1, <3>3 DEF Keeps, Allocates
    <3> QED BY <2>1, <3>3, <3>4 DEF OnPayments, Effect
  <2> QED BY <2>0, <2>2, <2>3
<1>9. CASE CountBatch(w)
  <2>1. PICK s : s = [q.sess EXCEPT ![q.d] = Todo(w)]
    OBVIOUS
  <2>2. req' = [req EXCEPT ![w] = [q EXCEPT !.sess = s, !.pc = "respond"]]
    BY <1>9, <2>1 DEF CountBatch
  <2>3. /\ Others(w) /\ req'[w].pc = "respond" /\ req'[w].sess = s
        /\ req'[w].op = q.op /\ req'[w].d = q.d
    BY <1>t, <2>2 DEF Others, Request
  <2> QED BY <1>9, <2>1, <2>3 DEF CountBatch, At, Counts, OnPayments, Effect
<1>10. CASE FindEligible(w)
  <2>1. q.pc = "eligible" /\ UNCHANGED <<bills, payments, documents>>
    BY <1>10 DEF FindEligible, At
  <2>2. CASE Eligible(w) = {}
    <3>1. Respond(w)
      BY <1>10, <2>2 DEF FindEligible
    <3> QED BY <1>a, <2>1, <3>1 DEF documents, Looks, OnPayments, Effect
  <2>3. CASE Eligible(w) # {}
    <3>1. Goto(w, "select") /\ UNCHANGED <<session, aborts>>
      BY <1>10, <2>3 DEF FindEligible
    <3>2. q.sess[q.d] # {}
      BY <2>3 DEF Eligible
    <3> QED BY <1>g, <2>1, <3>1, <3>2 DEF documents, Looks, OnPayments, Effect
  <2> QED BY <2>2, <2>3
<1>11. CASE SelectBills(w)
  <2> DEFINE all == [b \in Bills |-> IF b \in Eligible(w) THEN bill[b].total ELSE 0]
  <2>0. PICK due : due = all
    OBVIOUS
  <2>1. PICK label \in {"save_batch", "number"} :
           req' = [req EXCEPT ![w] = [q EXCEPT !.due = due, !.pc = label]]
    BY <1>11, <2>0 DEF SelectBills
  <2>2. /\ Others(w) /\ req'[w].pc = label /\ req'[w].made = q.made
        /\ req'[w].op = q.op /\ req'[w].d = q.d /\ req'[w].row = q.row
        /\ req'[w].sess = q.sess
    BY <1>t, <2>1 DEF Others, Request
  <2> QED BY <1>11, <2>2 DEF SelectBills, At, documents, Keeps, Selects, OnPayments, Effect
<1>12. CASE SaveBatch(w)
  <2>1. PICK s : s = [q.sess EXCEPT ![q.d] = {}]
    OBVIOUS
  <2>2. req' = [req EXCEPT ![w] = [q EXCEPT !.sess = s, !.pc = "respond"]]
    BY <1>12, <2>1 DEF SaveBatch
  <2>3. /\ Others(w) /\ req'[w].pc = "respond" /\ req'[w].sess = s
        /\ req'[w].op = q.op /\ req'[w].d = q.d
    BY <1>t, <2>2 DEF Others, Request
  <2> QED BY <1>12, <2>1, <2>3 DEF SaveBatch, At, SavesBatch, OnPayments, Effect
<1>13. CASE SendResponse(w)
  BY <1>13, <1>a DEF SendResponse, At, documents, Responds, OnPayments, Effect
<1>14. CASE SaveSchedule(w)
  BY <1>14, <1>a DEF SaveSchedule, At, SavesSchedule, OnPayments, Effect
<1>15. CASE InsertBill(w)
  <2>1. PICK b \in Bills :
           /\ IsNext(b)
           /\ bill' = [bill EXCEPT ![b] = [st |-> "draft", total |-> q.amt, from |-> q.d]]
           /\ req' = [req EXCEPT ![w] = [q EXCEPT !.b = b, !.pc = "link"]]
    BY <1>15 DEF InsertBill
  <2>2. /\ Others(w) /\ req'[w].pc = "link" /\ req'[w].b = b
        /\ req'[w].op = q.op /\ req'[w].d = q.d /\ req'[w].row = q.row
        /\ req'[w].sess = q.sess
    BY <1>t, <2>1 DEF Others, Request
  <2>3. bill[b].st = "none"
    BY <2>1, PayablesAssumption DEF IsNext, Bills
  <2> QED BY <1>15, <2>1, <2>2, <2>3
          DEF InsertBill, At, payments, documents, Keeps, InsertsBill, OnBills, Effect
<1>16. CASE LinkUpload(w)
  BY <1>16, <1>a DEF LinkUpload, At, LinksUpload, OnBills, Effect
<1> QED
  BY <1>1, <1>2, <1>3, <1>4, <1>5, <1>6, <1>7, <1>8, <1>9, <1>10, <1>11, <1>12, <1>13,
     <1>14, <1>15, <1>16, <1>17 DEF Continue

LEMMA NextEffect ==
    ASSUME TypeInv, [Next]_vars
    PROVE  /\ (\E w \in Workers : Others(w) /\ Effect(w)) \/ UNCHANGED vars
           /\ UNCHANGED offered
<1>1. ASSUME NEW w \in Workers, Crash(w) PROVE Others(w) /\ Effect(w)
  BY <1>1 DEF Crash, Abort, TypeInv, TypeOK, Others, Dies, Effect
<1>2. UNCHANGED vars => UNCHANGED offered
  BY DEF vars
<1> QED BY <1>1, <1>2, StartEffect, ContinueEffect DEF Next

\* The care of a behaviour does not change.
LEMMA CareStays ==
    ASSUME TypeInv, [Next]_vars, NEW kind
    PROVE  Apart(kind)' <=> Apart(kind)
  BY NextEffect DEF Apart

\* The two groups of statements, by the label of the statement.
LEMMA OffBills ==
    ASSUME NEW w \in Workers, OnPayments(w)
    PROVE  /\ req[w].pc \notin BillLabels \cup {"insert_bill", "link"}
           /\ req'[w].pc \notin BillLabels \cup {"insert_bill", "link"}
<1> USE DEF BillLabels, FormLabels
<1>1. Idle.pc = "idle"
  BY DEF Idle
<1>2. CASE Allocates(w)
  <2>1. req'[w] = Idle \/ \E due : req'[w].pc = AfterAllocation(w, due)
    BY <1>2 DEF Allocates, Answers
  <2> QED BY <1>1, <1>2, <2>1 DEF Allocates, AfterAllocation
<1>3. CASE ~Allocates(w)
  BY <1>1, <1>3 DEF OnPayments, Arrives, Answers, TakesPayment, MakesBatch, TakesBatch,
     MakesSchedule, TakesSchedule, Numbers, Inserts, Counts, Looks, Selects, SavesBatch,
     Responds, SavesSchedule
<1> QED BY <1>2, <1>3

LEMMA OffPayments ==
    ASSUME NEW w \in Workers, OnBills(w)
    PROVE  /\ req[w].pc \in BillLabels \cup {"idle", "insert_bill", "link"}
           /\ req'[w].pc \in BillLabels \cup {"idle", "insert_bill", "link"}
  BY DEF BillLabels, FormLabels, OnBills, Arrives, Answers, BeginsBill, TakesBill, TakesUpload,
     SavesHeader, SavesLines, ReadsTotals, SavesBill, FindsRow, SavesApproval, InsertsBill,
     LinksUpload, Idle

-----------------------------------------------------------------------------
(* Safety: approvals are recorded, totals are the sums of their lines, nothing is  *)
(* made twice of one upload or one schedule, and what batches pay and count.       *)

\* What the statement a request executes next says about its documents.
LEMMA LocalKinds ==
    ASSUME NEW q \in Local
    PROVE  /\ q.pc \in BillLabels \cup {"link"} => q.b \in Bills
           /\ q.pc \notin BillLabels \cup {"link"} => q.b = 0
           /\ q.pc \in {"insert_bill", "link"} <=> q.d \in Uploads
           /\ q.pc \in BillLabels \cup {"idle"} => q.d = 0
           /\ q.pc \in {"count", "eligible", "select", "save_batch", "respond"} => q.d \in Batches
           /\ q.pc \in {"eligible", "select", "save_batch"} => q.op = "process"
           /\ q.pc = "count" => q.op = "create_batch"
           /\ q.pc = "respond" => q.op \in {"create_batch", "process"}
           /\ q.pc = "save_schedule" => q.op \in {"execute", "cancel"}
           /\ q.pc \in PayLabels => q.op \in {"create_payment", "process", "execute"}
           /\ q.op = "create_payment" => q.d = 0
           /\ q.op \in {"create_batch", "process"} <=> q.d \in Batches
           /\ q.op \in {"execute", "cancel"} <=> q.d \in Schedules
           /\ q.pc \in {"insert", "allocate"} => q.p \in Payments
           /\ q.op = "submit" => q.rec = 0
           /\ q.pc \in FormLabels => q.op \in FormOps
           /\ q.pc = "find_row" => q.op \in Decisions
           /\ q.pc = "approval_row" => q.op \in {"submit"} \cup Decisions
           /\ q.rec \in Rows \cup {0}
<1>1. Placed(q) /\ q \in Request
  BY DEF Local
<1>2. 0 \notin Bills
  BY DEF Bills
<1> QED
  BY <1>1, <1>2, PayablesAssumption
     DEF Placed, Request, Labels, OpsAt, DocsOf, FormLabels, BillLabels, PayLabels, FormOps,
     BillOps, PayingOps, WorkflowOps, Decisions

LEMMA LocalsBefore ==
    ASSUME TypeInv PROVE \A w \in Workers : req[w] \in Local
  BY DEF TypeInv

LEMMA LocalsAfter ==
    ASSUME TypeInv' PROVE \A w \in Workers : req'[w] \in Local
  BY DEF TypeInv

LEMMA AbortsCounted ==
    ASSUME NEW w \in Workers, Effect(w)
    PROVE  aborts' = aborts \/ Dies(w)
  BY DEF Effect, OnBills, OnPayments, Arrives, Keeps, Answers, BeginsBill, TakesBill,
     TakesUpload, SavesHeader, SavesLines, ReadsTotals, SavesBill, FindsRow, SavesApproval, InsertsBill,
     LinksUpload, TakesPayment, MakesBatch, TakesBatch, MakesSchedule, TakesSchedule, Numbers,
     Inserts, Allocates, Counts, Looks, Selects, SavesBatch, Responds, SavesSchedule

-----------------------------------------------------------------------------
(* Approvals.  Rows are saved from local copies, so the property has to hold of   *)
(* every copy that is going to be saved; a decision is never taken back: what a    *)
(* submission inserts is a row of its own.                                         *)

Decided(b) == \E r \in Rows : approval[b][r] \in {"approved", "rejected"}

Recording(q) == q.pc \in {"find_row", "approval_row"}

CopyRecorded(q) ==
    q.pc \in BillLabels /\ ~Recording(q) /\ q.copy.st = "approved" => Decided(q.b)

RecordedInv == DecisionRecorded /\ \A w \in Workers : CopyRecorded(req[w])

LEMMA DecidedStays ==
    ASSUME TypeInv, NEW w \in Workers, Effect(w), NEW b \in Bills, Decided(b)
    PROVE  Decided(b)'
<1> DEFINE q == req[w]
<1>t. approval \in [Bills -> [Rows -> RowStatus]] /\ q \in Local
  BY LocalsBefore DEF TypeInv, TypeOK
<1>1. CASE approval' = approval
  BY <1>1 DEF Decided
<1>2. CASE SavesApproval(w)
  <2>1. PICK r \in Rows :
           /\ IF q.rec = 0 THEN IsNextRow(q.b, r) ELSE r = q.rec
           /\ approval' = [approval EXCEPT ![q.b][r] = Recorded(q.op)]
    BY <1>2 DEF SavesApproval
  <2>2. PICK k \in Rows : approval[b][k] \in {"approved", "rejected"}
    BY DEF Decided
  <2>3. q.op \in {"submit", "approve", "reject"} /\ (q.op = "submit" => q.rec = 0)
    BY <1>t, <1>2, LocalKinds DEF SavesApproval, Decisions
  <2>4. approval'[b][k] \in {"approved", "rejected"}
    <3>1. CASE b = q.b /\ k = r /\ q.op = "submit"
      <4>1. approval[b][k] = "none"
        BY <2>1, <2>3, <3>1 DEF IsNextRow, Rows
      <4> QED BY <2>2, <4>1
    <3>2. CASE b = q.b /\ k = r /\ q.op # "submit"
      <4>1. Recorded(q.op) \in {"approved", "rejected"}
        BY <2>3, <3>2 DEF Recorded
      <4> QED BY <1>t, <2>1, <3>2, <4>1
    <3>3. CASE ~(b = q.b /\ k = r)
      BY <1>t, <2>1, <2>2, <3>3
    <3> QED BY <3>1, <3>2, <3>3
  <2> QED BY <2>4 DEF Decided
<1> QED BY <1>1, <1>2 DEF Effect, OnBills, OnPayments, Dies, bills, BeginsBill, TakesBill,
        TakesUpload, SavesHeader, SavesLines, ReadsTotals, SavesBill, FindsRow, InsertsBill,
        LinksUpload

LEMMA RecordedStep ==
    ASSUME TypeInv, TypeInv', RecordedInv, [Next]_vars
    PROVE  RecordedInv'
<1> USE DEF FormLabels, BillLabels, Recording
<1>1. ASSUME NEW w \in Workers, Others(w), Effect(w) PROVE RecordedInv'
  <2> DEFINE q == req[w]
             n == req'[w]
  <2>t. q \in Local /\ n \in Local /\ bill \in [Bills -> Bill]
    BY LocalsBefore, LocalsAfter DEF TypeInv, TypeOK
  <2>b. \A v \in Workers : req[v].pc \in BillLabels => req[v].b \in Bills
    BY LocalsBefore, LocalKinds
  <2>q. CopyRecorded(q)
    BY DEF RecordedInv
  <2>1. \A b \in Bills : Decided(b) => Decided(b)'
    BY <1>1, DecidedStays
  <2>2. ASSUME NEW v \in Workers \ {w} PROVE CopyRecorded(req[v])'
    <3>1. req'[v] = req[v] /\ CopyRecorded(req[v])
      BY <1>1 DEF Others, RecordedInv
    <3> QED BY <2>b, <2>1, <3>1 DEF CopyRecorded
  <2>3. CopyRecorded(req[w])'
    <3>1. CASE BeginsBill(w) \/ TakesUpload(w)
      BY <3>1 DEF BeginsBill, TakesUpload, CopyRecorded, FormBill, NoBill
    <3>2. CASE TakesBill(w)
      <4>1. n.copy.st = "approved" => n.pc = "find_row"
        BY <3>2 DEF TakesBill, WorkflowOps, Decisions, NewStatus
      <4> QED BY <4>1 DEF CopyRecorded
    <3>3. CASE SavesHeader(w) \/ SavesLines(w) \/ ReadsTotals(w)
      <4>1. /\ q.pc \in BillLabels /\ ~Recording(q) /\ n.b = q.b /\ n.copy.st = q.copy.st
        BY <3>3 DEF SavesHeader, SavesLines, ReadsTotals
      <4> QED BY <2>b, <2>q, <2>1, <4>1 DEF CopyRecorded
    <3>4. CASE SavesApproval(w) /\ n.pc = "update"
      <4>1. PICK r \in Rows : approval' = [approval EXCEPT ![q.b][r] = Recorded(q.op)]
        BY <3>4 DEF SavesApproval
      <4>2. q.b \in Bills /\ q.op \in Decisions /\ n.b = q.b
        BY <2>b, <3>4 DEF SavesApproval, Answers, Idle
      <4>3. approval'[q.b][r] \in {"approved", "rejected"}
        BY <4>1, <4>2 DEF TypeInv, TypeOK, Recorded, Decisions
      <4> QED BY <4>2, <4>3 DEF CopyRecorded, Decided
    <3>5. CASE n.pc \notin BillLabels \/ Recording(n)
      BY <3>5 DEF CopyRecorded
    <3>6. CASE OnPayments(w)
      BY <3>5, <3>6, OffBills
    <3> QED BY <1>1, <3>1, <3>2, <3>3, <3>4, <3>5, <3>6
            DEF Effect, OnBills, Dies, SavesBill, FindsRow, SavesApproval, InsertsBill,
            LinksUpload, Answers, Idle
  <2>4. DecisionRecorded'
    <3>1. ASSUME NEW b \in Bills, bill'[b].st = "approved" PROVE Decided(b)'
      <4>1. CASE bill'[b].st = bill[b].st
        BY <2>1, <3>1, <4>1 DEF RecordedInv, DecisionRecorded, Decided
      <4>2. CASE bill'[b] = q.copy /\ q.pc \in {"header", "update"} /\ b = q.b
        BY <2>1, <2>q, <3>1, <4>2 DEF CopyRecorded
      <4>3. CASE bill'[b].st = "draft"
        BY <3>1, <4>3
      <4> QED
        BY <1>1, <2>t, <4>1, <4>2, <4>3
           DEF Effect, OnBills, OnPayments, Dies, bills, BeginsBill, TakesBill, TakesUpload,
           SavesHeader, SavesLines, ReadsTotals, SavesBill, FindsRow, SavesApproval,
           InsertsBill, LinksUpload, FormBill, NoBill
    <3> QED BY <3>1 DEF DecisionRecorded, Decided
  <2> QED BY <2>2, <2>3, <2>4 DEF RecordedInv
<1>2. CASE UNCHANGED vars
  BY <1>2 DEF vars, RecordedInv, DecisionRecorded, CopyRecorded, Decided
<1> QED BY <1>1, <1>2, NextEffect

\* An approved bill has a row with a decision, however bill_approve, bill_reject, bill_edit
\* and the other views that save whole rows from their own copies overlap, and wherever
\* they die.
THEOREM DecisionsAreRecorded == Spec => []DecisionRecorded
<1>1. Init => RecordedInv
  BY DEF Init, RecordedInv, DecisionRecorded, CopyRecorded, BillLabels, FormLabels, NoBill, Idle
<1>2. TypeInv /\ TypeInv' /\ RecordedInv /\ [Next]_vars => RecordedInv'
  BY RecordedStep
<1>3. RecordedInv => DecisionRecorded
  BY DEF RecordedInv
<1> QED BY <1>1, <1>2, <1>3, TypesHold, PTL DEF Spec

-----------------------------------------------------------------------------
(* Bills stay what they were made from.  A copy that is going to be saved agrees  *)
(* with its row about the origin, and neither has status none.                     *)

BillOK(b) == bill[b].st = "none" => bill[b].from = "form" /\ lines[b] = 0

CopyOK(q, rows) ==
    /\ q.pc \in BillLabels => q.copy.st # "none" /\ q.copy.from = rows[q.b].from
    /\ q.pc \in BillLabels \cup {"link"} => rows[q.b].st # "none"

BaseInv ==
    /\ \A b \in Bills : BillOK(b)
    /\ \A w \in Workers : CopyOK(req[w], bill)

\* No bill disappears, and only an upload gives a bill another origin than the form.
LEMMA BillsGrow ==
    ASSUME TypeInv, BaseInv, NEW w \in Workers, Effect(w), NEW b \in Bills
    PROVE  /\ bill[b].st # "none" => bill'[b].st # "none" /\ bill'[b].from = bill[b].from
           /\ \/ bill'[b].from = bill[b].from
              \/ InsertsBill(w) /\ b = req'[w].b /\ bill'[b].from = req[w].d
<1> USE DEF FormLabels, BillLabels
<1> DEFINE q == req[w]
<1>t. q \in Local /\ bill \in [Bills -> Bill]
  BY LocalsBefore DEF TypeInv, TypeOK
<1>0. BillOK(b) /\ CopyOK(q, bill)
  BY DEF BaseInv
<1>1. CASE bill' = bill
  BY <1>1
<1>2. CASE SavesHeader(w) \/ SavesBill(w)
  <2>1. q.pc \in {"header", "update"} /\ bill' = [bill EXCEPT ![q.b] = q.copy]
    BY <1>2 DEF SavesHeader, SavesBill
  <2>2. q.copy.st # "none" /\ q.copy.from = bill[q.b].from
    BY <1>0, <2>1 DEF CopyOK
  <2> QED BY <1>t, <2>1, <2>2
<1>3. CASE BeginsBill(w)
  <2>1. PICK k \in Bills : bill' = [bill EXCEPT ![k] = FormBill] /\ bill[k].st = "none"
    BY <1>3 DEF BeginsBill
  <2>2. FormBill.from = "form" /\ FormBill.st = "draft"
    BY DEF FormBill, NoBill
  <2> QED BY <1>t, <1>0, <2>1, <2>2 DEF BillOK
<1>4. CASE InsertsBill(w)
  BY <1>t, <1>4 DEF InsertsBill
<1> QED
  BY <1>1, <1>2, <1>3, <1>4
     DEF Effect, OnBills, OnPayments, Dies, bills, TakesBill, TakesUpload, SavesLines,
     ReadsTotals, FindsRow, SavesApproval, LinksUpload

LEMMA BaseStep ==
    ASSUME TypeInv, TypeInv', BaseInv, [Next]_vars
    PROVE  BaseInv'
<1> USE DEF FormLabels, BillLabels
<1>1. ASSUME NEW w \in Workers, Others(w), Effect(w) PROVE BaseInv'
  <2> DEFINE q == req[w]
             n == req'[w]
  <2>t. /\ q \in Local /\ n \in Local /\ bill \in [Bills -> Bill] /\ bill' \in [Bills -> Bill]
        /\ lines \in [Bills -> Nat]
    BY LocalsBefore, LocalsAfter DEF TypeInv, TypeOK
  <2>g. \A b \in Bills : bill[b].st # "none" => bill'[b].st # "none" /\ bill'[b].from = bill[b].from
    BY <1>1, BillsGrow
  <2>q. CopyOK(q, bill)
    BY DEF BaseInv
  <2>1. ASSUME NEW v \in Workers \ {w} PROVE CopyOK(req'[v], bill')
    <3>1. req'[v] = req[v] /\ CopyOK(req[v], bill) /\ req[v] \in Local
      BY <1>1, LocalsBefore DEF Others, BaseInv
    <3>2. req[v].pc \in BillLabels \cup {"link"} => req[v].b \in Bills
      BY <3>1, LocalKinds
    <3> QED BY <2>g, <3>1, <3>2 DEF CopyOK
  <2>2. CopyOK(n, bill')
    <3>1. n.pc \in BillLabels \cup {"link"} => n.b \in Bills
      BY <2>t, LocalKinds
    <3>2. CASE BeginsBill(w)
      BY <2>t, <3>2 DEF BeginsBill, CopyOK, FormBill, NoBill
    <3>3. CASE InsertsBill(w)
      BY <2>t, <3>3 DEF InsertsBill, CopyOK
    <3>4. CASE TakesBill(w)
      <4>1. n.copy.st # "none" /\ n.copy.from = bill[n.b].from /\ bill[n.b].st # "none"
               /\ n.b \in Bills
        BY <3>4 DEF TakesBill, WorkflowOps, NewStatus
      <4> QED BY <2>g, <4>1 DEF CopyOK
    <3>5. CASE /\ n.pc \in BillLabels
               /\ \/ SavesHeader(w) \/ SavesLines(w) \/ ReadsTotals(w)
                  \/ SavesBill(w) \/ FindsRow(w) \/ SavesApproval(w)
      <4>1. /\ q.pc \in BillLabels /\ n.pc \in BillLabels /\ n.b = q.b
            /\ n.copy.st = q.copy.st /\ n.copy.from = q.copy.from
        BY <3>5 DEF SavesHeader, SavesLines, ReadsTotals, SavesBill, FindsRow, SavesApproval,
           Answers, Idle
      <4> QED BY <2>g, <2>q, <3>1, <4>1 DEF CopyOK
    <3>6. CASE n.pc \notin BillLabels \cup {"link"}
      BY <3>6 DEF CopyOK
    <3> QED
      BY <1>1, <3>2, <3>3, <3>4, <3>5, <3>6, OffBills
         DEF Effect, OnBills, Dies, TakesUpload, SavesHeader, SavesLines, ReadsTotals,
         SavesBill, FindsRow, SavesApproval, LinksUpload, Answers, Idle
  <2>3. ASSUME NEW b \in Bills PROVE BillOK(b)'
    <3>1. BillOK(b) /\ (bill'[b].st = "none" => bill[b].st = "none" /\ bill'[b] = bill[b])
      BY <1>1, <2>t, <2>g, <2>q
         DEF BaseInv, CopyOK, Effect, OnBills, OnPayments, Dies, bills, BeginsBill, TakesBill,
         TakesUpload, SavesHeader, SavesLines, ReadsTotals, SavesBill, FindsRow, SavesApproval,
         InsertsBill, LinksUpload, FormBill, NoBill
    <3>2. CASE lines'[b] = lines[b]
      BY <3>1, <3>2 DEF BillOK
    <3>3. CASE SavesLines(w) /\ b = q.b
      BY <2>g, <2>q, <3>3 DEF SavesLines, CopyOK, BillOK
    <3> QED
      BY <1>1, <2>t, <3>2, <3>3
         DEF Effect, OnBills, OnPayments, Dies, bills, BeginsBill, TakesBill, TakesUpload,
         SavesHeader, SavesLines, ReadsTotals, SavesBill, FindsRow, SavesApproval, InsertsBill, LinksUpload
  <2> QED BY <2>1, <2>2, <2>3 DEF BaseInv
<1>2. CASE UNCHANGED vars
  BY <1>2 DEF vars, BaseInv, BillOK, CopyOK
<1> QED BY <1>1, <1>2, NextEffect

LEMMA BaseHolds == Spec => []BaseInv
<1>1. Init => BaseInv
  BY DEF Init, BaseInv, BillOK, CopyOK, BillLabels, FormLabels, NoBill, NoBills, Idle
<1>2. TypeInv /\ TypeInv' /\ BaseInv /\ [Next]_vars => BaseInv'
  BY BaseStep
<1> QED BY <1>1, <1>2, TypesHold, PTL DEF Spec

-----------------------------------------------------------------------------
(* Totals.  While a bill is worked on in one place, whoever works on it is going  *)
(* to save the total that fits its lines, whatever the row says meanwhile.        *)

OneBill == \A u, v \in Workers : u # v /\ req[u].b # 0 => req[u].b # req[v].b

OneBillInv == Apart("bill") => OneBill

Fits(total, sum) == sum > 0 => total = sum

SumAt(b) ==
    /\ (\A w \in Workers : req[w].b # b) => Fits(bill[b].total, lines[b])
    /\ \A w \in Workers : req[w].b = b =>
          /\ req[w].pc \in {"header", "find_row", "approval_row", "update"} =>
                Fits(req[w].copy.total, lines[b])
          /\ \/ req[w].pc = "link"
             \/ req[w].pc = "approval_row" /\ req[w].op = "submit"
             => Fits(bill[b].total, lines[b])

SumsInv == aborts = 0 /\ Apart("bill") => \A b \in Bills : SumAt(b)

LEMMA OneBillStep ==
    ASSUME TypeInv, TypeInv', BaseInv, OneBillInv, [Next]_vars
    PROVE  OneBillInv'
<1> USE DEF FormLabels, BillLabels
<1>1. ASSUME NEW w \in Workers, Others(w), Effect(w), Apart("bill") PROVE OneBill'
  <2> DEFINE q == req[w]
             n == req'[w]
  <2>t. q \in Local /\ n \in Local
    BY LocalsBefore, LocalsAfter
  <2>1. n.b \in {0, q.b} \/ \A v \in Workers \ {w} : req[v].b # n.b
    <3>1. CASE BeginsBill(w) \/ InsertsBill(w)
      <4>1. n.b \in Bills /\ bill[n.b].st = "none" /\ n.b # 0
        BY <3>1, PayablesAssumption DEF BeginsBill, InsertsBill, Bills
      <4>2. ASSUME NEW v \in Workers, req[v].b # 0 PROVE bill[req[v].b].st # "none"
        BY <4>2, LocalKinds, LocalsBefore DEF BaseInv, CopyOK
      <4> QED BY <4>1, <4>2
    <3>2. CASE n.pc \notin BillLabels \cup {"link"}
      BY <2>t, <3>2, LocalKinds
    <3>3. CASE TakesBill(w)
      BY <1>1, <3>3 DEF TakesBill
    <3> QED
      BY <1>1, <3>1, <3>2, <3>3, OffBills
         DEF Effect, OnBills, Dies, TakesUpload, SavesHeader, SavesLines, ReadsTotals,
         SavesBill, FindsRow, SavesApproval, LinksUpload, Answers, Idle
  <2> QED BY <1>1, <2>1 DEF OneBillInv, OneBill, Others
<1>2. CASE UNCHANGED vars
  BY <1>2, CareStays DEF vars, OneBillInv, OneBill
<1> QED BY <1>1, <1>2, NextEffect, CareStays DEF OneBillInv

\* The step of the worker that has bill b, or takes it.
LEMMA SumHere ==
    ASSUME TypeInv, TypeInv', BaseInv, OneBill, OneBill', NEW b \in Bills, SumAt(b),
           NEW w \in Workers, Others(w), Effect(w), aborts' = aborts,
           req[w].b = b \/ req'[w].b = b
    PROVE  SumAt(b)'
<1> DEFINE q == req[w]
           n == req'[w]
<1>t. bill \in [Bills -> Bill] /\ lines \in [Bills -> Nat] /\ q \in Local /\ aborts \in Nat /\ b # 0
  BY LocalsBefore, PayablesAssumption DEF TypeInv, TypeOK, Bills
<1>1. \A v \in Workers \ {w} : req'[v].b # b
  BY <1>t DEF OneBill, Others
<1>i. Idle.b = 0 /\ Idle.pc = "idle"
  BY DEF Idle
<1>2. CASE BeginsBill(w) \/ SavesHeader(w) \/ SavesLines(w)
  <2>1. n.b = b /\ n.pc \in {"lines", "totals"}
    BY <1>2, <1>t, LocalKinds DEF BeginsBill, Arrives, SavesHeader, SavesLines, BillLabels,
       FormLabels
  <2> QED BY <1>1, <2>1 DEF SumAt
<1>3. CASE TakesBill(w)
  <2>1. n.b = b /\ n.pc \notin {"link", "approval_row"} /\ lines' = lines
           /\ n.copy.total = bill[b].total /\ \A v \in Workers : req[v].b # b
    BY <1>3, <1>t, <1>1, LocalKinds DEF TakesBill, Arrives, BillLabels, FormLabels, bills, Others
  <2> QED BY <1>1, <2>1 DEF SumAt
<1>4. CASE ReadsTotals(w)
  <2>1. n.b = b /\ n.pc = "update" /\ lines' = lines /\ n.copy.total = lines[b]
    BY <1>4 DEF ReadsTotals, bills
  <2> QED BY <1>1, <2>1 DEF SumAt, Fits
<1>5. CASE FindsRow(w) \/ SavesApproval(w)
  <2>0. q.b = b /\ q.pc \in {"find_row", "approval_row"} /\ bill' = bill /\ lines' = lines
    BY <1>5, <1>i, <1>t DEF FindsRow, SavesApproval, Answers, bills
  <2>1. CASE n = Idle
    <3>1. q.pc = "approval_row" /\ q.op = "submit" /\ n.b = 0
      BY <1>5, <1>i, <2>1 DEF FindsRow, SavesApproval, Decisions
    <3> QED BY <1>1, <1>t, <2>0, <3>1 DEF SumAt
  <2>2. CASE n # Idle
    <3>1. n.b = b /\ n.pc \in {"approval_row", "update"} /\ n.op = q.op /\ n.copy = q.copy
             /\ q.op \in Decisions
      BY <1>5, <2>0, <2>2, <1>t, LocalKinds DEF FindsRow, SavesApproval, Answers, Keeps
    <3>2. q.op # "submit"
      BY <3>1 DEF Decisions
    <3> QED BY <1>1, <2>0, <3>1, <3>2 DEF SumAt
  <2> QED BY <2>1, <2>2
<1>6. CASE SavesBill(w)
  <2>0. q.b = b /\ q.pc = "update" /\ bill'[b] = q.copy /\ lines' = lines
    BY <1>6, <1>i, <1>t DEF SavesBill, Answers
  <2>1. CASE Answers(w)
    <3>1. n.b = 0
      BY <1>i, <2>1 DEF Answers
    <3> QED BY <1>1, <1>t, <2>0, <3>1 DEF SumAt
  <2>2. CASE n.pc = "approval_row" /\ n.b = q.b /\ n.copy = q.copy
    BY <1>1, <2>0, <2>2 DEF SumAt
  <2> QED BY <1>6, <2>1, <2>2 DEF SavesBill
<1>7. CASE InsertsBill(w)
  <2>1. n.b = b /\ n.pc = "link" /\ lines'[b] = 0
    BY <1>7, <1>t, LocalKinds DEF InsertsBill, BaseInv, BillOK, BillLabels, FormLabels
  <2> QED BY <1>1, <2>1 DEF SumAt, Fits
<1>8. CASE LinksUpload(w)
  <2>1. q.b = b /\ q.pc = "link" /\ n.b = 0 /\ bill' = bill /\ lines' = lines
    BY <1>8, <1>i, <1>t DEF LinksUpload, Answers, bills
  <2> QED BY <1>1, <1>t, <2>1 DEF SumAt
<1>9. ~OnPayments(w) /\ ~TakesUpload(w) /\ ~Dies(w)
  <2>1. ~OnPayments(w) /\ ~TakesUpload(w)
    <3>1. /\ q.pc \notin BillLabels \cup {"link"} => q.b = 0
          /\ n.pc \notin BillLabels \cup {"link"} => n.b = 0
      BY <1>t, LocalsAfter, LocalKinds
    <3> QED BY <1>t, <3>1, OffBills DEF TakesUpload, Arrives, BillLabels, FormLabels
  <2>2. ~Dies(w)
    BY <1>t DEF Dies
  <2> QED BY <2>1, <2>2
<1> QED BY <1>2, <1>3, <1>4, <1>5, <1>6, <1>7, <1>8, <1>9 DEF Effect, OnBills


\* The step of a worker that neither has bill b nor takes it.
LEMMA SumElsewhere ==
    ASSUME TypeInv, TypeInv', NEW b \in Bills, SumAt(b), NEW w \in Workers, Others(w), Effect(w),
           req[w].b # b, req'[w].b # b
    PROVE  SumAt(b)'
<1>t. bill \in [Bills -> Bill] /\ lines \in [Bills -> Nat]
  BY DEF TypeInv, TypeOK
<1>1. bill'[b] = bill[b] /\ lines'[b] = lines[b]
  BY <1>t DEF Effect, OnBills, OnPayments, Dies, bills, BeginsBill, TakesBill, TakesUpload,
     SavesHeader, SavesLines, ReadsTotals, SavesBill, FindsRow, SavesApproval, InsertsBill, LinksUpload
<1>2. \A v \in Workers \ {w} : req'[v] = req[v]
  BY DEF Others
<1> QED BY <1>1, <1>2 DEF SumAt

LEMMA SumsStep ==
    ASSUME TypeInv, TypeInv', BaseInv, OneBillInv, OneBillInv', SumsInv, [Next]_vars
    PROVE  SumsInv'
<1>c. Apart("bill")' <=> Apart("bill")
  BY CareStays
<1>1. ASSUME NEW w \in Workers, Others(w), Effect(w), aborts' = 0, Apart("bill"), NEW b \in Bills
      PROVE  SumAt(b)'
  <2>o. OneBill /\ OneBill'
    BY <1>c, <1>1 DEF OneBillInv
  <2>1. aborts \in Nat /\ (aborts' = aborts \/ Dies(w))
    BY <1>1, AbortsCounted DEF TypeInv, TypeOK
  <2>2. aborts = 0 /\ SumAt(b)
    BY <1>1, <2>1 DEF SumsInv, Dies
  <2>3. CASE req[w].b = b \/ req'[w].b = b
    BY <1>1, <2>o, <2>2, <2>3, SumHere
  <2>4. CASE req[w].b # b /\ req'[w].b # b
    BY <1>1, <2>2, <2>4, SumElsewhere
  <2> QED BY <2>3, <2>4
<1>2. CASE UNCHANGED vars
  BY <1>c, <1>2 DEF vars, SumsInv, SumAt
<1> QED BY <1>c, <1>1, <1>2, NextEffect DEF SumsInv

LEMMA OneBillHolds == Spec => []OneBillInv
<1>1. Init => OneBillInv
  BY DEF Init, OneBillInv, OneBill, Idle
<1>2. TypeInv /\ TypeInv' /\ BaseInv /\ OneBillInv /\ [Next]_vars => OneBillInv'
  BY OneBillStep
<1> QED BY <1>1, <1>2, TypesHold, BaseHolds, PTL DEF Spec

\* The total that is approved and paid is what the lines add up to, however the views that
\* write bills overlap, if each bill is worked on in one place at a time and no request
\* ended half-way.
THEOREM TotalsAreLines == Spec => []TotalIsLines
<1>1. Init => SumsInv
  BY PayablesAssumption DEF Init, SumsInv, SumAt, Fits, NoBills, NoBill, Idle, Bills
<1>2. TypeInv /\ TypeInv' /\ BaseInv /\ OneBillInv /\ OneBillInv' /\ SumsInv /\ [Next]_vars
         => SumsInv'
  BY SumsStep
<1>3. SumsInv => TotalIsLines
  BY DEF SumsInv, SumAt, Fits, TotalIsLines
<1> QED BY <1>1, <1>2, <1>3, TypesHold, BaseHolds, OneBillHolds, PTL DEF Spec

-----------------------------------------------------------------------------
(* The newest approval row.  While a bill is worked on in one place, at most its    *)
(* newest row is pending, and the decision that is going to be saved with the bill  *)
(* is already the newest row.                                                        *)

RowsFit(b) ==
    /\ bill[b].st = "none" => approval[b] = NoRows
    /\ bill[b].st = "approved" => Newest(b, "approved")
    /\ bill[b].st = "draft" => approval[b] = NoRows \/ Newest(b, "rejected")
    /\ \A r, k \in Rows : approval[b][r] = "pending" /\ k > r => approval[b][k] = "none"

\* What a request on bill b knows of the bill and its rows.
RequestFits(q, b) ==
    q.pc \in BillLabels =>
        /\ q.op \in FormOps => bill[b].st = "draft" /\ q.copy.st = "draft"
        /\ q.op = "submit" =>
              q.copy.st = "pending_approval" /\ (q.pc = "update" => bill[b].st = "draft")
        /\ q.op = "void_bill" => q.copy.st = "void"
        /\ q.op \in Decisions =>
              /\ bill[b].st = "pending_approval" /\ q.copy.st = NewStatus(q.op)
              /\ q.pc = "update" => Newest(b, Recorded(q.op))
        /\ q.pc = "approval_row" =>
              /\ bill[b].st = "pending_approval"
              /\ q.rec = 0 => NonePending(b)
              /\ q.rec # 0 => approval[b][q.rec] = "pending"

NewestAt(b) == RowsFit(b) /\ \A w \in Workers : req[w].b = b => RequestFits(req[w], b)

NewestInv == Apart("bill") => \A b \in Bills : NewestAt(b)

\* A draft has no pending row.
LEMMA DraftsHaveNone ==
    ASSUME TypeInv, NEW b \in Bills, RowsFit(b), bill[b].st = "draft"
    PROVE  NonePending(b)
<1>1. Rows \subseteq Int
  BY DEF Rows
<1>2. CASE approval[b] = NoRows
  BY <1>2 DEF NonePending, NoRows
<1>3. CASE Newest(b, "rejected")
  <2>1. PICK k \in Rows : approval[b][k] = "rejected"
                             /\ \A j \in Rows : j > k => approval[b][j] = "none"
    BY <1>3 DEF Newest
  <2>2. ASSUME NEW r \in Rows, approval[b][r] = "pending" PROVE FALSE
    <3>1. r > k \/ k > r \/ r = k
      BY <1>1
    <3> QED BY <2>1, <2>2, <3>1 DEF RowsFit
  <2> QED BY <2>2 DEF NonePending
<1> QED BY <1>2, <1>3 DEF RowsFit

\* The step that saves an approval row.
LEMMA NewestRow ==
    ASSUME TypeInv, TypeInv', NEW b \in Bills, RowsFit(b), NEW w \in Workers,
           req[w].b = b, RequestFits(req[w], b), SavesApproval(w)
    PROVE  /\ RowsFit(b)'
           /\ req'[w] = Idle \/ RequestFits(req[w], b)'
<1> DEFINE q == req[w]
<1>t. approval \in [Bills -> [Rows -> RowStatus]] /\ q \in Local /\ Rows \subseteq Int /\ 0 \notin Rows
  BY LocalsBefore DEF TypeInv, TypeOK, Rows
<1>1. PICK r \in Rows :
         /\ IF q.rec = 0 THEN IsNextRow(b, r) ELSE r = q.rec
         /\ approval' = [approval EXCEPT ![b][r] = Recorded(q.op)]
  BY DEF SavesApproval
<1>2. /\ bill' = bill /\ bill[b].st = "pending_approval" /\ q.op \in {"submit", "approve", "reject"}
      /\ q.rec = 0 => NonePending(b)
      /\ q.rec # 0 => approval[b][q.rec] = "pending"
      /\ q.op = "submit" => q.rec = 0
  BY <1>t, LocalKinds DEF SavesApproval, RequestFits, Decisions, BillLabels
<1>3. approval'[b] = [approval[b] EXCEPT ![r] = Recorded(q.op)]
  BY <1>t, <1>1
<1>4. \A k \in Rows : k > r => approval[b][k] = "none" /\ approval'[b][k] = "none"
  <2>1. \A k \in Rows : k > r => approval[b][k] = "none"
    BY <1>t, <1>1, <1>2 DEF IsNextRow, RowsFit
  <2> QED BY <1>t, <1>3, <2>1
<1>5. approval'[b][r] = Recorded(q.op)
  BY <1>t, <1>3
<1>6. \A st : st = Recorded(q.op) => Newest(b, st)'
  BY <1>4, <1>5 DEF Newest
<1>7. \A j, k \in Rows : approval'[b][j] = "pending" /\ k > j => approval'[b][k] = "none"
  <2>1. ASSUME NEW j \in Rows, NEW k \in Rows, approval'[b][j] = "pending", k > j
        PROVE  approval'[b][k] = "none"
    <3>1. CASE j = r
      BY <1>4, <2>1, <3>1
    <3>2. CASE j # r
      <4>1. approval[b][j] = "pending"
        BY <1>t, <1>3, <2>1, <3>2
      <4>2. q.rec # 0 /\ r = q.rec /\ approval[b][r] = "pending"
        BY <1>1, <1>2, <4>1 DEF NonePending
      <4>3. j > r \/ r > j
        BY <1>t, <3>2
      <4> QED BY <4>1, <4>2, <4>3 DEF RowsFit
    <3> QED BY <3>1, <3>2
  <2> QED BY <2>1
<1>8. RowsFit(b)'
  BY <1>2, <1>7 DEF RowsFit
<1>9. ASSUME q.op \in Decisions PROVE RequestFits(req[w], b)'
  <2>1. /\ req'[w].op = q.op /\ req'[w].pc = "update" /\ req'[w].copy = q.copy
        /\ q.copy.st = NewStatus(q.op) /\ q.op \notin FormOps
        /\ q.op # "submit" /\ q.op # "void_bill"
    BY <1>9 DEF SavesApproval, Keeps, RequestFits, Decisions, FormOps, BillLabels
  <2>2. Newest(b, Recorded(req[w].op))'
    BY <1>6, <2>1 DEF Newest
  <2> QED BY <1>2, <2>1, <2>2 DEF RequestFits
<1> QED BY <1>8, <1>9 DEF SavesApproval, Answers

\* The step of the worker that has bill b, or takes it.
LEMMA NewestHere ==
    ASSUME TypeInv, TypeInv', BaseInv, OneBill, OneBill', NEW b \in Bills, NewestAt(b),
           NEW w \in Workers, Others(w), Effect(w), req[w].b = b \/ req'[w].b = b
    PROVE  NewestAt(b)'
<1> USE DEF FormLabels, BillLabels
<1> DEFINE q == req[w]
           n == req'[w]
<1>t. bill \in [Bills -> Bill] /\ q \in Local /\ n \in Local /\ b # 0
  BY LocalsBefore, LocalsAfter DEF TypeInv, TypeOK, Bills
<1>i. Idle.b = 0 /\ Idle.pc = "idle"
  BY DEF Idle
<1>r. RowsFit(b) /\ (q.b = b => RequestFits(q, b))
  BY DEF NewestAt
<1>o. \A v \in Workers \ {w} : req'[v].b # b
  BY <1>t DEF OneBill, Others
<1>s. ASSUME bill'[b].st = bill[b].st, approval' = approval PROVE RowsFit(b)'
  BY <1>r, <1>s DEF RowsFit, Newest
<1>f. ASSUME RowsFit(b)', n.b # b \/ RequestFits(req[w], b)' PROVE NewestAt(b)'
  BY <1>o, <1>f DEF NewestAt
<1>1. CASE BeginsBill(w)
  <2>1. /\ n.b = b /\ n.op = "create_bill" /\ n.pc = "lines" /\ n.copy.st = "draft"
        /\ bill[b].st = "none" /\ bill'[b].st = "draft" /\ approval' = approval
    BY <1>t, <1>1, LocalKinds DEF BeginsBill, Arrives, FormBill, NoBill
  <2>2. RowsFit(b)'
    BY <1>r, <2>1 DEF RowsFit
  <2>3. RequestFits(req[w], b)'
    BY <2>1 DEF RequestFits, Decisions
  <2> QED BY <1>f, <2>2, <2>3
<1>2. CASE TakesBill(w)
  <2>1. /\ n.b = b /\ bill' = bill /\ approval' = approval
        /\ \/ n.op = "edit_bill" /\ n.pc = "header" /\ bill[b].st = "draft" /\ n.copy.st = "draft"
           \/ /\ n.op \in WorkflowOps /\ MayChange(n.op, bill[b].st)
              /\ n.pc = IF n.op \in Decisions THEN "find_row" ELSE "update"
              /\ n.copy.st = NewStatus(n.op)
    BY <1>t, <1>2, LocalKinds DEF TakesBill, Arrives, bills
  <2>2. RequestFits(req[w], b)'
    BY <2>1 DEF RequestFits, WorkflowOps, FormOps, Decisions, MayChange, NewStatus
  <2> QED BY <1>s, <1>f, <2>1, <2>2
<1>3. CASE SavesHeader(w) \/ SavesLines(w) \/ ReadsTotals(w)
  <2>1. /\ q.b = b /\ n.b = b /\ q.pc \in FormLabels /\ n.op = q.op /\ n.copy.st = q.copy.st
        /\ n.pc \in {"lines", "totals", "update"} /\ approval' = approval
        /\ bill' = bill \/ bill' = [bill EXCEPT ![b] = q.copy]
    BY <1>3 DEF SavesHeader, SavesLines, ReadsTotals, Keeps, bills
  <2>2. q.op \in FormOps /\ bill[b].st = "draft" /\ q.copy.st = "draft"
    BY <1>t, <1>r, <2>1, LocalKinds DEF RequestFits
  <2>3. bill'[b].st = "draft"
    BY <1>t, <2>1, <2>2
  <2>4. RequestFits(req[w], b)'
    BY <2>1, <2>2, <2>3 DEF RequestFits, FormOps, Decisions
  <2> QED BY <1>s, <1>f, <2>1, <2>2, <2>3, <2>4
<1>4. CASE SavesBill(w)
  <2>1. q.b = b /\ q.pc = "update" /\ bill'[b] = q.copy /\ approval' = approval
    BY <1>t, <1>i, <1>4 DEF SavesBill, Answers
  <2>2. CASE q.op = "submit"
    <3>1. /\ bill[b].st = "draft" /\ bill'[b].st = "pending_approval"
          /\ n.b = b /\ n.pc = "approval_row" /\ n.op = "submit" /\ n.copy = q.copy
          /\ q.copy.st = "pending_approval"
      BY <1>r, <1>4, <2>1, <2>2 DEF SavesBill, Keeps, RequestFits
    <3>2. n.rec = 0
      BY <1>t, <3>1, LocalKinds
    <3>3. NonePending(b)
      BY <1>r, <3>1, DraftsHaveNone
    <3>4. NonePending(b)'
      BY <2>1, <3>3 DEF NonePending
    <3>5. RequestFits(req[w], b)'
      BY <3>1, <3>2, <3>4 DEF RequestFits, FormOps, Decisions
    <3>6. RowsFit(b)'
      BY <1>r, <2>1, <3>1 DEF RowsFit
    <3> QED BY <1>f, <3>5, <3>6
  <2>3. CASE q.op # "submit"
    <3>1. n.b # b
      BY <1>t, <1>i, <1>4, <2>3 DEF SavesBill, Answers
    <3>2. CASE q.op \in FormOps
      <4>1. bill'[b].st = bill[b].st
        BY <1>r, <2>1, <3>2 DEF RequestFits
      <4> QED BY <1>s, <1>f, <2>1, <3>1, <4>1
    <3>3. CASE q.op = "void_bill"
      <4>1. bill'[b].st = "void"
        BY <1>r, <2>1, <3>3 DEF RequestFits
      <4>2. RowsFit(b)'
        BY <1>r, <2>1, <4>1 DEF RowsFit
      <4> QED BY <1>f, <3>1, <4>2
    <3>4. CASE q.op \in Decisions
      <4>1. bill'[b].st = NewStatus(q.op) /\ Newest(b, Recorded(q.op))
        BY <1>r, <2>1, <3>4 DEF RequestFits
      <4>2. \A st : st = Recorded(q.op) => Newest(b, st)'
        BY <2>1, <4>1 DEF Newest
      <4>3. RowsFit(b)'
        <5>1. CASE q.op = "approve"
          <6>1. NewStatus(q.op) = "approved" /\ Recorded(q.op) = "approved"
            BY <5>1 DEF NewStatus, Recorded
          <6> QED BY <1>r, <2>1, <4>1, <4>2, <6>1 DEF RowsFit
        <5>2. CASE q.op = "reject"
          <6>1. NewStatus(q.op) = "draft" /\ Recorded(q.op) = "rejected"
            BY <5>2 DEF NewStatus, Recorded
          <6> QED BY <1>r, <2>1, <4>1, <4>2, <6>1 DEF RowsFit
        <5> QED BY <3>4, <5>1, <5>2 DEF Decisions
      <4> QED BY <1>f, <3>1, <4>3
    <3>5. q.op \in BillOps
      BY <1>t, <2>1 DEF Local, Placed, OpsAt
    <3> QED BY <2>3, <3>2, <3>3, <3>4, <3>5 DEF BillOps, WorkflowOps, Decisions
  <2> QED BY <2>2, <2>3
<1>5. CASE FindsRow(w)
  <2>1. /\ q.b = b /\ n.b = b /\ q.pc = "find_row" /\ n.pc = "approval_row"
        /\ n.op = q.op /\ n.copy = q.copy /\ bill' = bill /\ approval' = approval
        /\ (n.rec = 0 /\ NonePending(b)) \/ (n.rec \in Rows /\ approval[b][n.rec] = "pending")
    BY <1>5 DEF FindsRow, Keeps, bills
  <2>2. q.op \in Decisions /\ q.op \notin FormOps /\ q.op # "submit" /\ q.op # "void_bill"
    BY <1>t, <2>1, LocalKinds DEF Decisions, FormOps
  <2>3. bill[b].st = "pending_approval" /\ q.copy.st = NewStatus(q.op)
    BY <1>r, <2>1, <2>2 DEF RequestFits
  <2>4. /\ n.rec = 0 => NonePending(b)'
        /\ n.rec # 0 => approval'[b][n.rec] = "pending"
    BY <2>1 DEF NonePending, Rows
  <2>5. RequestFits(req[w], b)'
    BY <2>1, <2>2, <2>3, <2>4 DEF RequestFits
  <2> QED BY <1>s, <1>f, <2>1, <2>5
<1>6. CASE SavesApproval(w)
  <2>1. q.b = b
    BY <1>t, <1>i, <1>6 DEF SavesApproval, Answers
  <2> QED BY <1>t, <1>i, <1>r, <1>f, <1>6, <2>1, NewestRow
<1>7. CASE InsertsBill(w)
  <2>1. /\ n.b = b /\ n.pc = "link" /\ bill[b].st = "none" /\ bill'[b].st = "draft"
        /\ approval' = approval
    BY <1>t, <1>7, LocalKinds DEF InsertsBill
  <2>2. RowsFit(b)'
    BY <1>r, <2>1 DEF RowsFit
  <2> QED BY <1>f, <2>1, <2>2 DEF RequestFits
<1>8. CASE LinksUpload(w) \/ Dies(w)
  <2>1. n.b # b /\ bill' = bill /\ approval' = approval
    BY <1>t, <1>i, <1>8 DEF LinksUpload, Dies, Answers, bills
  <2> QED BY <1>s, <1>f, <2>1
<1>9. ~OnPayments(w) /\ ~TakesUpload(w)
  <2>1. /\ q.pc \notin BillLabels \cup {"link"} => q.b = 0
        /\ n.pc \notin BillLabels \cup {"link"} => n.b = 0
    BY <1>t, LocalKinds
  <2> QED BY <1>t, <2>1, OffBills DEF TakesUpload, Arrives
<1> QED BY <1>1, <1>2, <1>3, <1>4, <1>5, <1>6, <1>7, <1>8, <1>9 DEF Effect, OnBills

\* The step of a worker that neither has bill b nor takes it.
LEMMA NewestElsewhere ==
    ASSUME TypeInv, NEW b \in Bills, NewestAt(b), NEW w \in Workers, Others(w), Effect(w),
           req[w].b # b, req'[w].b # b
    PROVE  NewestAt(b)'
<1>t. bill \in [Bills -> Bill] /\ approval \in [Bills -> [Rows -> RowStatus]]
  BY DEF TypeInv, TypeOK
<1>1. bill'[b] = bill[b] /\ approval'[b] = approval[b]
  BY <1>t DEF Effect, OnBills, OnPayments, Dies, bills, BeginsBill, TakesBill, TakesUpload,
     SavesHeader, SavesLines, ReadsTotals, SavesBill, FindsRow, SavesApproval, InsertsBill,
     LinksUpload
<1>2. RowsFit(b)'
  BY <1>1 DEF NewestAt, RowsFit, Newest
<1>3. ASSUME NEW v \in Workers, req'[v].b = b PROVE RequestFits(req[v], b)'
  <2>1. req'[v] = req[v] /\ RequestFits(req[v], b)
    BY <1>3 DEF Others, NewestAt
  <2> QED BY <1>1, <2>1 DEF RequestFits, Newest, NonePending
<1> QED BY <1>2, <1>3 DEF NewestAt

LEMMA NewestStep ==
    ASSUME TypeInv, TypeInv', BaseInv, OneBillInv, OneBillInv', NewestInv, [Next]_vars
    PROVE  NewestInv'
<1>c. Apart("bill")' <=> Apart("bill")
  BY CareStays
<1>1. ASSUME NEW w \in Workers, Others(w), Effect(w), Apart("bill"), NEW b \in Bills
      PROVE  NewestAt(b)'
  <2>1. OneBill /\ OneBill' /\ NewestAt(b)
    BY <1>c, <1>1 DEF OneBillInv, NewestInv
  <2>2. CASE req[w].b = b \/ req'[w].b = b
    BY <1>1, <2>1, <2>2, NewestHere
  <2>3. CASE req[w].b # b /\ req'[w].b # b
    BY <1>1, <2>1, <2>3, NewestElsewhere
  <2> QED BY <2>2, <2>3
<1>2. CASE UNCHANGED vars
  BY <1>c, <1>2 DEF vars, NewestInv, NewestAt, RowsFit, RequestFits, Newest, NonePending
<1> QED BY <1>c, <1>1, <1>2, NextEffect DEF NewestInv

\* bill_approve and bill_reject overwrite one row.  If no bill is worked on in two places at
\* once, its newest row still tells how it came to its status, wherever requests die and
\* however often it is submitted, rejected and edited again.
THEOREM NewestRowsDecide == Spec => []NewestRowDecides
<1>1. Init => NewestInv
  BY PayablesAssumption DEF Init, NewestInv, NewestAt, RowsFit, NoBill, NoRows, Idle, Bills
<1>2. TypeInv /\ TypeInv' /\ BaseInv /\ OneBillInv /\ OneBillInv' /\ NewestInv /\ [Next]_vars
         => NewestInv'
  BY NewestStep
<1>3. NewestInv => NewestRowDecides
  BY DEF NewestInv, NewestAt, RowsFit, NewestRowDecides
<1> QED BY <1>1, <1>2, <1>3, TypesHold, BaseHolds, OneBillHolds, PTL DEF Spec

-----------------------------------------------------------------------------
(* Uploads.  A bill made from an upload that is not yet linked to it is the only  *)
(* one, unless the request that made another one ended half-way.                   *)

OneUpload == \A u, v \in Workers : u # v /\ req[u].d \in Uploads => req[u].d # req[v].d

MadeFrom(u) == {b \in Bills : bill[b].from = u}

Linking(q, u) == q.pc = "link" /\ q.d = u

Linked(u) == upload[u] # 0 \/ \E w \in Workers : Linking(req[w], u)

UploadAt(u) ==
    /\ Cardinality(MadeFrom(u)) <= aborts + (IF Linked(u) THEN 1 ELSE 0)
    /\ upload[u] # 0 => \A w \in Workers : req[w].d # u

UploadInv == Apart("upload") => OneUpload /\ \A u \in Uploads : UploadAt(u)

\* A request that takes an upload is the only one on it.
LEMMA OneUploadStep ==
    ASSUME Apart("upload"), TypeInv, TypeInv', OneUpload, [Next]_vars
    PROVE  OneUpload'
<1>1. ASSUME NEW w \in Workers, Others(w), Effect(w) PROVE OneUpload'
  <2> DEFINE q == req[w]
             n == req'[w]
  <2>t. n.d \in Uploads => n.pc \in {"insert_bill", "link"}
    BY LocalsAfter, LocalKinds
  <2>1. n.d \in Uploads => n.d = q.d \/ \A v \in Workers \ {w} : req[v].d # n.d
    <3>1. CASE TakesUpload(w)
      BY <3>1 DEF TakesUpload
    <3>2. CASE InsertsBill(w)
      BY <3>2 DEF InsertsBill, Keeps
    <3>3. CASE OnBills(w) /\ ~TakesUpload(w) /\ ~InsertsBill(w)
      BY <2>t, <3>3 DEF OnBills, BeginsBill, TakesBill, SavesHeader, SavesLines, ReadsTotals,
         SavesBill, FindsRow, SavesApproval, LinksUpload, Arrives, Keeps, Answers, Idle,
         BillLabels, FormLabels
    <3>4. CASE OnPayments(w)
      BY <2>t, <3>4, OffBills
    <3>5. CASE Dies(w)
      BY <2>t, <3>5 DEF Dies, Idle
    <3> QED BY <1>1, <3>1, <3>2, <3>3, <3>4, <3>5 DEF Effect
  <2> QED BY <1>1, <2>1 DEF OneUpload, Others
<1>2. CASE UNCHANGED vars
  BY <1>2 DEF vars, OneUpload
<1> QED BY <1>1, <1>2, NextEffect

\* The step of a worker on one upload.
LEMMA UploadHere ==
    ASSUME TypeInv, TypeInv', BaseInv, OneUpload, OneUpload', NEW u \in Uploads, UploadAt(u),
           NEW w \in Workers, Others(w), Effect(w)
    PROVE  UploadAt(u)'
<1> DEFINE q == req[w]
           n == req'[w]
<1>t. /\ bill \in [Bills -> Bill] /\ upload \in [Uploads -> Bills \cup {0}]
      /\ q \in Local /\ n \in Local /\ aborts \in Nat
  BY LocalsBefore, LocalsAfter DEF TypeInv, TypeOK
<1>u. u # 0 /\ u # "form" /\ 0 \notin Bills
  BY PayablesAssumption DEF Bills
<1>k. /\ q.pc \in {"insert_bill", "link"} <=> q.d \in Uploads
      /\ n.pc \in {"insert_bill", "link"} <=> n.d \in Uploads
      /\ q.pc = "link" => q.b \in Bills
  BY <1>t, LocalKinds
<1>i. Idle.d = 0 /\ Idle.pc = "idle"
  BY DEF Idle
<1>c. Cardinality(MadeFrom(u)) \in Nat
  BY BillCount DEF MadeFrom
<1>1. CASE InsertsBill(w) /\ q.d = u
  <2>1. /\ n.b \in Bills /\ bill[n.b].st = "none" /\ n.d = u /\ n.pc = "link" /\ aborts' = aborts
        /\ upload' = upload
        /\ bill' = [bill EXCEPT ![n.b] = [st |-> "draft", total |-> q.amt, from |-> u]]
    BY <1>1 DEF InsertsBill, Keeps
  <2>2. n.b \notin MadeFrom(u) /\ MadeFrom(u)' = MadeFrom(u) \cup {n.b}
    BY <1>t, <1>u, <2>1 DEF MadeFrom, BaseInv, BillOK
  <2>3. Cardinality(MadeFrom(u)') = Cardinality(MadeFrom(u)) + 1
    <3>1. IsFiniteSet(MadeFrom(u))
      BY BillCount DEF MadeFrom
    <3> QED BY <2>2, <3>1, FS_AddElement
  <2>4. ~Linked(u)
    BY <1>1, <1>k DEF UploadAt, Linked, Linking, OneUpload, InsertsBill
  <2>5. Linked(u)'
    BY <2>1 DEF Linked, Linking
  <2>6. upload[u] = 0
    BY <1>1 DEF UploadAt
  <2> QED BY <1>t, <1>c, <2>1, <2>3, <2>4, <2>5, <2>6 DEF UploadAt
<1>2. CASE ~(InsertsBill(w) /\ q.d = u)
  <2>1. MadeFrom(u)' = MadeFrom(u)
    <3>1. \A b \in Bills : bill'[b].from # bill[b].from => bill'[b].from # u /\ bill[b].from # u
      <4>1. ASSUME NEW b \in Bills, bill'[b].from # bill[b].from
            PROVE  bill'[b].from # u /\ bill[b].from # u
        <5>1. InsertsBill(w) /\ b = n.b /\ bill'[b].from = q.d
          BY <4>1, BillsGrow
        <5>2. bill[b].from = "form"
          BY <5>1 DEF InsertsBill, BaseInv, BillOK
        <5> QED BY <1>u, <1>2, <5>1, <5>2
      <4> QED BY <4>1
    <3> QED BY <3>1 DEF MadeFrom
  <2>2. CASE LinksUpload(w) /\ q.d = u
    <3>1. Linked(u) /\ upload'[u] # 0 /\ aborts' = aborts /\ n.d = 0
      BY <1>t, <1>u, <1>k, <1>i, <2>2 DEF LinksUpload, Answers, Linked, Linking
    <3>2. \A v \in Workers : req'[v].d # u
      BY <1>u, <2>2, <3>1 DEF OneUpload, Others
    <3> QED BY <1>t, <1>c, <2>1, <3>1, <3>2 DEF UploadAt, Linked
  <2>3. CASE ~(LinksUpload(w) /\ q.d = u)
    <3>1. upload'[u] = upload[u]
      BY <1>t, <2>3 DEF Effect, OnBills, OnPayments, Dies, documents, BeginsBill, TakesBill,
         TakesUpload, SavesHeader, SavesLines, ReadsTotals, SavesBill, FindsRow, SavesApproval,
         InsertsBill, LinksUpload
    <3>2. upload[u] # 0 => n.d # u
      <4>1. ASSUME n.d = u PROVE n.d = q.d \/ upload[u] = 0
        <5>1. n.pc \in {"insert_bill", "link"}
          BY <1>k, <4>1
        <5> QED
          BY <1>i, <1>k, <3>1, <4>1, <5>1, OffBills
             DEF Effect, OnBills, Dies, BeginsBill, TakesBill, TakesUpload, SavesHeader,
             SavesLines, ReadsTotals, SavesBill, FindsRow, SavesApproval, InsertsBill, Keeps,
             LinksUpload, Answers, BillLabels, FormLabels
      <4> QED BY <4>1 DEF UploadAt
    <3>3. upload'[u] # 0 => \A v \in Workers : req'[v].d # u
      BY <3>1, <3>2 DEF UploadAt, Others
    <3>4. \/ Dies(w) /\ aborts' = aborts + 1
          \/ aborts' = aborts /\ (Linking(q, u) => Linking(n, u))
      <4>1. CASE Dies(w)
        BY <4>1 DEF Dies
      <4>2. CASE ~Dies(w)
        <5>1. aborts' = aborts
          BY <4>2, AbortsCounted
        <5>2. ~Linking(q, u)
          BY <2>3, <4>2, OffBills DEF Effect, OnBills, BeginsBill, TakesBill,
            TakesUpload, SavesHeader, SavesLines, ReadsTotals, SavesBill, FindsRow, SavesApproval,
            InsertsBill, LinksUpload, Arrives, Linking
        <5> QED BY <5>1, <5>2
      <4> QED BY <4>1, <4>2
    <3>5. aborts' = aborts => (Linked(u) => Linked(u)')
      BY <1>t, <3>1, <3>4 DEF Linked, Others
    <3>6. aborts' \in {aborts, aborts + 1}
      BY <3>4
    <3> QED BY <1>t, <1>c, <2>1, <3>3, <3>5, <3>6 DEF UploadAt
  <2> QED BY <2>2, <2>3
<1> QED BY <1>1, <1>2

LEMMA UploadStep ==
    ASSUME TypeInv, TypeInv', BaseInv, UploadInv, [Next]_vars
    PROVE  UploadInv'
<1> SUFFICES ASSUME Apart("upload") PROVE OneUpload' /\ \A u \in Uploads : UploadAt(u)'
  BY CareStays DEF UploadInv
<1>1. OneUpload'
  BY OneUploadStep DEF UploadInv
<1>2. ASSUME NEW w \in Workers, Others(w), Effect(w), NEW u \in Uploads PROVE UploadAt(u)'
  BY <1>1, <1>2, UploadHere DEF UploadInv
<1>3. ASSUME UNCHANGED vars, NEW u \in Uploads PROVE UploadAt(u)'
  BY <1>3 DEF vars, UploadInv, UploadAt, MadeFrom, Linked, Linking
<1> QED BY <1>1, <1>2, <1>3, NextEffect

LEMMA UploadsMadeOnce == Spec => []UploadedOnce
<1>1. ASSUME Init PROVE UploadInv
  <2>1. ASSUME NEW u \in Uploads PROVE MadeFrom(u) = {}
    BY <1>1, PayablesAssumption DEF Init, MadeFrom, NoBill
  <2>2. ASSUME NEW u \in Uploads PROVE UploadAt(u)
    BY <1>1, <2>1, FS_EmptySet, SMTT(30) DEF Init, UploadAt
  <2>3. OneUpload
    BY <1>1, PayablesAssumption DEF Init, OneUpload, Idle
  <2> QED BY <2>2, <2>3 DEF UploadInv
<1>2. TypeInv /\ TypeInv' /\ BaseInv /\ UploadInv /\ [Next]_vars => UploadInv'
  BY UploadStep
<1>3. TypeInv /\ UploadInv => UploadedOnce
  <2> SUFFICES ASSUME TypeInv, UploadInv, Apart("upload"), NEW u \in Uploads
               PROVE  Cardinality({b \in Bills : bill[b].from = u}) <= 1 + aborts
    BY DEF UploadedOnce
  <2>1. aborts \in Nat /\ Cardinality(MadeFrom(u)) \in Nat
    BY BillCount DEF TypeInv, TypeOK, MadeFrom
  <2>2. Cardinality(MadeFrom(u)) <= aborts + (IF Linked(u) THEN 1 ELSE 0)
    BY DEF UploadInv, UploadAt
  <2>3. Cardinality(MadeFrom(u)) <= 1 + aborts
    BY <2>1, <2>2
  <2> QED BY <2>3 DEF MadeFrom
<1> QED BY <1>1, <1>2, <1>3, TypesHold, BaseHolds, PTL DEF Spec


-----------------------------------------------------------------------------
(* Executed schedules.  A payment belongs to the request that inserted it until   *)
(* its allocations are written, and a schedule is saved after them.                *)

Owners ==
    \A u, v \in Workers :
        u # v /\ req[u].pc = "allocate" /\ req[v].pc \in {"allocate", "save_schedule"}
            => req[u].p # req[v].p

\* What a request that pays knows of its payment and of the amounts it still owes.
PayOK(q) ==
    /\ q.pc = "allocate" => pay[q.p] = SourceOf(q)
    /\ q.pc = "allocate" /\ q.op = "process" => alloc[q.p] = NoBills
    /\ q.pc \in PayLabels /\ q.op = "execute" =>
          /\ q.row.b \in Bills /\ q.row.amt > 0
          /\ q.due = [NoBills EXCEPT ![q.row.b] = q.row.amt]
    /\ q.pc = "save_schedule" /\ q.op = "execute" =>
          q.p \in Payments /\ pay[q.p] = q.d /\ alloc[q.p][q.row.b] = q.row.amt
    /\ q.op = "cancel" => q.p = 0

ScheduleOK(s) ==
    LET k == sched[s] IN
    /\ k.st = "scheduled" => k.b \in Bills /\ k.amt > 0
    /\ k.st = "executed" =>
          /\ k.p \in Payments /\ pay[k.p] = s /\ alloc[k.p][k.b] = k.amt
          /\ \A w \in Workers : req[w].pc = "allocate" => req[w].p # k.p

PayInv ==
    /\ Owners
    /\ \A w \in Workers : PayOK(req[w])
    /\ \A s \in Schedules : ScheduleOK(s)
    /\ \A p \in Payments : pay[p] = "none" => alloc[p] = NoBills

LEMMA PayTables ==
    ASSUME NEW w \in Workers, Effect(w)
    PROVE  /\ UNCHANGED <<pay, alloc>> \/ Inserts(w) \/ Allocates(w)
           /\ sched' = sched \/ MakesSchedule(w) \/ SavesSchedule(w)
           /\ batch' = batch \/ MakesBatch(w) \/ Counts(w) \/ SavesBatch(w)
  BY DEF Effect, OnBills, OnPayments, Dies, payments, documents, TakesPayment, MakesBatch,
     TakesBatch, MakesSchedule, TakesSchedule, Numbers, Inserts, Allocates, Counts, Looks,
     Selects, SavesBatch, Responds, SavesSchedule

\* Every payment has a source.
LEMMA SourceKnown ==
    ASSUME NEW q \in Local, q.pc \in PayLabels
    PROVE  SourceOf(q) # "none"
<1>1. q.op = "create_payment" \/ q.d \in Batches \/ q.d \in Schedules
  BY LocalKinds
<1> QED BY <1>1, PayablesAssumption DEF SourceOf

\* What happens to the payments of the other requests, and to those already made.
LEMMA PaymentsStay ==
    ASSUME TypeInv, PayInv, NEW w \in Workers, Effect(w), NEW p \in Payments
    PROVE  /\ pay[p] # "none" => pay'[p] = pay[p]
           /\ ~(req[w].pc = "allocate" /\ req[w].p = p) => alloc'[p] = alloc[p]
           /\ pay'[p] # pay[p] => Inserts(w) /\ req[w].p = p
<1>1. pay \in [Payments -> {"none", "form"} \cup Batches \cup Schedules]
         /\ alloc \in [Payments -> [Bills -> Nat]]
  BY DEF TypeInv, TypeOK
<1> QED BY <1>1, PayTables DEF Inserts, Allocates

LEMMA PayNext ==
    ASSUME TypeInv, TypeInv', PayInv, NEW w \in Workers, Others(w), Effect(w)
    PROVE  PayOK(req[w])'
<1> USE DEF PayLabels
<1> DEFINE q == req[w]
           n == req'[w]
<1>t. /\ pay \in [Payments -> {"none", "form"} \cup Batches \cup Schedules]
      /\ alloc \in [Payments -> [Bills -> Nat]]
      /\ sched \in [Schedules -> Schedule] /\ q \in Local /\ n \in Local
  BY LocalsBefore, LocalsAfter DEF TypeInv, TypeOK
<1>q. PayOK(q)
  BY DEF PayInv
<1>k. q.pc \in {"insert", "allocate"} => q.p \in Payments
  BY <1>t, LocalKinds
<1>1. CASE TakesSchedule(w)
  <2>1. n.row.b \in Bills /\ n.row.amt > 0
    BY <1>1 DEF TakesSchedule, PayInv, ScheduleOK
  <2> QED BY <1>1, <2>1 DEF TakesSchedule, PayOK
<1>2. CASE Numbers(w)
  BY <1>q, <1>2, <1>t, LocalKinds DEF Numbers, Keeps, PayOK
<1>3. CASE Inserts(w)
  <2>1. /\ n.pc = "allocate" /\ n.op = q.op /\ n.d = q.d /\ n.p = q.p /\ n.row = q.row
        /\ n.due = q.due /\ q.pc = "insert" /\ SourceOf(n) = SourceOf(q)
    BY <1>3 DEF Inserts, Keeps, SourceOf
  <2>2. pay'[n.p] = SourceOf(n) /\ alloc'[n.p] = NoBills
    BY <1>t, <1>k, <1>3, <2>1 DEF Inserts, PayInv
  <2>3. n.op # "cancel"
    BY <1>t, <2>1, LocalKinds
  <2> QED BY <1>q, <2>1, <2>2, <2>3 DEF PayOK
<1>4. CASE Allocates(w)
  <2>0. q.pc = "allocate" /\ pay' = pay /\ q.p \in Payments
    BY <1>k, <1>4 DEF Allocates
  <2>1. PICK b \in Bills :
           /\ q.due[b] > 0
           /\ alloc' = [alloc EXCEPT ![q.p][b] = q.due[b]]
           /\ \/ q.op = "create_payment" /\ Answers(w)
              \/ /\ Keeps(w) /\ n.p = q.p
                 /\ n.pc = AfterAllocation(w, n.due)
    BY <1>4 DEF Allocates
  <2>2. CASE Answers(w)
    BY <2>2 DEF Answers, Idle, PayOK
  <2>3. CASE Keeps(w) /\ n.p = q.p /\ n.pc = AfterAllocation(w, n.due)
    <3>1. n.op = q.op /\ n.d = q.d /\ n.row = q.row /\ n.op # "cancel"
      BY <1>t, <2>0, <2>3, LocalKinds DEF Keeps
    <3>2. CASE q.op = "execute"
      <4>1. n.pc = "save_schedule" /\ pay[q.p] = q.d
        BY <1>q, <2>0, <2>3, <3>2 DEF AfterAllocation, PayOK, SourceOf
      <4>2. b = q.row.b /\ q.due[b] = q.row.amt
        BY <1>q, <2>0, <2>1, <3>2 DEF PayOK, NoBills
      <4>3. alloc'[q.p][q.row.b] = q.row.amt
        BY <1>t, <2>0, <2>1, <4>2
      <4> QED BY <2>0, <2>3, <3>1, <4>1, <4>3 DEF PayOK
    <3>3. CASE q.op # "execute"
      <4>1. n.pc \in {"save_batch", "number", "allocate"}
               /\ (n.pc = "allocate" => q.op # "process")
        BY <2>3, <3>3 DEF AfterAllocation
      <4> QED BY <1>q, <2>0, <2>3, <3>1, <3>3, <4>1 DEF PayOK, SourceOf
    <3> QED BY <3>2, <3>3
  <2> QED BY <2>1, <2>2, <2>3
<1>5. CASE MakesSchedule(w)
  BY <1>q, <1>5 DEF MakesSchedule, PayOK
<1>6. CASE n.op # "cancel" /\ n.pc \notin PayLabels \cup {"save_schedule"}
  BY <1>6 DEF PayOK
<1>7. CASE OnBills(w)
  <2>1. n.pc \in BillLabels \cup {"idle", "insert_bill", "link"}
    BY <1>7, OffPayments
  <2>2. n.d \notin Schedules
    BY <1>t, <2>1, LocalKinds, PayablesAssumption
  <2> QED BY <1>t, <1>6, <2>1, <2>2, LocalKinds DEF BillLabels, FormLabels
<1>8. CASE n = Idle
  BY <1>6, <1>8 DEF Idle
<1>9. CASE n.op = "create_payment" /\ n.pc = "number"
  BY <1>9 DEF PayOK
<1>10. CASE Selects(w)
  <2>1. n.op = "process" /\ n.pc \notin {"allocate", "save_schedule"}
    BY <1>10, <1>t, LocalKinds DEF Selects, Keeps
  <2> QED BY <2>1 DEF PayOK
<1>11. CASE MakesBatch(w) \/ TakesBatch(w) \/ Counts(w) \/ Looks(w) \/ SavesBatch(w)
  <2>1. n.pc \in {"count", "eligible", "select", "respond"} \/ n = Idle
    BY <1>11 DEF MakesBatch, TakesBatch, Counts, Looks, SavesBatch, Answers
  <2> QED BY <1>6, <1>8, <1>t, <2>1, LocalKinds
<1> QED BY <1>1, <1>2, <1>3, <1>4, <1>5, <1>7, <1>8, <1>9, <1>10, <1>11
        DEF Effect, OnPayments, Dies, TakesPayment, Responds, SavesSchedule, Answers


LEMMA OwnersNext ==
    ASSUME TypeInv, TypeInv', PayInv, NEW w \in Workers, Others(w), Effect(w)
    PROVE  Owners'
<1> USE DEF PayLabels
<1> DEFINE q == req[w]
           n == req'[w]
<1>t. q \in Local /\ n \in Local /\ 0 \notin Payments
  BY LocalsBefore, LocalsAfter DEF Payments
<1>o. \A v \in Workers \ {w} : req'[v] = req[v] /\ req[v] \in Local /\ PayOK(req[v])
  BY LocalsBefore DEF Others, PayInv
<1>1. n.pc = "allocate" =>
         \/ q.pc = "allocate" /\ n.p = q.p
         \/ n.p \in Payments /\ pay[n.p] = "none"
  <2>1. CASE Inserts(w)
    BY <1>t, <2>1, LocalKinds DEF Inserts
  <2>2. CASE Allocates(w)
    BY <2>2 DEF Allocates, Answers, Idle
  <2>3. CASE ~Inserts(w) /\ ~Allocates(w)
    BY <2>3, OffPayments DEF Effect, OnPayments, Dies, TakesPayment, MakesBatch, TakesBatch,
       MakesSchedule, TakesSchedule, Numbers, Counts, Looks, Selects, SavesBatch, Responds,
       SavesSchedule, Answers, Idle, BillLabels, FormLabels
  <2> QED BY <2>1, <2>2, <2>3
<1>2. n.pc = "save_schedule" => (q.pc = "allocate" /\ n.p = q.p) \/ n.p = 0
  <2>1. CASE TakesSchedule(w)
    BY <2>1 DEF TakesSchedule
  <2>2. CASE Allocates(w)
    BY <2>2 DEF Allocates, Answers, Idle
  <2>3. CASE ~TakesSchedule(w) /\ ~Allocates(w)
    BY <2>3, OffPayments DEF Effect, OnPayments, Dies, TakesPayment, MakesBatch, TakesBatch,
       MakesSchedule, Numbers, Inserts, Counts, Looks, Selects, SavesBatch, Responds,
       SavesSchedule, Answers, Idle, BillLabels, FormLabels
  <2> QED BY <2>1, <2>2, <2>3
<1>3. ASSUME NEW v \in Workers \ {w}, req[v].pc \in {"allocate", "save_schedule"}
      PROVE  req[v].p = 0 \/ (req[v].p \in Payments /\ pay[req[v].p] # "none")
  <2>1. req[v] \in Local /\ PayOK(req[v])
    BY <1>o
  <2>2. CASE req[v].pc = "allocate"
    BY <2>1, <2>2, LocalKinds, SourceKnown DEF PayOK
  <2>3. CASE req[v].pc = "save_schedule"
    BY <2>1, <2>3, LocalKinds, PayablesAssumption DEF PayOK
  <2> QED BY <1>3, <2>2, <2>3
<1>4. ASSUME NEW v \in Workers \ {w}, n.pc = "allocate",
             req[v].pc \in {"allocate", "save_schedule"}
      PROVE  n.p # req[v].p
  BY <1>t, <1>1, <1>3, <1>4 DEF PayInv, Owners
<1>5. ASSUME NEW v \in Workers \ {w}, n.pc \in {"allocate", "save_schedule"},
             req[v].pc = "allocate"
      PROVE  n.p # req[v].p
  <2>1. req[v].p \in Payments
    BY <1>o, <1>5, LocalKinds
  <2> QED BY <1>t, <1>1, <1>2, <1>3, <1>5, <2>1 DEF PayInv, Owners
<1>6. Owners
  BY DEF PayInv
<1> QED BY <1>o, <1>4, <1>5, <1>6 DEF Owners

LEMMA ScheduleNext ==
    ASSUME TypeInv, TypeInv', PayInv, NEW w \in Workers, Others(w), Effect(w),
           NEW s \in Schedules
    PROVE  ScheduleOK(s)'
<1> USE DEF PayLabels
<1> DEFINE q == req[w]
           n == req'[w]
           k == sched[s]
<1>t. sched \in [Schedules -> Schedule] /\ q \in Local /\ n \in Local /\ PayOK(q)
  BY LocalsBefore, LocalsAfter DEF TypeInv, TypeOK, PayInv
<1>1. CASE sched'[s] = k
  <2>1. CASE k.st = "executed"
    <3>1. /\ k.p \in Payments /\ pay[k.p] = s /\ alloc[k.p][k.b] = k.amt
          /\ \A v \in Workers : req[v].pc = "allocate" => req[v].p # k.p
      BY <2>1 DEF PayInv, ScheduleOK
    <3>2. s # "none"
      BY PayablesAssumption
    <3>3. pay'[k.p] = s /\ alloc'[k.p] = alloc[k.p]
      BY <3>1, <3>2, PaymentsStay
    <3>4. n.pc = "allocate" => n.p # k.p
      <4>1. CASE Inserts(w)
        BY <3>1, <3>2, <4>1 DEF Inserts
      <4>2. CASE Allocates(w)
        BY <3>1, <4>2 DEF Allocates, Answers, Idle
      <4>3. CASE ~Inserts(w) /\ ~Allocates(w)
        BY <4>3, OffPayments DEF Effect, OnPayments, Dies, TakesPayment, MakesBatch,
           TakesBatch, MakesSchedule, TakesSchedule, Numbers, Counts, Looks, Selects,
           SavesBatch, Responds, SavesSchedule, Answers, Idle, BillLabels, FormLabels
      <4> QED BY <4>1, <4>2, <4>3
    <3> QED BY <1>1, <2>1, <3>1, <3>3, <3>4 DEF ScheduleOK, Others
  <2>2. CASE k.st # "executed"
    BY <1>1, <2>2 DEF PayInv, ScheduleOK
  <2> QED BY <2>1, <2>2
<1>2. CASE MakesSchedule(w) /\ sched'[s] # k
  <2>1. PICK c \in Schedules, b \in Bills, a \in Totals :
           sched' = [sched EXCEPT ![c] = [st |-> "scheduled", b |-> b, amt |-> a, p |-> 0]]
    BY <1>2, Zenon DEF MakesSchedule
  <2>2. sched'[s] = [st |-> "scheduled", b |-> b, amt |-> a, p |-> 0]
    BY <1>t, <1>2, <2>1
  <2>3. a \in Nat \ {0}
    BY PayablesAssumption
  <2> QED BY <2>2, <2>3 DEF ScheduleOK
<1>3. CASE SavesSchedule(w) /\ sched'[s] # k
  <2>1. /\ s = q.d /\ q.pc = "save_schedule" /\ n = Idle /\ pay' = pay /\ alloc' = alloc
        /\ sched'[s] = IF q.op = "execute" THEN [q.row EXCEPT !.st = "executed", !.p = q.p]
                       ELSE [q.row EXCEPT !.st = "cancelled"]
    BY <1>t, <1>3 DEF SavesSchedule, Answers, payments
  <2>2. q.row \in Schedule
    BY LocalTypes
  <2>3. CASE q.op = "execute"
    <3>1. /\ sched'[s].st = "executed" /\ sched'[s].p = q.p /\ sched'[s].b = q.row.b
          /\ sched'[s].amt = q.row.amt
      BY <2>1, <2>2, <2>3 DEF Schedule
    <3>2. q.p \in Payments /\ pay[q.p] = s /\ alloc[q.p][q.row.b] = q.row.amt
      BY <1>t, <2>1, <2>3 DEF PayOK
    <3>3. \A v \in Workers \ {w} : req[v].pc = "allocate" => req[v].p # q.p
      BY <2>1 DEF PayInv, Owners
    <3> QED BY <2>1, <3>1, <3>2, <3>3 DEF ScheduleOK, Others, Idle
  <2>4. CASE q.op # "execute"
    BY <2>1, <2>2, <2>4 DEF ScheduleOK, Schedule
  <2> QED BY <2>3, <2>4
<1> QED BY <1>1, <1>2, <1>3, PayTables

LEMMA PayStep ==
    ASSUME TypeInv, TypeInv', PayInv, [Next]_vars
    PROVE  PayInv'
<1>1. ASSUME NEW w \in Workers, Others(w), Effect(w) PROVE PayInv'
  <2>1. ASSUME NEW v \in Workers \ {w} PROVE PayOK(req[v])'
    <3> DEFINE q == req[v]
    <3>0. req'[v] = q /\ q \in Local /\ PayOK(q)
      BY <1>1, LocalsBefore DEF Others, PayInv
    <3>1. CASE q.pc = "allocate"
      <4>1. q.p \in Payments /\ pay[q.p] # "none"
        BY <3>0, <3>1, LocalKinds, SourceKnown DEF PayOK, PayLabels
      <4>2. ~(req[w].pc = "allocate" /\ req[w].p = q.p)
        BY <3>1 DEF PayInv, Owners
      <4>3. pay'[q.p] = pay[q.p] /\ alloc'[q.p] = alloc[q.p]
        BY <1>1, <4>1, <4>2, PaymentsStay
      <4> QED BY <3>0, <3>1, <4>3 DEF PayOK
    <3>2. CASE q.pc = "save_schedule" /\ q.op = "execute"
      <4>1. q.p \in Payments /\ pay[q.p] # "none"
        BY <3>0, <3>2, LocalKinds, PayablesAssumption DEF PayOK
      <4>2. ~(req[w].pc = "allocate" /\ req[w].p = q.p)
        BY <3>2 DEF PayInv, Owners
      <4>3. pay'[q.p] = pay[q.p] /\ alloc'[q.p] = alloc[q.p]
        BY <1>1, <4>1, <4>2, PaymentsStay
      <4> QED BY <3>0, <3>2, <4>3 DEF PayOK, PayLabels
    <3>3. CASE q.pc # "allocate" /\ ~(q.pc = "save_schedule" /\ q.op = "execute")
      BY <3>0, <3>3 DEF PayOK
    <3> QED BY <3>1, <3>2, <3>3
  <2>2. ASSUME NEW p \in Payments, pay'[p] = "none" PROVE alloc'[p] = NoBills
    <3>1. pay[p] = "none" /\ alloc[p] = NoBills
      BY <1>1, <2>2, PaymentsStay DEF PayInv
    <3>2. ~(req[w].pc = "allocate" /\ req[w].p = p)
      <4>1. req[w] \in Local /\ PayOK(req[w])
        BY LocalsBefore DEF PayInv
      <4> QED BY <3>1, <4>1, SourceKnown DEF PayOK, PayLabels
    <3> QED BY <1>1, <3>1, <3>2, PaymentsStay
  <2>3. \A v \in Workers : PayOK(req[v])'
    BY <1>1, <2>1, PayNext
  <2>4. Owners' /\ \A s \in Schedules : ScheduleOK(s)'
    BY <1>1, OwnersNext, ScheduleNext
  <2> QED BY <2>2, <2>3, <2>4 DEF PayInv
<1>2. CASE UNCHANGED vars
  BY <1>2 DEF vars, PayInv, Owners, PayOK, ScheduleOK
<1> QED BY <1>1, <1>2, NextEffect

LEMMA PayHolds == Spec => []PayInv
<1>1. Init => PayInv
  BY DEF Init, PayInv, Owners, PayOK, ScheduleOK, PayLabels, Idle, NoSchedule
<1>2. TypeInv /\ TypeInv' /\ PayInv /\ [Next]_vars => PayInv'
  BY PayStep
<1> QED BY <1>1, <1>2, TypesHold, PTL DEF Spec

\* An executed schedule points to a payment of its own that pays its amount on its bill:
\* schedule_execute saves the schedule last, so that no overlap and no request that ends
\* half-way can leave one that says it is paid and is not.
THEOREM ExecutedSchedulesArePaid == Spec => []ExecutedIsPaid
<1>1. PayInv => ExecutedIsPaid
  <2>1. 0 \notin Payments
    BY DEF Payments
  <2> QED BY <2>1 DEF PayInv, ScheduleOK, ExecutedIsPaid
<1> QED BY <1>1, PayHolds, PTL


-----------------------------------------------------------------------------
(* Schedules.  While nothing ends half-way, a payment made from a schedule is the *)
(* one its request is going to save, or the one it has saved.                     *)

OneSchedule == \A u, v \in Workers : u # v /\ req[u].d \in Schedules => req[u].d # req[v].d

ScheduledAt(s) ==
    /\ \A w \in Workers : req[w].d = s =>
          /\ sched[s].st = "scheduled"
          /\ \A p \in Payments : pay[p] = s =>
                /\ req[w].op = "execute" /\ req[w].pc \in {"allocate", "save_schedule"}
                /\ p = req[w].p
    /\ (\A w \in Workers : req[w].d # s) =>
          \A p \in Payments : pay[p] = s => sched[s].st = "executed" /\ sched[s].p = p

ScheduledInv ==
    Apart("schedule") => OneSchedule /\ (aborts = 0 => \A s \in Schedules : ScheduledAt(s))

LEMMA OnSchedule ==
    ASSUME NEW q \in Local, q.d \in Schedules
    PROVE  /\ q.pc \in PayLabels \cup {"save_schedule"}
           /\ q.pc \in PayLabels => q.op = "execute"
<1>1. Placed(q) /\ q \in Request
  BY DEF Local
<1> QED BY <1>1, PayablesAssumption
        DEF Placed, Request, Labels, OpsAt, DocsOf, FormLabels, BillLabels, PayLabels, FormOps,
        BillOps, PayingOps, WorkflowOps, Decisions

\* How a worker comes to be on a schedule, and leaves it.
LEMMA ScheduleTaken ==
    ASSUME TypeInv, TypeInv', NEW w \in Workers, Effect(w)
    PROVE  /\ req'[w].d \in Schedules => req'[w].d = req[w].d \/ TakesSchedule(w)
           /\ req[w].d \in Schedules /\ ~Dies(w) =>
                 Numbers(w) \/ Inserts(w) \/ Allocates(w) \/ SavesSchedule(w)
           /\ TakesSchedule(w) \/ MakesSchedule(w) => req[w].d \notin Schedules
<1> USE DEF PayLabels
<1> DEFINE q == req[w]
           n == req'[w]
<1>t. q \in Local /\ n \in Local /\ 0 \notin Schedules
  BY LocalsBefore, LocalsAfter, PayablesAssumption
<1>1. n.d \in Schedules => n.pc \in PayLabels \cup {"save_schedule"}
  BY <1>t, OnSchedule
<1>2. q.d \in Schedules => q.pc \in PayLabels \cup {"save_schedule"}
  BY <1>t, OnSchedule
<1>3. n.d \in Schedules => n.d = q.d \/ TakesSchedule(w)
  <2>1. n.op = "create_payment" => n.d = 0
    BY <1>t, LocalKinds
  <2>2. CASE OnBills(w)
    BY <1>1, <2>2, OffPayments DEF BillLabels, FormLabels
  <2>3. CASE n.d = q.d \/ n = Idle
    BY <1>t, <2>3 DEF Idle
  <2>4. CASE MakesBatch(w) \/ TakesBatch(w)
    BY <1>1, <2>4 DEF MakesBatch, TakesBatch
  <2> QED BY <1>t, <2>1, <2>2, <2>3, <2>4
          DEF Effect, OnPayments, Dies, TakesPayment, MakesSchedule, Numbers, Inserts,
          Allocates, Counts, Looks, Selects, SavesBatch, Responds, SavesSchedule, Answers, Keeps
<1>4. ASSUME q.d \in Schedules, ~Dies(w)
      PROVE  Numbers(w) \/ Inserts(w) \/ Allocates(w) \/ SavesSchedule(w)
  BY <1>2, <1>4, OffPayments DEF Effect, OnPayments, TakesPayment, MakesBatch, TakesBatch,
     MakesSchedule, TakesSchedule, Counts, Looks, Selects, SavesBatch, Responds, Arrives,
     BillLabels, FormLabels
<1>5. TakesSchedule(w) \/ MakesSchedule(w) => q.d \notin Schedules
  BY <1>2 DEF TakesSchedule, MakesSchedule, Arrives
<1> QED BY <1>3, <1>4, <1>5

LEMMA OneScheduleStep ==
    ASSUME Apart("schedule"), TypeInv, TypeInv', OneSchedule, [Next]_vars
    PROVE  OneSchedule'
<1>1. ASSUME NEW w \in Workers, Others(w), Effect(w) PROVE OneSchedule'
  <2> DEFINE q == req[w]
             n == req'[w]
  <2>1. n.d \in Schedules => n.d = q.d \/ \A v \in Workers \ {w} : req[v].d # n.d
    BY <1>1, ScheduleTaken DEF TakesSchedule
  <2> QED BY <1>1, <2>1 DEF OneSchedule, Others
<1>2. CASE UNCHANGED vars
  BY <1>2 DEF vars, OneSchedule
<1> QED BY <1>1, <1>2, NextEffect

\* The step of the worker that is on schedule s, or takes it.
LEMMA ScheduledHere ==
    ASSUME TypeInv, TypeInv', PayInv, OneSchedule, OneSchedule',
           NEW s \in Schedules, ScheduledAt(s), NEW w \in Workers, Others(w), Effect(w),
           ~Dies(w), req[w].d = s \/ req'[w].d = s
    PROVE  ScheduledAt(s)'
<1> DEFINE q == req[w]
           n == req'[w]
<1>t. /\ sched \in [Schedules -> Schedule]
      /\ pay \in [Payments -> {"none", "form"} \cup Batches \cup Schedules]
      /\ q \in Local /\ n \in Local /\ q.row \in Schedule /\ s # 0 /\ s # "none"
  BY LocalsBefore, LocalsAfter, LocalTypes, PayablesAssumption DEF TypeInv, TypeOK
<1>1. \A v \in Workers \ {w} : req'[v].d # s /\ req[v].d # s
  BY DEF OneSchedule, Others
<1>2. CASE TakesSchedule(w)
  <2>1. /\ n.d = s /\ sched' = sched /\ pay' = pay /\ sched[s].st = "scheduled"
        /\ \A v \in Workers : req[v].d # s
    BY <1>1, <1>2, ScheduleTaken DEF TakesSchedule, payments
  <2>2. \A p \in Payments : pay[p] # s
    BY <2>1 DEF ScheduledAt
  <2> QED BY <1>1, <2>1, <2>2 DEF ScheduledAt
<1>3. CASE ~TakesSchedule(w)
  <2>0. q.d = s /\ (Numbers(w) \/ Inserts(w) \/ Allocates(w) \/ SavesSchedule(w))
    BY <1>3, ScheduleTaken
  <2>q. /\ sched[s].st = "scheduled"
        /\ \A p \in Payments : pay[p] = s =>
              q.op = "execute" /\ q.pc \in {"allocate", "save_schedule"} /\ p = q.p
    BY <2>0 DEF ScheduledAt
  <2>1. CASE Numbers(w)
    <3>1. n.d = s /\ sched' = sched /\ pay' = pay /\ q.pc = "number"
      BY <2>0, <2>1 DEF Numbers, Keeps, payments
    <3> QED BY <1>1, <2>q, <3>1 DEF ScheduledAt
  <2>2. CASE Inserts(w)
    <3>1. /\ n.d = s /\ n.op = q.op /\ n.p = q.p /\ n.pc = "allocate" /\ q.pc = "insert"
          /\ sched' = sched /\ pay' = [pay EXCEPT ![q.p] = SourceOf(q)]
      BY <2>0, <2>2 DEF Inserts, Keeps
    <3>2. q.op = "execute"
      BY <1>t, <2>0, <3>1, OnSchedule DEF PayLabels
    <3>3. \A p \in Payments : pay'[p] = s => p = q.p
      BY <1>t, <2>q, <3>1
    <3> QED BY <1>1, <2>q, <3>1, <3>2, <3>3 DEF ScheduledAt
  <2>3. CASE Allocates(w)
    <3>1. q.pc = "allocate" /\ pay' = pay /\ sched' = sched
      BY <2>3 DEF Allocates
    <3>2. q.op = "execute"
      BY <1>t, <2>0, <3>1, OnSchedule DEF PayLabels
    <3>3. Keeps(w) /\ n.p = q.p /\ n.pc = AfterAllocation(w, n.due)
      BY <2>3, <3>2 DEF Allocates
    <3>4. n.d = s /\ n.op = "execute" /\ n.pc = "save_schedule"
      BY <2>0, <3>2, <3>3 DEF Keeps, AfterAllocation
    <3> QED BY <1>1, <2>q, <3>1, <3>3, <3>4 DEF ScheduledAt
  <2>4. CASE SavesSchedule(w)
    <3>1. /\ pay' = pay /\ n.d = 0
          /\ sched'[s] = IF q.op = "execute" THEN [q.row EXCEPT !.st = "executed", !.p = q.p]
                         ELSE [q.row EXCEPT !.st = "cancelled"]
      BY <1>t, <2>0, <2>4 DEF SavesSchedule, Answers, payments, Idle
    <3>2. \A v \in Workers : req'[v].d # s
      BY <1>t, <1>1, <3>1
    <3>3. \A p \in Payments : pay'[p] = s => sched'[s].st = "executed" /\ sched'[s].p = p
      BY <1>t, <2>q, <3>1 DEF Schedule
    <3> QED BY <3>2, <3>3 DEF ScheduledAt
  <2> QED BY <2>0, <2>1, <2>2, <2>3, <2>4
<1> QED BY <1>2, <1>3

\* The step of any other worker.
LEMMA ScheduledElsewhere ==
    ASSUME TypeInv, TypeInv', PayInv, NEW s \in Schedules, ScheduledAt(s),
           NEW w \in Workers, Others(w), Effect(w), req[w].d # s, req'[w].d # s
    PROVE  ScheduledAt(s)'
<1> DEFINE q == req[w]
           n == req'[w]
<1>t. sched \in [Schedules -> Schedule] /\ q \in Local /\ s # "form"
  BY LocalsBefore, PayablesAssumption DEF TypeInv, TypeOK
<1>1. ASSUME NEW p \in Payments, pay'[p] = s PROVE pay[p] = s
  <2>1. CASE pay'[p] = pay[p]
    BY <1>1, <2>1
  <2>2. CASE pay'[p] # pay[p]
    <3>1. Inserts(w) /\ q.p = p
      BY <2>2, PaymentsStay
    <3>2. pay'[p] = SourceOf(q)
      BY <1>1, <3>1 DEF Inserts, TypeInv, TypeOK
    <3> QED BY <1>t, <1>1, <3>2 DEF SourceOf
  <2> QED BY <2>1, <2>2
<1>2. sched'[s] = sched[s] \/ sched[s].st = "none"
  <2>1. CASE MakesSchedule(w)
    BY <1>t, <2>1 DEF MakesSchedule
  <2>2. CASE SavesSchedule(w)
    BY <1>t, <2>2 DEF SavesSchedule
  <2> QED BY <2>1, <2>2, PayTables
<1>3. CASE sched'[s] = sched[s]
  <2>1. \A v \in Workers : req'[v].d = s => v # w /\ req'[v] = req[v]
    BY DEF Others
  <2>2. (\A v \in Workers : req'[v].d # s) => \A v \in Workers : req[v].d # s
    BY DEF Others
  <2> QED BY <1>1, <1>3, <2>1, <2>2 DEF ScheduledAt
<1>4. CASE sched[s].st = "none"
  <2>1. \A v \in Workers : req[v].d # s
    BY <1>4 DEF ScheduledAt
  <2>2. \A p \in Payments : pay[p] # s
    BY <1>4, <2>1 DEF ScheduledAt
  <2>3. \A v \in Workers : req'[v].d # s
    BY <2>1 DEF Others
  <2> QED BY <1>1, <2>2, <2>3 DEF ScheduledAt
<1> QED BY <1>2, <1>3, <1>4

LEMMA ScheduledStep ==
    ASSUME TypeInv, TypeInv', PayInv, ScheduledInv, [Next]_vars
    PROVE  ScheduledInv'
<1> SUFFICES ASSUME Apart("schedule")
             PROVE  OneSchedule' /\ (aborts' = 0 => \A s \in Schedules : ScheduledAt(s)')
  BY CareStays DEF ScheduledInv
<1>1. OneSchedule /\ OneSchedule'
  BY OneScheduleStep DEF ScheduledInv
<1>2. ASSUME NEW w \in Workers, Others(w), Effect(w), aborts' = 0, NEW s \in Schedules
      PROVE  ScheduledAt(s)'
  <2>1. ~Dies(w) /\ aborts = 0
    BY <1>2, AbortsCounted DEF Dies, TypeInv, TypeOK
  <2>2. ScheduledAt(s)
    BY <2>1 DEF ScheduledInv
  <2> QED BY <1>1, <1>2, <2>1, <2>2, ScheduledHere, ScheduledElsewhere
<1>3. ASSUME UNCHANGED vars, aborts' = 0, NEW s \in Schedules PROVE ScheduledAt(s)'
  BY <1>3 DEF vars, ScheduledInv, ScheduledAt
<1> QED BY <1>1, <1>2, <1>3, NextEffect

LEMMA SchedulesPaidOnce == Spec => []ScheduledOnce
<1>1. Init => ScheduledInv
  BY PayablesAssumption DEF Init, ScheduledInv, OneSchedule, ScheduledAt, Idle
<1>2. TypeInv /\ TypeInv' /\ PayInv /\ ScheduledInv /\ [Next]_vars => ScheduledInv'
  BY ScheduledStep
<1>3. ScheduledInv => ScheduledOnce
  BY DEF ScheduledInv, ScheduledAt, ScheduledOnce
<1> QED BY <1>1, <1>2, <1>3, TypesHold, PayHolds, PTL DEF Spec

\* Nothing is made twice from one schedule or one uploaded document that is worked on in
\* one place at a time, whatever overlaps otherwise, except by requests that end half-way.
THEOREM DocumentsMadeOnce == Spec => []MadeOnce
<1>1. ScheduledOnce /\ UploadedOnce => MadeOnce
  BY DEF MadeOnce
<1> QED BY <1>1, SchedulesPaidOnce, UploadsMadeOnce, PTL


-----------------------------------------------------------------------------
(* The selection of a draft batch.  Every request of the session carries a copy of  *)
(* it from its arrival and writes the copy back with its response, from any tab.    *)

LEMMA OnBatch ==
    ASSUME NEW q \in Local, q.d \in Batches
    PROVE  /\ q.pc \in PayLabels \cup {"count", "eligible", "select", "save_batch", "respond"}
           /\ q.pc \in PayLabels => q.op = "process"
<1>1. Placed(q) /\ q \in Request
  BY DEF Local
<1> QED BY <1>1, PayablesAssumption
        DEF Placed, Request, Labels, OpsAt, DocsOf, FormLabels, BillLabels, PayLabels, FormOps,
        BillOps, PayingOps, WorkflowOps, Decisions

\* How a worker comes to be on a batch, and what it does there.
LEMMA BatchTaken ==
    ASSUME TypeInv, TypeInv', NEW w \in Workers, Effect(w)
    PROVE  /\ req'[w].d \in Batches =>
                 req'[w].d = req[w].d \/ MakesBatch(w) \/ TakesBatch(w)
           /\ req[w].d \in Batches /\ ~Dies(w) =>
                 \/ Numbers(w) \/ Inserts(w) \/ Allocates(w) \/ Counts(w) \/ Looks(w)
                 \/ Selects(w) \/ SavesBatch(w) \/ Responds(w)
           /\ Arrives(w) => req[w].d \notin Batches
<1> USE DEF PayLabels
<1> DEFINE q == req[w]
           n == req'[w]
<1>t. q \in Local /\ n \in Local /\ 0 \notin Batches
  BY LocalsBefore, LocalsAfter, PayablesAssumption
<1>1. n.d \in Batches =>
         n.pc \in PayLabels \cup {"count", "eligible", "select", "save_batch", "respond"}
  BY <1>t, OnBatch
<1>2. q.d \in Batches =>
         q.pc \in PayLabels \cup {"count", "eligible", "select", "save_batch", "respond"}
  BY <1>t, OnBatch
<1>3. n.d \in Batches => n.d = q.d \/ MakesBatch(w) \/ TakesBatch(w)
  <2>1. n.op = "create_payment" => n.d = 0
    BY <1>t, LocalKinds
  <2>2. CASE OnBills(w)
    BY <1>1, <2>2, OffPayments DEF BillLabels, FormLabels
  <2>3. CASE n.d = q.d \/ n = Idle
    BY <1>t, <2>3 DEF Idle
  <2>4. CASE TakesSchedule(w)
    BY <2>4, PayablesAssumption DEF TakesSchedule
  <2> QED BY <1>t, <2>1, <2>2, <2>3, <2>4
          DEF Effect, OnPayments, Dies, TakesPayment, MakesSchedule, Numbers, Inserts,
          Allocates, Counts, Looks, Selects, SavesBatch, Responds, SavesSchedule, Answers, Keeps
<1>4. ASSUME q.d \in Batches, ~Dies(w)
      PROVE  \/ Numbers(w) \/ Inserts(w) \/ Allocates(w) \/ Counts(w) \/ Looks(w)
             \/ Selects(w) \/ SavesBatch(w) \/ Responds(w)
  BY <1>2, <1>4, OffPayments DEF Effect, OnPayments, TakesPayment, MakesBatch, TakesBatch,
     MakesSchedule, TakesSchedule, SavesSchedule, Arrives, BillLabels, FormLabels
<1>5. Arrives(w) => q.d \notin Batches
  BY <1>2 DEF Arrives
<1> QED BY <1>3, <1>4, <1>5

Counting(q, x) == q.d = x /\ q.pc = "count"

\* A run of batch_process that has found bills to pay in its copy of the session.
Running(q, x) == q.d = x /\ q.op = "process" /\ q.pc \notin {"eligible", "respond"}

Whole(selection, x) == selection[x] # {} => Cardinality(selection[x]) = batch[x].count

WholeAt(x) ==
    /\ batch[x].st = "none" =>
          session[x] = {} /\ \A w \in Workers : req[w].d # x /\ (w \in Clerks => req[w].sess[x] = {})
    /\ (\E w \in Workers : Counting(req[w], x)) =>
          session[x] = {} /\ \A w \in Workers : w \in Clerks => req[w].sess[x] = {}
    /\ \A u, v \in Workers : Counting(req[u], x) /\ Counting(req[v], x) => u = v
    /\ \A w \in Workers : Running(req[w], x) => req[w].sess[x] # {}
    /\ batch[x].st = "draft" =>
          Whole(session, x) /\ \A w \in Workers : w \in Clerks => Whole(req[w].sess, x)

WholeInv ==
    /\ \A w \in Workers : req[w].d \in Batches => w \in Clerks
    /\ \A x \in Batches : WholeAt(x)

\* What a step does to the session, to the copy of its request and to the batches.
LEMMA SessionEffect ==
    ASSUME NEW w \in Workers, Effect(w), ~Dies(w)
    PROVE  \/ Arrives(w) /\ batch' = batch /\ req'[w].pc # "count"
              /\ (req'[w].op = "process" => req'[w].pc = "eligible")
           \/ MakesBatch(w)
           \/ req'[w] = req[w] /\ UNCHANGED <<session, batch>>
           \/ req[w].pc # "idle" /\ batch' = batch /\ Answers(w)
           \/ /\ req[w].pc # "idle" /\ batch' = batch /\ Keeps(w) /\ req'[w].pc # "count"
              /\ req[w].pc = "eligible" => req[w].sess[req[w].d] # {}
              /\ req[w].pc = "respond" => req'[w].pc = "respond"
           \/ Counts(w) \/ SavesBatch(w)
<1>1. CASE Allocates(w)
  BY <1>1 DEF Allocates, AfterAllocation
<1>2. CASE OnBills(w)
  <2>1. batch' = batch
    BY <1>2 DEF OnBills
  <2>2. CASE BeginsBill(w) \/ TakesBill(w) \/ TakesUpload(w)
    BY <2>1, <2>2 DEF BeginsBill, TakesBill, TakesUpload, WorkflowOps
  <2>3. CASE SavesBill(w) \/ LinksUpload(w)
    BY <2>1, <2>3 DEF SavesBill, LinksUpload
  <2>4. CASE SavesApproval(w)
    BY <2>1, <2>4 DEF SavesApproval
  <2>5. CASE \/ SavesHeader(w) \/ SavesLines(w) \/ ReadsTotals(w) \/ FindsRow(w)
             \/ InsertsBill(w)
    BY <2>1, <2>5 DEF SavesHeader, SavesLines, ReadsTotals, FindsRow, InsertsBill
  <2> QED BY <1>2, <2>2, <2>3, <2>4, <2>5 DEF OnBills
<1>3. CASE OnPayments(w) /\ ~Allocates(w)
  BY <1>3 DEF OnPayments, TakesPayment, MakesBatch, TakesBatch, MakesSchedule, TakesSchedule,
     Numbers, Inserts, Looks, Selects, Responds, SavesSchedule
<1> QED BY <1>1, <1>2, <1>3 DEF Effect

LEMMA WholeHere ==
    ASSUME TypeInv, TypeInv', WholeInv, NEW x \in Batches, NEW w \in Workers, Others(w), Effect(w)
    PROVE  WholeAt(x)'
<1> DEFINE q == req[w]
           n == req'[w]
<1>t. /\ batch \in [Batches -> Batch] /\ q \in Local /\ n \in Local
      /\ q.sess \in [Batches -> SUBSET Bills] /\ session \in [Batches -> SUBSET Bills]
      /\ 0 \notin Batches /\ x # 0
  BY LocalsBefore, LocalsAfter, LocalTypes, PayablesAssumption DEF TypeInv, TypeOK
<1>o. \A v \in Workers \ {w} : req'[v] = req[v]
  BY DEF Others
<1>c. q.d \in Batches => w \in Clerks
  BY DEF WholeInv
<1>w. WholeAt(x)
  BY DEF WholeInv
<1>i. Idle.d = 0 /\ Idle.pc = "idle" /\ Idle.op = "none" /\ Idle.sess[x] = {}
  BY DEF Idle, NoSelection
<1>1. CASE Arrives(w) /\ batch' = batch /\ n.pc # "count"
           /\ (n.op = "process" => n.pc = "eligible")
  <2>1. session' = session /\ (w \in Clerks => n.sess[x] = session[x])
    BY <1>1 DEF Arrives
  <2>2. n.d = x => batch[x].st = "draft"
    <3>1. n.d = x => MakesBatch(w) \/ TakesBatch(w)
      BY <1>1, <1>t, BatchTaken
    <3> QED BY <1>1, <3>1 DEF MakesBatch, TakesBatch
  <2> QED BY <1>o, <1>w, <1>1, <2>1, <2>2 DEF WholeAt, Whole, Counting, Running
<1>2. CASE MakesBatch(w)
  <2>1. /\ session' = session /\ n.sess = session /\ n.pc = "count" /\ n.op = "create_batch"
        /\ n.d \in Batches /\ batch[n.d].st = "none"
        /\ batch' = [batch EXCEPT ![n.d].st = "draft"]
    BY <1>2 DEF MakesBatch, Arrives
  <2>2. CASE n.d = x
    <3>1. batch'[x].st = "draft"
      BY <1>t, <2>1, <2>2 DEF Batch
    <3>2. /\ session[x] = {} /\ \A v \in Workers : req[v].d # x /\ (v \in Clerks => req[v].sess[x] = {})
      BY <1>w, <2>1, <2>2 DEF WholeAt
    <3> QED BY <1>o, <2>1, <3>1, <3>2 DEF WholeAt, Whole, Counting, Running
  <2>3. CASE n.d # x
    <3>1. batch'[x] = batch[x]
      BY <1>t, <2>1, <2>3
    <3> QED BY <1>o, <1>w, <2>1, <2>3, <3>1 DEF WholeAt, Whole, Counting, Running
  <2> QED BY <2>2, <2>3
<1>3. CASE n = q /\ UNCHANGED <<session, batch>>
  <2>1. \A v \in Workers : req'[v] = req[v]
    BY <1>o, <1>3
  <2> QED BY <1>w, <1>3, <2>1 DEF WholeAt, Whole, Counting, Running
<1>4. CASE n = Idle /\ batch' = batch /\ session' \in {session, q.sess}
           /\ (session' # session => w \in Clerks)
  <2>1. session'[x] = session[x] \/ (w \in Clerks /\ session'[x] = q.sess[x])
    BY <1>4
  <2> QED BY <1>o, <1>w, <1>i, <1>t, <1>4, <2>1 DEF WholeAt, Whole, Counting, Running
<1>5. CASE /\ batch' = batch /\ Keeps(w) /\ n.pc # "count"
           /\ q.pc = "eligible" => q.sess[q.d] # {}
           /\ q.pc = "respond" => n.pc = "respond"
  <2>1. n.d = q.d /\ n.op = q.op /\ n.sess = q.sess /\ session' = session
    BY <1>5 DEF Keeps
  <2>2. Running(n, x) => q.sess[x] # {}
    BY <1>w, <1>5, <2>1 DEF WholeAt, Running
  <2> QED BY <1>o, <1>w, <1>5, <2>1, <2>2 DEF WholeAt, Whole, Counting
<1>6. CASE Counts(w)
  <2>1. /\ q.pc = "count" /\ n.pc = "respond" /\ n.d = q.d /\ n.op = q.op /\ session' = session
        /\ n.sess = [q.sess EXCEPT ![q.d] = Todo(w)] /\ q.d \in Batches
        /\ batch' = [batch EXCEPT ![q.d] = [st |-> "draft", count |-> Cardinality(Todo(w))]]
    BY <1>t, <1>6, LocalKinds DEF Counts
  <2>2. CASE q.d = x
    <3>1. n.sess[x] = Todo(w) /\ batch'[x].st = "draft" /\ batch'[x].count = Cardinality(Todo(w))
      BY <1>t, <2>1, <2>2
    <3>2. Counting(q, x) /\ session[x] = {} /\ \A v \in Workers : v \in Clerks => req[v].sess[x] = {}
      BY <1>w, <2>1, <2>2 DEF WholeAt, Counting
    <3>3. \A v \in Workers \ {w} : ~Counting(req[v], x)
      BY <1>w, <3>2 DEF WholeAt
    <3>4. \A v \in Workers \ {w} : Running(req[v], x) => req[v].sess[x] # {}
      BY <1>w DEF WholeAt
    <3>5. session'[x] = {} /\ batch'[x].st # "none"
      BY <2>1, <3>1, <3>2
    <3>6. \A v \in Workers : ~Counting(req'[v], x)
      BY <1>o, <2>1, <3>3 DEF Counting
    <3>7. \A v \in Workers : Running(req'[v], x) => req'[v].sess[x] # {}
      BY <1>o, <2>1, <3>4 DEF Running
    <3>8. \A v \in Workers : v \in Clerks =>
             req'[v].sess[x] = {} \/ Cardinality(req'[v].sess[x]) = batch'[x].count
      BY <1>o, <3>1, <3>2
    <3> QED BY <3>5, <3>6, <3>7, <3>8 DEF WholeAt, Whole
  <2>3. CASE q.d # x
    <3>1. n.sess[x] = q.sess[x] /\ batch'[x] = batch[x] /\ ~Counting(n, x) /\ ~Running(n, x)
      BY <1>t, <2>1, <2>3 DEF Counting, Running
    <3>2. ASSUME NEW v \in Workers
          PROVE  /\ req'[v].sess[x] = req[v].sess[x] /\ req'[v].d = req[v].d
                 /\ Counting(req'[v], x) => Counting(req[v], x)
                 /\ Running(req'[v], x) => Running(req[v], x)
      <4>1. CASE v = w
        BY <2>1, <3>1, <4>1
      <4>2. CASE v # w
        BY <1>o, <4>2
      <4> QED BY <4>1, <4>2
    <3>3. session'[x] = session[x]
      BY <2>1
    <3> HIDE DEF q, n
    <3> QED BY <1>w, <3>1, <3>2, <3>3 DEF WholeAt, Whole
  <2> QED BY <2>2, <2>3
<1>7. CASE SavesBatch(w)
  <2>1. /\ q.pc = "save_batch" /\ n.pc = "respond" /\ n.d = q.d /\ n.op = q.op
        /\ session' = session /\ q.op = "process"
        /\ n.sess = [q.sess EXCEPT ![q.d] = {}] /\ q.d \in Batches /\ w \in Clerks
        /\ batch' = [batch EXCEPT ![q.d] = [st |-> "completed", count |-> q.made]]
    BY <1>t, <1>c, <1>7, LocalKinds DEF SavesBatch
  <2>2. CASE q.d = x
    <3>1. batch'[x].st = "completed"
      BY <1>t, <2>1, <2>2
    <3>2. q.sess[x] # {}
      BY <1>w, <2>1, <2>2 DEF WholeAt, Running
    <3>3. \A v \in Workers : ~Counting(req[v], x)
      BY <1>w, <2>1, <3>2 DEF WholeAt
    <3>4. \A v \in Workers : ~Counting(req'[v], x)
      BY <1>o, <2>1, <3>3 DEF Counting
    <3>5. \A v \in Workers : Running(req'[v], x) => req'[v].sess[x] # {}
      BY <1>o, <1>w, <2>1 DEF WholeAt, Running
    <3> QED BY <3>1, <3>4, <3>5 DEF WholeAt
  <2>3. CASE q.d # x
    <3>1. n.sess[x] = q.sess[x] /\ batch'[x] = batch[x] /\ ~Counting(n, x) /\ ~Running(n, x)
      BY <1>t, <2>1, <2>3 DEF Counting, Running
    <3>2. ASSUME NEW v \in Workers
          PROVE  /\ req'[v].sess[x] = req[v].sess[x] /\ req'[v].d = req[v].d
                 /\ Counting(req'[v], x) => Counting(req[v], x)
                 /\ Running(req'[v], x) => Running(req[v], x)
      <4>1. CASE v = w
        BY <2>1, <3>1, <4>1
      <4>2. CASE v # w
        BY <1>o, <4>2
      <4> QED BY <4>1, <4>2
    <3>3. session'[x] = session[x]
      BY <2>1
    <3> HIDE DEF q, n
    <3> QED BY <1>w, <3>1, <3>2, <3>3 DEF WholeAt, Whole
  <2> QED BY <2>2, <2>3
<1>8. CASE Dies(w)
  BY <1>4, <1>8 DEF Dies, documents
<1>9. CASE Answers(w) /\ batch' = batch
  BY <1>4, <1>9 DEF Answers
<1> QED BY <1>1, <1>2, <1>3, <1>5, <1>6, <1>7, <1>8, <1>9, SessionEffect

LEMMA WholeStep ==
    ASSUME TypeInv, TypeInv', WholeInv, [Next]_vars
    PROVE  WholeInv'
<1>1. ASSUME NEW w \in Workers, Others(w), Effect(w) PROVE WholeInv'
  <2>1. req'[w].d \in Batches => w \in Clerks
    <3>1. req'[w].d = req[w].d => (req'[w].d \in Batches => w \in Clerks)
      BY DEF WholeInv
    <3> QED BY <1>1, <3>1, BatchTaken DEF MakesBatch, TakesBatch
  <2>2. \A v \in Workers : req'[v].d \in Batches => v \in Clerks
    BY <1>1, <2>1 DEF WholeInv, Others
  <2>3. \A x \in Batches : WholeAt(x)'
    BY <1>1, WholeHere
  <2> QED BY <2>2, <2>3 DEF WholeInv
<1>2. CASE UNCHANGED vars
  BY <1>2 DEF vars, WholeInv, WholeAt, Whole, Counting, Running
<1> QED BY <1>1, <1>2, NextEffect

LEMMA WholeHolds == Spec => []WholeInv
<1>1. Init => WholeInv
  BY PayablesAssumption DEF Init, WholeInv, WholeAt, Whole, Counting, Running, NoSelection, Idle
<1>2. TypeInv /\ TypeInv' /\ WholeInv /\ [Next]_vars => WholeInv'
  BY WholeStep
<1> QED BY <1>1, <1>2, TypesHold, PTL DEF Spec

\* The session holds every bill that a draft batch was made of, or none, whatever the tabs
\* of the clerk write back and wherever requests die: no run of batch_process pays a part
\* of the selection and completes the batch.
THEOREM SelectionsAreWhole == Spec => []SelectionIsWhole
<1>1. WholeInv => SelectionIsWhole
  BY DEF WholeInv, WholeAt, Whole, SelectionIsWhole
<1> QED BY <1>1, WholeHolds, PTL

-----------------------------------------------------------------------------
(* Batches.  While each batch is worked on in one place, no two requests are on it, *)
(* and a batch that one is on has not been completed.                                *)

OneBatch == \A u, v \in Workers : u # v /\ req[u].d \in Batches => req[u].d # req[v].d

OneBatchInv == Apart("batch") => OneBatch

ClerkOK(w) ==
    LET q == req[w] IN
    q.d \in Batches =>
        /\ q.pc # "respond" => batch[q.d].st = "draft"
        /\ q.pc = "respond" /\ q.op = "process" => batch[q.d].st = "completed"
        /\ q.pc \in {"eligible", "select"} => q.made = 0

ClerkAll == \A w \in Workers : ClerkOK(w)

ClerkInv == Apart("batch") => ClerkAll

LEMMA OneBatchStep ==
    ASSUME TypeInv, TypeInv', WholeInv, OneBatchInv, [Next]_vars
    PROVE  OneBatchInv'
<1> SUFFICES ASSUME Apart("batch"), OneBatch PROVE OneBatch'
  BY CareStays DEF OneBatchInv
<1>1. ASSUME NEW w \in Workers, Others(w), Effect(w) PROVE OneBatch'
  <2> DEFINE q == req[w]
             n == req'[w]
  <2>1. n.d \in Batches => n.d = q.d \/ \A v \in Workers \ {w} : req[v].d # n.d
    <3>1. CASE MakesBatch(w)
      BY <3>1 DEF MakesBatch, WholeInv, WholeAt
    <3>2. CASE TakesBatch(w)
      BY <3>2 DEF TakesBatch
    <3> QED BY <1>1, <3>1, <3>2, BatchTaken
  <2> QED BY <1>1, <2>1 DEF OneBatch, Others
<1>2. CASE UNCHANGED vars
  BY <1>2 DEF vars, OneBatch
<1> QED BY <1>1, <1>2, NextEffect

LEMMA OneBatchHolds == Spec => []OneBatchInv
<1>1. Init => OneBatchInv
  BY PayablesAssumption DEF Init, OneBatchInv, OneBatch, Idle
<1>2. TypeInv /\ TypeInv' /\ WholeInv /\ OneBatchInv /\ [Next]_vars => OneBatchInv'
  BY OneBatchStep
<1> QED BY <1>1, <1>2, TypesHold, WholeHolds, PTL DEF Spec

LEMMA ClerkStep ==
    ASSUME TypeInv, TypeInv', OneBatchInv, OneBatchInv', ClerkInv, [Next]_vars
    PROVE  ClerkInv'
<1> USE DEF PayLabels
<1> SUFFICES ASSUME Apart("batch"), OneBatch, OneBatch', ClerkAll PROVE ClerkAll'
  BY CareStays DEF OneBatchInv, ClerkInv
<1>1. ASSUME NEW w \in Workers, Others(w), Effect(w) PROVE ClerkAll'
  <2> DEFINE q == req[w]
             n == req'[w]
  <2>t. q \in Local /\ n \in Local /\ batch \in [Batches -> Batch] /\ ClerkOK(w)
    BY LocalsBefore, LocalsAfter DEF TypeInv, TypeOK, ClerkAll
  <2>1. ASSUME NEW v \in Workers \ {w} PROVE ClerkOK(v)'
    <3>1. req'[v] = req[v] /\ ClerkOK(v)
      BY <1>1 DEF Others, ClerkAll
    <3>2. req[v].d \in Batches => batch'[req[v].d] = batch[req[v].d]
      <4>1. CASE MakesBatch(w)
        <5>1. req[v].d \in Batches => req[v].d # n.d
          BY <3>1 DEF OneBatch
        <5> QED BY <2>t, <4>1, <5>1 DEF MakesBatch
      <4>2. CASE Counts(w) \/ SavesBatch(w)
        <5>1. req[v].d \in Batches => req[v].d # q.d
          BY DEF OneBatch
        <5> QED BY <2>t, <4>2, <5>1 DEF Counts, SavesBatch
      <4> QED BY <1>1, <4>1, <4>2, PayTables
    <3> QED BY <3>1, <3>2 DEF ClerkOK
  <2>2. ASSUME n.d \in Batches PROVE ClerkOK(w)'
    <3>1. CASE MakesBatch(w)
      BY <2>t, <3>1 DEF MakesBatch, ClerkOK, Batch
    <3>2. CASE TakesBatch(w)
      BY <3>2 DEF TakesBatch, ClerkOK
    <3>3. CASE n.d = q.d /\ ~MakesBatch(w) /\ ~TakesBatch(w)
      <4>1. n # Idle
        BY <2>2, <2>t, <3>3, PayablesAssumption DEF Idle
      <4>2. CASE Numbers(w) \/ Inserts(w) \/ Looks(w) \/ Selects(w)
        <5>1. /\ batch' = batch /\ q.pc # "respond" /\ n.pc # "respond"
              /\ n.pc = "select" => q.pc = "eligible" /\ n.made = q.made
              /\ n.pc # "eligible"
          BY <4>1, <4>2 DEF Numbers, Inserts, Looks, Selects, Answers
        <5> QED BY <2>t, <2>2, <3>3, <4>1, <5>1 DEF ClerkOK
      <4>3. CASE Allocates(w)
        <5>1. batch' = batch /\ q.pc = "allocate" /\ n.pc = AfterAllocation(w, n.due)
          BY <4>1, <4>3 DEF Allocates, Answers
        <5>2. q.op = "process"
          BY <2>t, <2>2, <3>3, <5>1, OnBatch
        <5>3. n.pc \in {"save_batch", "number"}
          BY <5>1, <5>2 DEF AfterAllocation
        <5> QED BY <2>t, <2>2, <3>3, <4>1, <5>1, <5>3 DEF ClerkOK
      <4>4. CASE Counts(w)
        <5>1. n.op = q.op /\ q.op = "create_batch" /\ n.pc = "respond"
          BY <2>t, <4>4, LocalKinds DEF Counts
        <5> QED BY <4>1, <5>1 DEF ClerkOK
      <4>5. CASE SavesBatch(w)
        <5>1. n.pc = "respond" /\ batch'[n.d].st = "completed"
          BY <2>2, <2>t, <3>3, <4>5 DEF SavesBatch
        <5> QED BY <4>1, <5>1 DEF ClerkOK
      <4>6. ~Dies(w) /\ ~Responds(w)
        BY <4>1 DEF Dies, Responds, Answers
      <4> QED BY <1>1, <2>2, <3>3, <4>2, <4>3, <4>4, <4>5, <4>6, BatchTaken
    <3> QED BY <1>1, <2>2, <3>1, <3>2, <3>3, BatchTaken
  <2>3. ClerkOK(w)'
    BY <2>2 DEF ClerkOK
  <2> QED BY <2>1, <2>3 DEF ClerkAll
<1>2. CASE UNCHANGED vars
  BY <1>2 DEF vars, ClerkAll, ClerkOK
<1> QED BY <1>1, <1>2, NextEffect

LEMMA ClerkHolds == Spec => []ClerkInv
<1>1. Init => ClerkInv
  BY PayablesAssumption DEF Init, ClerkInv, ClerkAll, ClerkOK, Idle
<1>2. TypeInv /\ TypeInv' /\ OneBatchInv /\ OneBatchInv' /\ ClerkInv /\ [Next]_vars => ClerkInv'
  BY ClerkStep
<1> QED BY <1>1, <1>2, TypesHold, OneBatchHolds, PTL DEF Spec


-----------------------------------------------------------------------------
(* A batch pays a bill once.  What it may pay twice, it pays again in a run after *)
(* one that ended half-way.                                                        *)

Loop(q, x) == q.op = "process" /\ q.d = x /\ q.pc \in PayLabels \cup {"save_batch"}

\* The batch is through with the bill, in this run or in the one that completed it.
Through(x, b) ==
    batch[x].st = "completed" \/ \E w \in Workers : Loop(req[w], x) /\ req[w].due[b] = 0

PaysInv ==
    Apart("batch") => \A x \in Batches, b \in Bills :
        Cardinality(BatchPayments(x, b)) <= aborts + (IF Through(x, b) THEN 1 ELSE 0)

LEMMA PaymentCount ==
    ASSUME NEW S \in SUBSET Payments
    PROVE  IsFiniteSet(S) /\ Cardinality(S) \in Nat
<1>1. IsFiniteSet(Payments)
  <2>1. 1 \in Int /\ MaxPayments \in Int
    BY PayablesAssumption
  <2> QED BY <2>1, FS_Interval, Zenon DEF Payments
<1> QED BY <1>1, FS_Subset, FS_CardinalityType

LEMMA OneMore ==
    ASSUME NEW S, IsFiniteSet(S), NEW e
    PROVE  /\ IsFiniteSet(S \cup {e}) /\ Cardinality(S) \in Nat
           /\ Cardinality(S \cup {e}) \in Nat
           /\ Cardinality(S \cup {e}) <= Cardinality(S) + 1
<1>1. PICK k \in Nat : k = Cardinality(S)
  BY FS_CardinalityType
<1>2. PICK T : T = S \cup {e}
  OBVIOUS
<1>3. IsFiniteSet(T) /\ Cardinality(T) \in {k, k + 1}
  <2>1. CASE e \in S
    <3>1. T = S
      BY <1>2, <2>1
    <3> QED BY <1>1, <3>1
  <2>2. CASE e \notin S
    <3>1. IsFiniteSet(T) /\ Cardinality(T) = Cardinality(S) + 1
      BY <1>2, <2>2, FS_AddElement
    <3> QED BY <1>1, <3>1
  <2> QED BY <2>1, <2>2
<1> QED BY <1>1, <1>2, <1>3

\* A loop over the bills of a batch goes on, completes the batch, or ends half-way.
LEMMA LoopGoesOn ==
    ASSUME TypeInv, TypeInv', NEW w \in Workers, Effect(w), NEW x \in Batches,
           Loop(req[w], x), ~Dies(w)
    PROVE  \/ Loop(req'[w], x) /\ (Numbers(w) \/ Inserts(w) \/ Allocates(w))
           \/ SavesBatch(w) /\ batch'[x].st = "completed"
<1> DEFINE q == req[w]
           n == req'[w]
<1>0. q.d = x /\ q.op = "process" /\ q.pc \in PayLabels \cup {"save_batch"}
  BY DEF Loop
<1>1. CASE Numbers(w) \/ Inserts(w)
  BY <1>0, <1>1 DEF Numbers, Inserts, Keeps, Loop, PayLabels
<1>2. CASE Allocates(w)
  <2>1. Keeps(w) /\ n.pc = AfterAllocation(w, n.due)
    BY <1>0, <1>2 DEF Allocates
  <2>2. n.pc \in {"save_batch", "number"}
    BY <1>0, <2>1 DEF AfterAllocation
  <2> QED BY <1>0, <1>2, <2>1, <2>2 DEF Keeps, Loop, PayLabels
<1>3. CASE SavesBatch(w)
  BY <1>0, <1>3 DEF SavesBatch, TypeInv, TypeOK, Batch
<1>4. Numbers(w) \/ Inserts(w) \/ Allocates(w) \/ SavesBatch(w)
  BY <1>0, BatchTaken DEF Counts, Looks, Selects, Responds, PayLabels
<1> QED BY <1>1, <1>2, <1>3, <1>4

\* A completed batch stays so.
LEMMA CompletedStays ==
    ASSUME TypeInv, TypeInv', ClerkAll, NEW w \in Workers, Effect(w), NEW x \in Batches,
           batch[x].st = "completed"
    PROVE  batch'[x] = batch[x]
<1> DEFINE q == req[w]
<1>t. batch \in [Batches -> Batch] /\ q \in Local /\ ClerkOK(w)
  BY LocalsBefore DEF TypeInv, TypeOK, ClerkAll
<1>1. CASE MakesBatch(w)
  BY <1>t, <1>1 DEF MakesBatch
<1>2. CASE Counts(w) \/ SavesBatch(w)
  <2>1. q.d \in Batches /\ q.pc # "respond"
    BY <1>t, <1>2, LocalKinds DEF Counts, SavesBatch
  <2>2. q.d # x
    BY <1>t, <2>1 DEF ClerkOK
  <2> QED BY <1>t, <1>2, <2>2 DEF Counts, SavesBatch
<1> QED BY <1>1, <1>2, PayTables

\* A bill that the batch is through with stays so, unless the run ends half-way.
LEMMA ThroughStays ==
    ASSUME TypeInv, TypeInv', ClerkAll, NEW w \in Workers, Others(w), Effect(w), ~Dies(w),
           NEW x \in Batches, NEW b \in Bills, Through(x, b)
    PROVE  Through(x, b)'
<1> DEFINE q == req[w]
           n == req'[w]
<1>1. CASE batch[x].st = "completed"
  BY <1>1, CompletedStays DEF Through
<1>2. ASSUME NEW v \in Workers \ {w}, Loop(req[v], x), req[v].due[b] = 0
      PROVE  Through(x, b)'
  BY <1>2 DEF Through, Others
<1>3. CASE Loop(q, x) /\ q.due[b] = 0
  <2>1. CASE SavesBatch(w) /\ batch'[x].st = "completed"
    BY <2>1 DEF Through
  <2>2. CASE Loop(n, x) /\ (Numbers(w) \/ Inserts(w) \/ Allocates(w))
    <3>1. n.due[b] = 0
      <4>1. q.due \in [Bills -> Nat]
        BY LocalTypes
      <4>2. CASE Allocates(w)
        <5>1. Keeps(w) /\ \E c \in Bills : n.due = [q.due EXCEPT ![c] = 0]
          BY <1>3, <4>2 DEF Allocates, Loop
        <5> QED BY <1>3, <4>1, <5>1
      <4>3. CASE Numbers(w) \/ Inserts(w)
        BY <1>3, <4>3 DEF Numbers, Inserts
      <4> QED BY <2>2, <4>2, <4>3
    <3> QED BY <2>2, <3>1 DEF Through
  <2> QED BY <1>3, <2>1, <2>2, LoopGoesOn
<1> QED BY <1>1, <1>2, <1>3 DEF Through

\* The payments of a batch for a bill: only its own loop adds one.
LEMMA BatchPaid ==
    ASSUME TypeInv, TypeInv', PayInv, NEW w \in Workers, Effect(w),
           NEW x \in Batches, NEW b \in Bills
    PROVE  \/ BatchPayments(x, b)' \subseteq BatchPayments(x, b)
           \/ /\ Allocates(w) /\ req[w].pc = "allocate" /\ Loop(req[w], x)
              /\ req[w].due[b] > 0 /\ req'[w].due[b] = 0
              /\ BatchPayments(x, b)' \subseteq BatchPayments(x, b) \cup {req[w].p}
<1> USE DEF PayLabels
<1> DEFINE q == req[w]
           n == req'[w]
<1>t. /\ pay \in [Payments -> {"none", "form"} \cup Batches \cup Schedules]
      /\ alloc \in [Payments -> [Bills -> Nat]]
      /\ q \in Local /\ q.due \in [Bills -> Nat] /\ PayOK(q)
  BY LocalsBefore, LocalTypes DEF TypeInv, TypeOK, PayInv
<1>1. CASE UNCHANGED <<pay, alloc>>
  BY <1>1 DEF BatchPayments
<1>2. CASE Inserts(w)
  <2>1. alloc' = alloc /\ pay[q.p] = "none" /\ pay' = [pay EXCEPT ![q.p] = SourceOf(q)]
    BY <1>2 DEF Inserts
  <2>2. ASSUME NEW p \in Payments, pay'[p] = x, alloc'[p][b] > 0 PROVE pay[p] = x
    <3>1. CASE p = q.p
      BY <2>1, <2>2, <3>1 DEF PayInv, NoBills
    <3>2. CASE p # q.p
      BY <1>t, <2>1, <2>2, <3>2
    <3> QED BY <3>1, <3>2
  <2> QED BY <2>1, <2>2 DEF BatchPayments
<1>3. CASE Allocates(w)
  <2>0. q.pc = "allocate" /\ q.p \in Payments /\ pay' = pay /\ pay[q.p] = SourceOf(q)
    BY <1>t, <1>3, LocalKinds DEF Allocates, PayOK
  <2>1. PICK c \in Bills :
           /\ q.due[c] > 0
           /\ alloc' = [alloc EXCEPT ![q.p][c] = q.due[c]]
           /\ \/ q.op = "create_payment"
              \/ n.due = [q.due EXCEPT ![c] = 0]
    BY <1>3 DEF Allocates
  <2>2. \A p \in Payments : p # q.p => alloc'[p] = alloc[p]
    BY <1>t, <2>1
  <2>3. CASE SourceOf(q) # x \/ c # b
    <3>1. \A p \in Payments : pay'[p] = x /\ alloc'[p][b] > 0 => alloc[p][b] > 0
      BY <1>t, <2>0, <2>1, <2>2, <2>3
    <3> QED BY <2>0, <3>1 DEF BatchPayments
  <2>4. CASE SourceOf(q) = x /\ c = b
    <3>1. q.d = x /\ q.op # "create_payment"
      BY <2>4, PayablesAssumption DEF SourceOf
    <3>2. Loop(q, x)
      BY <1>t, <2>0, <3>1, LocalKinds DEF Loop
    <3>3. n.due[b] = 0
      BY <1>t, <2>1, <2>4, <3>1
    <3> QED BY <1>3, <2>0, <2>1, <2>2, <2>4, <3>2, <3>3 DEF BatchPayments
  <2> QED BY <2>3, <2>4
<1> QED BY <1>1, <1>2, <1>3, PayTables

LEMMA PaysStep ==
    ASSUME TypeInv, TypeInv', PayInv, OneBatchInv, ClerkInv, PaysInv, [Next]_vars
    PROVE  PaysInv'
<1> SUFFICES ASSUME Apart("batch"), OneBatch, ClerkAll
             PROVE  \A x \in Batches, b \in Bills :
                       Cardinality(BatchPayments(x, b)')
                          <= aborts' + (IF Through(x, b)' THEN 1 ELSE 0)
  BY CareStays DEF OneBatchInv, ClerkInv, PaysInv
<1>1. ASSUME NEW w \in Workers, Others(w), Effect(w), NEW x \in Batches, NEW b \in Bills
      PROVE  Cardinality(BatchPayments(x, b)')
                <= aborts' + (IF Through(x, b)' THEN 1 ELSE 0)
  <2> DEFINE q == req[w]
             n == req'[w]
  <2>o. PICK old \in SUBSET Payments : old = BatchPayments(x, b)
    BY DEF BatchPayments
  <2>n. PICK new \in SUBSET Payments : new = BatchPayments(x, b)'
    BY DEF BatchPayments
  <2>t. aborts \in Nat /\ Cardinality(old) <= aborts + (IF Through(x, b) THEN 1 ELSE 0)
    BY <2>o DEF TypeInv, TypeOK, PaysInv
  <2>c. Cardinality(old) \in Nat /\ Cardinality(new) \in Nat /\ IsFiniteSet(old)
    BY PaymentCount
  <2>1. CASE new \subseteq old
    <3>1. Cardinality(new) <= Cardinality(old)
      BY <2>1, <2>c, FS_Subset
    <3>2. CASE Dies(w)
      <4>1. aborts' = aborts + 1
        BY <3>2 DEF Dies
      <4> QED BY <2>n, <2>t, <2>c, <3>1, <4>1
    <3>3. CASE ~Dies(w)
      <4>1. aborts' = aborts
        BY <1>1, <3>3, AbortsCounted
      <4>2. Through(x, b) => Through(x, b)'
        BY <1>1, <3>3, ThroughStays
      <4> QED BY <2>n, <2>t, <2>c, <3>1, <4>1, <4>2
    <3> QED BY <3>2, <3>3
  <2>2. CASE /\ Allocates(w) /\ q.pc = "allocate" /\ Loop(q, x)
             /\ q.due[b] > 0 /\ n.due[b] = 0 /\ new \subseteq old \cup {q.p}
    <3>1. ~Dies(w) /\ Loop(n, x)
      <4>1. q.op = "process" /\ q.due \in [Bills -> Nat]
        BY <2>2, LocalTypes DEF Loop
      <4>2. Keeps(w)
        BY <2>2, <4>1 DEF Allocates
      <4>3. ~Dies(w)
        BY <2>t, <4>2 DEF Keeps, Dies
      <4> QED BY <1>1, <2>2, <4>3, LoopGoesOn DEF SavesBatch
    <3>2. aborts' = aborts
      BY <1>1, <3>1, AbortsCounted
    <3>3. ~Through(x, b)
      <4>1. req[w].d = x /\ batch[x].st = "draft"
        BY <2>2 DEF ClerkAll, ClerkOK, Loop, PayLabels
      <4>2. \A v \in Workers \ {w} : req[v].d # x
        BY <4>1 DEF OneBatch
      <4> QED BY <2>2, <4>1, <4>2 DEF Through, Loop
    <3>4. Through(x, b)'
      BY <2>2, <3>1 DEF Through
    <3>5. Cardinality(new) <= Cardinality(old) + 1
      <4>1. IsFiniteSet(old \cup {q.p}) /\ Cardinality(old \cup {q.p}) \in Nat
               /\ Cardinality(old \cup {q.p}) <= Cardinality(old) + 1
        BY <2>c, OneMore
      <4>2. Cardinality(new) <= Cardinality(old \cup {q.p})
        BY <2>2, <4>1, FS_Subset
      <4> QED BY <2>c, <4>1, <4>2
    <3> QED BY <2>n, <2>t, <2>c, <3>2, <3>3, <3>4, <3>5
  <2> QED BY <1>1, <2>o, <2>n, <2>1, <2>2, BatchPaid
<1>2. CASE UNCHANGED vars
  BY <1>2 DEF vars, PaysInv, Through, BatchPayments, Loop
<1> QED BY <1>1, <1>2, NextEffect

\* A batch that is worked on in one place at a time pays each of its bills once, whatever
\* payments by hand, changes of bills and other tabs of the clerk overlap with it, up to
\* the runs that ended half-way.
THEOREM BatchesPayOnce == Spec => []BatchPaysOnce
<1>1. ASSUME Init PROVE PaysInv
  <2>1. ASSUME NEW x \in Batches, NEW b \in Bills PROVE BatchPayments(x, b) = {}
    BY <1>1 DEF Init, BatchPayments, NoBills
  <2>2. aborts = 0
    BY <1>1 DEF Init
  <2>3. ASSUME NEW x \in Batches, NEW b \in Bills
        PROVE  Cardinality(BatchPayments(x, b)) <= aborts + (IF Through(x, b) THEN 1 ELSE 0)
    <3>1. Cardinality(BatchPayments(x, b)) = 0
      BY <2>1, FS_EmptySet
    <3> QED BY <2>2, <3>1
  <2> QED BY <2>3 DEF PaysInv
<1>2. TypeInv /\ TypeInv' /\ PayInv /\ OneBatchInv /\ ClerkInv /\ PaysInv /\ [Next]_vars
         => PaysInv'
  BY PaysStep
<1>3. TypeInv /\ PaysInv => BatchPaysOnce
  <2> SUFFICES ASSUME TypeInv, PaysInv, Apart("batch"), NEW x \in Batches, NEW b \in Bills
               PROVE  Cardinality(BatchPayments(x, b)) <= 1 + aborts
    BY DEF BatchPaysOnce
  <2>1. aborts \in Nat /\ Cardinality(BatchPayments(x, b)) \in Nat
    BY PaymentCount DEF TypeInv, TypeOK, BatchPayments
  <2>2. Cardinality(BatchPayments(x, b)) <= aborts + (IF Through(x, b) THEN 1 ELSE 0)
    BY DEF PaysInv
  <2> QED BY <2>1, <2>2
<1> QED BY <1>1, <1>2, <1>3, TypesHold, PayHolds, OneBatchHolds, ClerkHolds, PTL DEF Spec


-----------------------------------------------------------------------------
(* A completed batch counts its payments.  While its loop runs, created_count is  *)
(* the number of payments made so far, but for the one whose allocation is next.   *)

MadeBy(x) == {p \in Payments : pay[p] = x}

Made(q) == q.made + (IF q.pc = "allocate" THEN 1 ELSE 0)

CountAt(x) ==
    /\ batch[x].st = "completed" => batch[x].count = Cardinality(MadeBy(x))
    /\ \A w \in Workers : Loop(req[w], x) => Cardinality(MadeBy(x)) = Made(req[w])
    /\ batch[x].st # "completed" /\ (\A w \in Workers : ~Loop(req[w], x)) => MadeBy(x) = {}

CountInv == aborts = 0 /\ Apart("batch") => \A x \in Batches : CountAt(x)

\* The payments of a batch: only its own loop inserts them.
LEMMA BatchInserts ==
    ASSUME TypeInv, NEW w \in Workers, Effect(w), NEW x \in Batches
    PROVE  \/ MadeBy(x)' = MadeBy(x) /\ ~(Inserts(w) /\ Loop(req[w], x))
           \/ /\ Inserts(w) /\ Loop(req[w], x) /\ req[w].p \in Payments
              /\ req[w].p \notin MadeBy(x) /\ MadeBy(x)' = MadeBy(x) \cup {req[w].p}
<1> DEFINE q == req[w]
<1>t. /\ pay \in [Payments -> {"none", "form"} \cup Batches \cup Schedules]
      /\ q \in Local /\ x # "none" /\ x # "form"
  BY LocalsBefore, PayablesAssumption DEF TypeInv, TypeOK
<1>1. CASE ~Inserts(w)
  BY <1>1, PayTables DEF Allocates, MadeBy
<1>2. CASE Inserts(w)
  <2>1. /\ q.pc = "insert" /\ q.p \in Payments /\ pay[q.p] = "none"
        /\ pay' = [pay EXCEPT ![q.p] = SourceOf(q)]
    BY <1>t, <1>2, LocalKinds DEF Inserts
  <2>2. SourceOf(q) = x <=> Loop(q, x)
    <3>1. q.pc \in PayLabels
      BY <2>1 DEF PayLabels
    <3>2. q.d = x => q.op = "process"
      BY <1>t, <3>1, OnBatch
    <3> QED BY <1>t, <3>1, <3>2 DEF SourceOf, Loop
  <2>3. CASE Loop(q, x)
    BY <1>t, <1>2, <2>1, <2>2, <2>3 DEF MadeBy
  <2>4. CASE ~Loop(q, x)
    BY <1>t, <2>1, <2>2, <2>4 DEF MadeBy
  <2> QED BY <2>3, <2>4
<1> QED BY <1>1, <1>2

\* A loop begins with SelectBills, before anything is made.
LEMMA LoopBegins ==
    ASSUME TypeInv, TypeInv', ClerkAll, NEW w \in Workers, Effect(w), NEW x \in Batches,
           Loop(req'[w], x), ~Loop(req[w], x)
    PROVE  /\ req[w].d = x /\ batch[x].st = "draft" /\ batch' = batch
           /\ ~Inserts(w) /\ Made(req'[w]) = 0
<1> USE DEF PayLabels
<1> DEFINE q == req[w]
           n == req'[w]
<1>t. q \in Local /\ n \in Local /\ ClerkOK(w)
  BY LocalsBefore, LocalsAfter DEF ClerkAll
<1>0. /\ n.op = "process" /\ n.d = x
      /\ n.pc \in {"number", "insert", "allocate", "save_batch"}
  BY DEF Loop
<1>1. q.d = x
  <2>1. n.d \in Batches
    BY <1>0
  <2> QED BY <1>0, <2>1, BatchTaken DEF MakesBatch, TakesBatch
<1>2. q.op \in {"create_batch", "process"} /\ n # Idle /\ ~Dies(w)
  BY <1>t, <1>0, <1>1, LocalKinds, PayablesAssumption DEF Dies, Idle
<1>3. Selects(w)
  <2>1. ~Numbers(w) /\ ~Inserts(w) /\ ~Allocates(w)
    <3>1. q.pc \in PayLabels => q.op = "process"
      BY <1>t, <1>1, OnBatch
    <3> QED BY <1>1, <3>1 DEF Numbers, Inserts, Allocates, Loop
  <2>2. ~Counts(w) /\ ~Looks(w) /\ ~SavesBatch(w) /\ ~Responds(w)
    BY <1>0, <1>2 DEF Counts, Looks, SavesBatch, Responds, Answers
  <2>3. q.d \in Batches
    BY <1>1
  <2> QED BY <1>2, <2>1, <2>2, <2>3, BatchTaken
<1>4. q.pc = "select" /\ n.made = q.made /\ n.pc \in {"save_batch", "number"} /\ batch' = batch
  BY <1>3 DEF Selects
<1>5. batch[x].st = "draft" /\ q.made = 0
  BY <1>t, <1>1, <1>4 DEF ClerkOK
<1> QED BY <1>1, <1>4, <1>5 DEF Inserts, Made

LEMMA CountHere ==
    ASSUME TypeInv, TypeInv', OneBatch, ClerkAll, NEW x \in Batches, CountAt(x),
           NEW w \in Workers, Others(w), Effect(w), ~Dies(w)
    PROVE  CountAt(x)'
<1> DEFINE q == req[w]
           n == req'[w]
<1>t. /\ batch \in [Batches -> Batch] /\ q \in Local /\ n \in Local /\ q.made \in Nat
      /\ ClerkOK(w)
  BY LocalsBefore, LocalsAfter, LocalTypes DEF TypeInv, TypeOK, ClerkAll
<1>f. IsFiniteSet(MadeBy(x)) /\ Cardinality(MadeBy(x)) \in Nat
  BY PaymentCount DEF MadeBy
<1>1. CASE Loop(q, x)
  <2>0. q.d = x /\ batch[x].st = "draft" /\ Cardinality(MadeBy(x)) = Made(q)
    BY <1>t, <1>1 DEF Loop, ClerkOK, CountAt, PayLabels
  <2>1. \A v \in Workers \ {w} : req'[v].d # x
    BY <2>0 DEF OneBatch, Others
  <2>2. CASE Loop(n, x) /\ (Numbers(w) \/ Inserts(w) \/ Allocates(w))
    <3>1. Cardinality(MadeBy(x)') = Made(n)
      <4>1. CASE Numbers(w)
        <5>1. MadeBy(x)' = MadeBy(x) /\ q.pc = "number" /\ n.pc = "insert" /\ n.made = q.made
          BY <4>1, BatchInserts DEF Numbers, Inserts
        <5> QED BY <2>0, <5>1 DEF Made
      <4>2. CASE Inserts(w)
        <5>1. q.pc = "insert" /\ n.pc = "allocate" /\ n.made = q.made
          BY <4>2 DEF Inserts
        <5>2. Cardinality(MadeBy(x)') = Cardinality(MadeBy(x)) + 1
          BY <1>1, <1>f, <4>2, BatchInserts, FS_AddElement
        <5> QED BY <1>t, <2>0, <5>1, <5>2 DEF Made
      <4>3. CASE Allocates(w)
        <5>1. MadeBy(x)' = MadeBy(x) /\ q.pc = "allocate"
          BY <4>3, BatchInserts DEF Inserts, Allocates
        <5>2. n.made = q.made + 1 /\ n.pc = AfterAllocation(w, n.due)
          BY <1>1, <4>3 DEF Allocates, Loop
        <5>3. n.pc # "allocate"
          BY <1>1, <5>2 DEF AfterAllocation, Loop
        <5> QED BY <1>t, <2>0, <5>1, <5>2, <5>3 DEF Made
      <4> QED BY <2>2, <4>1, <4>2, <4>3
    <3>2. batch' = batch
      BY <2>2 DEF Numbers, Inserts, Allocates
    <3> QED BY <2>0, <2>1, <2>2, <3>1, <3>2 DEF CountAt, Loop
  <2>3. CASE SavesBatch(w) /\ batch'[x].st = "completed"
    <3>1. q.pc = "save_batch" /\ n.pc = "respond" /\ batch'[x].count = q.made
             /\ MadeBy(x)' = MadeBy(x)
      BY <1>t, <1>1, <2>3, BatchInserts DEF SavesBatch, Inserts, Loop
    <3>2. \A v \in Workers : ~Loop(req'[v], x)
      BY <2>1, <3>1 DEF Loop, PayLabels
    <3> QED BY <1>t, <2>0, <2>3, <3>1, <3>2 DEF CountAt, Made
  <2> QED BY <1>1, <2>2, <2>3, LoopGoesOn
<1>2. CASE ~Loop(q, x)
  <2>1. MadeBy(x)' = MadeBy(x)
    BY <1>2, BatchInserts
  <2>2. CASE Loop(n, x)
    <3>1. q.d = x /\ batch[x].st = "draft" /\ batch' = batch /\ Made(n) = 0
      BY <1>2, <2>2, LoopBegins
    <3>2. \A v \in Workers \ {w} : req[v].d # x /\ req'[v].d # x
      BY <3>1 DEF OneBatch, Others
    <3>3. MadeBy(x) = {}
      BY <1>2, <3>1, <3>2 DEF CountAt, Loop
    <3> QED BY <2>1, <2>2, <3>1, <3>2, <3>3, FS_EmptySet DEF CountAt, Loop
  <2>3. CASE ~Loop(n, x)
    <3>1. \A v \in Workers : Loop(req'[v], x) => Loop(req[v], x) /\ req'[v] = req[v]
      BY <2>3 DEF Others
    <3>2. (\A v \in Workers : ~Loop(req'[v], x)) => \A v \in Workers : ~Loop(req[v], x)
      BY <1>2 DEF Others
    <3>3. batch'[x].st = "completed" => batch[x].st = "completed"
      <4>1. ASSUME batch'[x].st = "completed", batch[x].st # "completed" PROVE FALSE
        <5>1. SavesBatch(w) /\ q.d = x
          <6>1. CASE MakesBatch(w)
            BY <1>t, <4>1, <6>1 DEF MakesBatch, Batch
          <6>2. CASE Counts(w) \/ SavesBatch(w)
            <7>1. q.d \in Batches
              BY <1>t, <6>2, LocalKinds DEF Counts, SavesBatch
            <7> QED BY <1>t, <4>1, <6>2, <7>1 DEF Counts, SavesBatch
          <6> QED BY <4>1, <6>1, <6>2, PayTables
        <5>2. q.pc = "save_batch" /\ q.op = "process"
          BY <1>t, <5>1, LocalKinds DEF SavesBatch
        <5> QED BY <1>2, <5>1, <5>2 DEF Loop
      <4> QED BY <4>1
    <3>4. batch[x].st = "completed" => batch'[x] = batch[x]
      BY CompletedStays
    <3> QED BY <2>1, <3>1, <3>2, <3>3, <3>4 DEF CountAt
  <2> QED BY <2>2, <2>3
<1> QED BY <1>1, <1>2

LEMMA CountStep ==
    ASSUME TypeInv, TypeInv', OneBatchInv, ClerkInv, CountInv, [Next]_vars
    PROVE  CountInv'
<1> SUFFICES ASSUME Apart("batch"), OneBatch, ClerkAll, aborts' = 0
             PROVE  \A x \in Batches : CountAt(x)'
  BY CareStays DEF OneBatchInv, ClerkInv, CountInv
<1>1. ASSUME NEW w \in Workers, Others(w), Effect(w), aborts' = 0, NEW x \in Batches
      PROVE  CountAt(x)'
  <2>1. ~Dies(w) /\ aborts = 0
    BY <1>1, AbortsCounted DEF Dies, TypeInv, TypeOK
  <2> QED BY <1>1, <2>1, CountHere DEF CountInv
<1>2. CASE UNCHANGED vars
  BY <1>2 DEF vars, CountInv, CountAt, MadeBy, Loop, Made
<1> QED BY <1>1, <1>2, NextEffect

\* A batch that is worked on in one place at a time and shown as completed counts the
\* payments that carry its number, whatever other payments are entered meanwhile, as long
\* as no request has ended half-way.
THEOREM BatchesAreCounted == Spec => []BatchIsCounted
<1>1. ASSUME Init PROVE CountInv
  <2>1. ASSUME NEW x \in Batches PROVE CountAt(x)
    BY <1>1, PayablesAssumption DEF Init, CountAt, MadeBy, Loop, Idle
  <2> QED BY <2>1 DEF CountInv
<1>2. TypeInv /\ TypeInv' /\ OneBatchInv /\ ClerkInv /\ CountInv /\ [Next]_vars => CountInv'
  BY CountStep
<1>3. CountInv => BatchIsCounted
  BY DEF CountInv, CountAt, MadeBy, BatchIsCounted
<1> QED BY <1>1, <1>2, <1>3, TypesHold, OneBatchHolds, ClerkHolds, PTL DEF Spec
=============================================================================
