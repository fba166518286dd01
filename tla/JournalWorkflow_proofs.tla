------------------------ MODULE JournalWorkflow_proofs ------------------------
(***************************************************************************)
(* Theorems about JournalWorkflow, for any number of workers, entries,     *)
(* periods, checklist steps and approval rows, and any amounts.  Those of  *)
(* the second half name, in Exclusive, the requests that the users must    *)
(* keep apart.                                                             *)
(***************************************************************************)
EXTENDS JournalWorkflow, TLAPS

-----------------------------------------------------------------------------
(* Types.  TypeOK lets a request have no entry, period or step; it is          *)
(* inductive together with what each statement needs of them.                  *)

PeriodLabels == {"seed", "toggle", "count_unposted", "close"}

Placed(r) ==
    /\ r.pc \notin {"idle", "number"} \cup PeriodLabels => r.j \in Journals
    /\ r.pc \in PeriodLabels => r.copy.per \in Periods
    /\ r.pc = "toggle" => r.step \in Steps

Local == {r \in Request : Placed(r)}

TypeInv == TypeOK /\ req \in [Workers -> Local]

\* An idle worker's local values, and the empty rows they hold, are well typed.
LEMMA EmptyTypes ==
    /\ NoEntry \in JournalEntry
    /\ NoLines \in EntryLines
    /\ Idle \in Local
<1>1. NoEntry \in JournalEntry
  BY DEF NoEntry, JournalEntry, Statuses
<1>2. NoLines \in EntryLines
  BY DEF NoLines, EntryLines
<1>3. Idle \in Request
  BY <1>1, <1>2 DEF Idle, Request, Ops, Labels, Statuses, StepStatus
<1> QED BY <1>1, <1>2, <1>3 DEF Local, Placed, Idle, PeriodLabels

LEMMA FormTypes == FormLines \subseteq EntryLines
<1>1. Amounts \cup {0} \subseteq Nat
  BY ConstantsAssumption
<1> QED BY <1>1 DEF FormLines, EntryLines

\* A step that writes no table keeps the types if the worker's new local values
\* are well typed.
LEMMA LocalStep ==
    ASSUME TypeInv, NEW w \in Workers, NEW r \in Local,
           req' = [req EXCEPT ![w] = r], UNCHANGED <<tables, crashes>>
    PROVE  TypeInv'
  BY DEF TypeInv, TypeOK, tables, Local

\* What the types say of the local values of one worker.
LEMMA LocalTypes ==
    ASSUME TypeInv, NEW w \in Workers
    PROVE  /\ req[w] \in Local
           /\ req[w] \in Request
           /\ Placed(req[w])
           /\ req[w].op \in Ops \cup {"none"}
           /\ req[w].copy \in JournalEntry
           /\ req[w].copy.st \in Statuses
           /\ req[w].copy.per \in Periods \cup {0}
           /\ req[w].line \in EntryLines
           /\ req[w].todo \in SUBSET Sides
           /\ req[w].apr \in Rows \cup {0}
  BY DEF TypeInv, Local, Request, JournalEntry

\* Moving on to another statement about the same entry.
LEMMA GotoType ==
    ASSUME TypeInv, NEW w \in Workers, req[w].j \in Journals,
           NEW label \in Labels \ ({"idle", "number"} \cup PeriodLabels),
           Goto(w, label)
    PROVE  req' \in [Workers -> Local]
<1> DEFINE r == [req[w] EXCEPT !.pc = label]
<1>1. r \in Request
  BY LocalTypes DEF Request
<1>2. Placed(r)
  BY <1>1 DEF Placed, PeriodLabels, Request
<1> QED BY <1>1, <1>2 DEF Goto, TypeInv, Local

LEMMA FinishType ==
    ASSUME TypeInv, NEW w \in Workers, Finish(w)
    PROVE  req' \in [Workers -> Local]
  BY EmptyTypes DEF Finish, TypeInv

LEMMA AddApprovalType ==
    ASSUME TypeOK, NEW j \in Journals, NEW status \in ApprovalStatus,
           AddApproval(j, status)
    PROVE  approvals' \in [Journals -> [Rows -> ApprovalStatus]]
  BY DEF AddApproval, TypeOK

\* A step that writes tables keeps the types if each of them does.
LEMMA TypesTogether ==
    ASSUME req' \in [Workers -> Local],
           je' \in [Journals -> JournalEntry], lines' \in [Journals -> EntryLines],
           approvals' \in [Journals -> [Rows -> ApprovalStatus]],
           closed' \in [Periods -> BOOLEAN],
           checklist' \in [Periods -> [Steps -> StepStatus]],
           audit' \in [Journals -> Statuses], crashes' \in 0..MaxCrashes
    PROVE  TypeInv'
  BY DEF TypeInv, TypeOK, Local

LEMMA InitTypes == Init => TypeInv
<1> SUFFICES ASSUME Init PROVE TypeInv
  OBVIOUS
<1>1. 0 \in 0..MaxCrashes
  BY ConstantsAssumption
<1> QED
  BY <1>1, EmptyTypes DEF Init, TypeInv, TypeOK, Local, ApprovalStatus, StepStatus, Statuses

LEMMA StartTypes ==
    ASSUME TypeInv, NEW w \in Workers, Start(w)
    PROVE  TypeInv'
<1> USE DEF Request, Idle, Ops, Labels, Statuses, StepStatus, Placed, PeriodLabels, Local
<1>1. CASE CreateStart(w)
  <2>1. PICK p \in Periods, line \in FormLines :
           req' = [req EXCEPT ![w] = [Idle EXCEPT !.op = "create", !.pc = "number",
                      !.copy = [st |-> "draft", per |-> p], !.line = line, !.todo = Sides]]
    BY <1>1 DEF CreateStart
  <2>2. line \in EntryLines
    BY <2>1, FormTypes
  <2>3. [st |-> "draft", per |-> p] \in JournalEntry
    BY DEF JournalEntry
  <2>4. [Idle EXCEPT !.op = "create", !.pc = "number", !.copy = [st |-> "draft", per |-> p],
                     !.line = line, !.todo = Sides] \in Local
    BY <2>2, <2>3
  <2> QED BY <1>1, <2>1, <2>4, LocalStep, ZenonT(40) DEF CreateStart
<1>2. CASE AllocateStart(w)
  <2>1. PICK p \in Periods, a \in Amounts \cup {0} :
           req' = [req EXCEPT ![w] = [Idle EXCEPT !.op = "allocate", !.pc = "number",
                      !.copy = [st |-> "draft", per |-> p],
                      !.line = [NoLines EXCEPT !["dr"] = a], !.todo = {"dr"}]]
    BY <1>2 DEF AllocateStart
  <2>2. [NoLines EXCEPT !["dr"] = a] \in EntryLines
    BY ConstantsAssumption, EmptyTypes DEF EntryLines
  <2>3. [st |-> "draft", per |-> p] \in JournalEntry
    BY DEF JournalEntry
  <2>4. {"dr"} \in SUBSET Sides
    BY DEF Sides
  <2>5. [Idle EXCEPT !.op = "allocate", !.pc = "number", !.copy = [st |-> "draft", per |-> p],
                     !.line = [NoLines EXCEPT !["dr"] = a], !.todo = {"dr"}] \in Local
    BY <2>2, <2>3, <2>4
  <2> QED BY <1>2, <2>1, <2>5, LocalStep, ZenonT(40) DEF AllocateStart
<1>3. ASSUME NEW j \in Journals, EditStart(w, j) PROVE TypeInv'
  <2>1. je[j] \in JournalEntry
    BY DEF TypeInv, TypeOK
  <2>2. [Idle EXCEPT !.op = "edit", !.pc = "validate", !.j = j, !.copy = je[j]] \in Local
    BY <2>1, EmptyTypes
  <2> QED BY <1>3, <2>2, LocalStep, ZenonT(40) DEF EditStart
<1>4. ASSUME NEW j \in Journals, SubmitStart(w, j) PROVE TypeInv'
  <2>1. je[j] \in JournalEntry
    BY DEF TypeInv, TypeOK
  <2>2. [Idle EXCEPT !.op = "submit", !.pc = "sum_debits", !.j = j, !.copy = je[j]] \in Local
    BY <2>1, EmptyTypes
  <2> QED BY <1>4, <2>2, LocalStep DEF SubmitStart
<1>5. ASSUME NEW j \in Journals, PostStart(w, j) PROVE TypeInv'
  <2>1. [je[j] EXCEPT !.st = "posted"] \in JournalEntry
    BY DEF TypeInv, TypeOK, JournalEntry
  <2>2. [Idle EXCEPT !.op = "post", !.pc = "pre_save", !.j = j,
                     !.copy = [je[j] EXCEPT !.st = "posted"]] \in Local
    BY <2>1, EmptyTypes
  <2> QED BY <1>5, <2>2, LocalStep DEF PostStart
<1>6. ASSUME NEW j \in Journals, NEW op \in {"approve", "reject"}, DecideStart(w, j, op)
      PROVE  TypeInv'
  <2>1. je[j] \in JournalEntry
    BY DEF TypeInv, TypeOK
  <2>2. [Idle EXCEPT !.op = op, !.pc = "find_row", !.j = j, !.copy = je[j]] \in Local
    BY <2>1, EmptyTypes
  <2> QED BY <1>6, <2>2, LocalStep DEF DecideStart
<1>7. ASSUME NEW p \in Periods, ChecklistStart(w, p) \/ CloseStart(w, p) PROVE TypeInv'
  <2>1. [NoEntry EXCEPT !.per = p] \in JournalEntry
    BY DEF NoEntry, JournalEntry
  <2>2. [NoEntry EXCEPT !.per = p].per = p
    BY DEF NoEntry
  <2>3. PeriodRequest("checklist", "seed", p) \in Local
    BY <2>1, <2>2, EmptyTypes DEF PeriodRequest
  <2>4. PeriodRequest("close", "count_unposted", p) \in Local
    BY <2>1, <2>2, EmptyTypes DEF PeriodRequest
  <2> QED BY <1>7, <2>3, <2>4, LocalStep DEF ChecklistStart, CloseStart
<1> QED
  BY <1>1, <1>2, <1>3, <1>4, <1>5, <1>6, <1>7 DEF Start

LEMMA ContinueTypes ==
    ASSUME TypeInv, NEW w \in Workers, Continue(w)
    PROVE  TypeInv'
<1> DEFINE r == req[w]
<1>0. /\ r \in Local
      /\ r \in Request
      /\ Placed(r)
      /\ r.op \in Ops \cup {"none"}
      /\ r.copy \in JournalEntry
      /\ r.copy.st \in Statuses
      /\ r.copy.per \in Periods \cup {0}
      /\ r.line \in EntryLines
      /\ r.todo \in SUBSET Sides
      /\ r.apr \in Rows \cup {0}
  BY LocalTypes
<1>t. TypeOK
  BY DEF TypeInv
<1>1. CASE GenerateNumber(w)
  <2>1. PICK n \in Journals : req' = [req EXCEPT ![w].pc = "insert", ![w].j = n]
    BY <1>1 DEF GenerateNumber
  <2>2. [r EXCEPT !.pc = "insert", !.j = n] \in Local
    BY <1>0 DEF Local, Request, Placed, Labels, PeriodLabels
  <2>3. req' = [req EXCEPT ![w] = [r EXCEPT !.pc = "insert", !.j = n]]
    BY <2>1
  <2> QED BY <1>1, <2>2, <2>3, LocalStep DEF GenerateNumber
<1>2. CASE InsertHeader(w)
  <2>1. r.j \in Journals
    BY <1>0, <1>2 DEF InsertHeader, At, Placed, PeriodLabels
  <2>2. req' \in [Workers -> Local]
    BY <1>2, <2>1, GotoType, FinishType DEF InsertHeader, Labels, PeriodLabels
  <2>3. je' \in [Journals -> JournalEntry]
    BY <1>0, <1>t, <1>2 DEF InsertHeader, TypeOK
  <2> QED BY <1>t, <1>2, <2>2, <2>3, TypesTogether DEF InsertHeader, TypeOK
<1>3. CASE SaveLine(w)
  <2>1. r.j \in Journals
    BY <1>0, <1>3 DEF SaveLine, At, Placed, PeriodLabels
  <2>2. PICK s \in r.todo :
          /\ lines' = [lines EXCEPT ![r.j][s] = SavedSide(w, s)]
          /\ \/ req' = [req EXCEPT ![w].todo = @ \ {s}]
             \/ Goto(w, "total")
             \/ Finish(w)
    BY <1>3 DEF SaveLine
  <2>3. [r EXCEPT !.todo = r.todo \ {s}] \in Local
    BY <1>0 DEF Local, Request, Placed
  <2>4. req' \in [Workers -> Local]
    <3>1. CASE req' = [req EXCEPT ![w].todo = @ \ {s}]
      BY <2>3, <3>1 DEF TypeInv
    <3> QED BY <2>1, <2>2, <3>1, GotoType, FinishType DEF Labels, PeriodLabels
  <2>5. lines[r.j] \in EntryLines /\ s \in Sides
    BY <1>0, <1>t, <2>1 DEF TypeOK
  <2>6. SavedSide(w, s) \in Nat
    BY <1>0, <2>5 DEF SavedSide, EntryLines
  <2>7. lines' \in [Journals -> EntryLines]
    BY <1>t, <2>1, <2>2, <2>5, <2>6 DEF TypeOK, EntryLines
  <2> QED BY <1>t, <1>3, <2>4, <2>7, TypesTogether DEF SaveLine, TypeOK
<1>4. CASE AllocationTotal(w)
  <2> DEFINE total == lines[r.j]["dr"]
             next == [r EXCEPT !.pc = "lines", !.todo = {"cr"},
                               !.line = [r.line EXCEPT !["cr"] = total]]
  <2>1. r.j \in Journals
    BY <1>0, <1>4 DEF AllocationTotal, At, Placed, PeriodLabels
  <2>2. total \in Nat
    BY <1>t, <2>1 DEF TypeOK, EntryLines, Sides
  <2>3. [r.line EXCEPT !["cr"] = total] \in EntryLines /\ {"cr"} \in SUBSET Sides
    BY <1>0, <2>2 DEF EntryLines, Sides
  <2>4. next \in Local
    BY <1>0, <2>1, <2>3 DEF Local, Request, Placed, Labels, PeriodLabels
  <2>5. CASE Finish(w)
    BY <1>4, <2>5, LocalStep, EmptyTypes DEF AllocationTotal, Finish
  <2>6. CASE req' = [req EXCEPT ![w] = next]
    BY <1>4, <2>4, <2>6, LocalStep DEF AllocationTotal
  <2>7. Finish(w) \/ req' = [req EXCEPT ![w] = next]
    BY <1>4 DEF AllocationTotal
  <2> QED BY <2>5, <2>6, <2>7
<1>5. CASE CaptureOldValues(w)
  <2>1. r.j \in Journals
    BY <1>0, <1>5 DEF CaptureOldValues, At, Placed, PeriodLabels
  <2>2. je[r.j].st \in Statuses
    BY <1>t, <2>1 DEF TypeOK, JournalEntry
  <2>3. [r EXCEPT !.pc = "update", !.old = je[r.j].st] \in Local
    BY <1>0, <2>1, <2>2 DEF Local, Request, Placed, Labels, PeriodLabels
  <2>4. req' = [req EXCEPT ![w] = [r EXCEPT !.pc = "update", !.old = je[r.j].st]]
    BY <1>5 DEF CaptureOldValues
  <2> QED BY <1>5, <2>3, <2>4, LocalStep DEF CaptureOldValues
<1>6. CASE UpdateRow(w)
  <2>1. r.j \in Journals
    BY <1>0, <1>6 DEF UpdateRow, At, Placed, PeriodLabels
  <2>2. req' \in [Workers -> Local]
    BY <1>6, <2>1, GotoType DEF UpdateRow, Labels, PeriodLabels
  <2>3. je' \in [Journals -> JournalEntry]
    BY <1>0, <1>t, <1>6 DEF UpdateRow, TypeOK
  <2> QED BY <1>t, <1>6, <2>2, <2>3, TypesTogether DEF UpdateRow, TypeOK
<1>7. CASE LogAuditTrail(w)
  <2>1. r.j \in Journals
    BY <1>0, <1>7 DEF LogAuditTrail, At, Placed, PeriodLabels
  <2>2. AfterSave(r.op) \in {"lines", "approval_row", "idle"}
    BY DEF AfterSave
  <2>3. CASE AfterSave(r.op) = "idle"
    <3>1. req' \in [Workers -> Local]
      BY <1>7, <2>3, FinishType DEF LogAuditTrail
    <3>2. audit' \in [Journals -> Statuses]
      BY <1>0, <1>t, <1>7 DEF LogAuditTrail, TypeOK
    <3> QED BY <1>t, <1>7, <3>1, <3>2, TypesTogether DEF LogAuditTrail, TypeOK
  <2>4. CASE AfterSave(r.op) # "idle"
    <3>1. req' \in [Workers -> Local]
      BY <1>7, <2>1, <2>2, <2>4, GotoType DEF LogAuditTrail, Labels, PeriodLabels
    <3>2. audit' \in [Journals -> Statuses]
      BY <1>0, <1>t, <1>7 DEF LogAuditTrail, TypeOK
    <3> QED BY <1>t, <1>7, <3>1, <3>2, TypesTogether DEF LogAuditTrail, TypeOK
  <2> QED BY <2>3, <2>4
<1>8. CASE EditValidate(w)
  <2>1. r.j \in Journals
    BY <1>0, <1>8 DEF EditValidate, At, Placed, PeriodLabels
  <2>2. CASE Finish(w)
    BY <1>8, <2>2, LocalStep, EmptyTypes DEF EditValidate, Finish
  <2>3. CASE ~Finish(w)
    <3>1. PICK p \in Periods, line \in FormLines :
             req' = [req EXCEPT ![w].pc = "pre_save", ![w].copy.per = p,
                                ![w].line = line, ![w].todo = Sides]
      BY <1>8, <2>3 DEF EditValidate
    <3> DEFINE next == [r EXCEPT !.pc = "pre_save", !.copy = [r.copy EXCEPT !.per = p],
                                 !.line = line, !.todo = Sides]
    <3>2. line \in EntryLines
      BY <3>1, FormTypes
    <3>3. [r.copy EXCEPT !.per = p] \in JournalEntry
      BY <1>0 DEF JournalEntry
    <3>4. next \in Local
      BY <1>0, <2>1, <3>2, <3>3 DEF Local, Request, Placed, Labels, PeriodLabels
    <3>5. req' = [req EXCEPT ![w] = next]
      BY <3>1
    <3> QED BY <1>8, <3>4, <3>5, LocalStep DEF EditValidate
  <2> QED BY <2>2, <2>3
<1>9. CASE SumDebits(w)
  <2>1. r.j \in Journals
    BY <1>0, <1>9 DEF SumDebits, At, Placed, PeriodLabels
  <2>2. lines[r.j]["dr"] \in Nat
    BY <1>t, <2>1 DEF TypeOK, EntryLines, Sides
  <2>3. [r EXCEPT !.pc = "sum_credits", !.sum = lines[r.j]["dr"]] \in Local
    BY <1>0, <2>1, <2>2 DEF Local, Request, Placed, Labels, PeriodLabels
  <2>4. req' = [req EXCEPT ![w] = [r EXCEPT !.pc = "sum_credits", !.sum = lines[r.j]["dr"]]]
    BY <1>9 DEF SumDebits
  <2> QED BY <1>9, <2>3, <2>4, LocalStep DEF SumDebits
<1>10. CASE SumCredits(w)
  <2> DEFINE next == [r EXCEPT !.pc = "pre_save", !.copy = [r.copy EXCEPT !.st = "pending"]]
  <2>1. r.j \in Journals
    BY <1>0, <1>10 DEF SumCredits, At, Placed, PeriodLabels
  <2>2. [r.copy EXCEPT !.st = "pending"] \in JournalEntry
    BY <1>0 DEF JournalEntry, Statuses
  <2>3. next \in Local
    BY <1>0, <2>1, <2>2 DEF Local, Request, Placed, Labels, PeriodLabels
  <2>4. CASE lines[r.j]["cr"] = r.sum
    <3>1. req' = [req EXCEPT ![w].pc = "pre_save", ![w].copy.st = "pending"]
      BY <1>10, <2>4 DEF SumCredits
    <3>2. req' = [req EXCEPT ![w] = next]
      BY <3>1
    <3> QED BY <1>10, <2>3, <3>2, LocalStep DEF SumCredits
  <2>5. CASE lines[r.j]["cr"] # r.sum
    BY <1>10, <2>5, LocalStep, EmptyTypes DEF SumCredits, Finish
  <2> QED BY <2>4, <2>5
<1>11. CASE CreateApproval(w)
  <2>1. r.j \in Journals
    BY <1>0, <1>11 DEF CreateApproval, At, Placed, PeriodLabels
  <2>2. req' \in [Workers -> Local]
    BY <1>11, FinishType DEF CreateApproval
  <2>3. approvals' \in [Journals -> [Rows -> ApprovalStatus]]
    BY <1>t, <1>11, <2>1, AddApprovalType DEF CreateApproval, ApprovalStatus
  <2> QED BY <1>t, <1>11, <2>2, <2>3, TypesTogether DEF CreateApproval, TypeOK
<1>12. CASE FindPendingRow(w)
  <2>1. r.j \in Journals
    BY <1>0, <1>12 DEF FindPendingRow, At, Placed, PeriodLabels
  <2>2. CASE Goto(w, "save_row")
    <3>1. req' \in [Workers -> Local]
      BY <2>1, <2>2, GotoType DEF Labels, PeriodLabels
    <3> QED BY <1>t, <1>12, <3>1, TypesTogether DEF FindPendingRow, TypeOK, tables
  <2>3. CASE ~Goto(w, "save_row")
    <3>1. PICK k \in Rows : req' = [req EXCEPT ![w].pc = "save_row", ![w].apr = k]
      BY <1>12, <2>3 DEF FindPendingRow
    <3>2. [r EXCEPT !.pc = "save_row", !.apr = k] \in Local
      BY <1>0, <2>1 DEF Local, Request, Placed, Labels, PeriodLabels
    <3>3. req' = [req EXCEPT ![w] = [r EXCEPT !.pc = "save_row", !.apr = k]]
      BY <3>1
    <3> QED BY <1>12, <3>2, <3>3, LocalStep DEF FindPendingRow
  <2> QED BY <2>2, <2>3
<1>13. CASE SaveDecision(w)
  <2> DEFINE decision == Decision(r.op)
             next == [r EXCEPT !.pc = "pre_save", !.copy = [r.copy EXCEPT !.st = decision]]
  <2>1. r.j \in Journals
    BY <1>0, <1>13 DEF SaveDecision, At, Placed, PeriodLabels
  <2>2. decision \in {"approved", "rejected"}
    BY DEF Decision
  <2>3. [r.copy EXCEPT !.st = decision] \in JournalEntry
    BY <1>0, <2>2 DEF JournalEntry, Statuses
  <2>4. next \in Local
    BY <1>0, <2>1, <2>3 DEF Local, Request, Placed, Labels, PeriodLabels
  <2>5. req' = [req EXCEPT ![w] = next]
    BY <1>13 DEF SaveDecision
  <2>6. req' \in [Workers -> Local]
    BY <2>4, <2>5 DEF TypeInv
  <2>7. approvals' \in [Journals -> [Rows -> ApprovalStatus]]
    <3>1. decision \in ApprovalStatus
      BY <2>2 DEF ApprovalStatus
    <3>2. CASE AddApproval(r.j, decision)
      BY <1>t, <2>1, <3>1, <3>2, AddApprovalType
    <3>3. CASE r.apr # 0 /\ approvals' = [approvals EXCEPT ![r.j][r.apr] = decision]
      BY <1>t, <2>1, <3>1, <3>3 DEF TypeOK
    <3> QED BY <1>13, <3>2, <3>3 DEF SaveDecision
  <2> QED BY <1>t, <1>13, <2>6, <2>7, TypesTogether DEF SaveDecision, TypeOK
<1>14. CASE SeedChecklist(w)
  <2> DEFINE p == r.copy.per
  <2>1. p \in Periods
    BY <1>0, <1>14 DEF SeedChecklist, At, Placed, PeriodLabels
  <2>2. req' \in [Workers -> Local]
    <3>1. ASSUME NEW s \in Steps,
                 req' = [req EXCEPT ![w].pc = "toggle", ![w].step = s,
                                    ![w].seen = checklist[p][s]]
          PROVE  req' \in [Workers -> Local]
      <4> DEFINE next == [r EXCEPT !.pc = "toggle", !.step = s, !.seen = checklist[p][s]]
      <4>1. checklist[p][s] \in StepStatus
        BY <1>t, <2>1 DEF TypeOK
      <4>2. next \in Local
        BY <1>0, <2>1, <4>1 DEF Local, Request, Placed, Labels, PeriodLabels
      <4>3. req' = [req EXCEPT ![w] = next]
        BY <3>1
      <4> QED BY <4>2, <4>3 DEF TypeInv
    <3>2. CASE UNCHANGED req \/ Finish(w)
      BY <3>2, FinishType DEF TypeInv
    <3>3. CASE ~(UNCHANGED req \/ Finish(w))
      <4>1. PICK s \in Steps :
               req' = [req EXCEPT ![w].pc = "toggle", ![w].step = s,
                                  ![w].seen = checklist[p][s]]
        BY <1>14, <3>3 DEF SeedChecklist
      <4> QED BY <3>1, <4>1
    <3> QED BY <3>2, <3>3
  <2>3. checklist' \in [Periods -> [Steps -> StepStatus]]
    <3>1. CASE UNCHANGED checklist
      BY <1>t, <3>1 DEF TypeOK
    <3>2. CASE ~UNCHANGED checklist
      <4>1. PICK s \in Steps : checklist' = [checklist EXCEPT ![p][s] = "todo"]
        BY <1>14, <3>2 DEF SeedChecklist
      <4> QED BY <1>t, <2>1, <4>1 DEF TypeOK, StepStatus
    <3> QED BY <3>1, <3>2
  <2> QED BY <1>t, <1>14, <2>2, <2>3, TypesTogether DEF SeedChecklist, TypeOK
<1>15. CASE ToggleStep(w)
  <2>1. r.copy.per \in Periods /\ r.step \in Steps
    BY <1>0, <1>15 DEF ToggleStep, At, Placed, PeriodLabels
  <2>2. req' \in [Workers -> Local]
    BY <1>15, FinishType DEF ToggleStep
  <2>3. checklist' \in [Periods -> [Steps -> StepStatus]]
    BY <1>t, <1>15, <2>1 DEF ToggleStep, TypeOK, StepStatus
  <2> QED BY <1>t, <1>15, <2>2, <2>3, TypesTogether DEF ToggleStep, TypeOK
<1>16. CASE CountUnposted(w)
  <2>1. r.copy.per \in Periods
    BY <1>0, <1>16 DEF CountUnposted, At, Placed, PeriodLabels
  <2>2. [r EXCEPT !.pc = "close"] \in Local
    BY <1>0, <2>1 DEF Local, Request, Placed, Labels, PeriodLabels
  <2>3. req' = [req EXCEPT ![w] = [r EXCEPT !.pc = "close"]] \/ req' = [req EXCEPT ![w] = Idle]
    BY <1>16 DEF CountUnposted, Goto, Finish
  <2> QED BY <1>16, <2>2, <2>3, LocalStep, EmptyTypes DEF CountUnposted
<1>17. CASE ClosePeriod(w)
  <2>1. req' \in [Workers -> Local]
    BY <1>17, FinishType DEF ClosePeriod
  <2>2. closed' \in [Periods -> BOOLEAN]
    BY <1>t, <1>17 DEF ClosePeriod, TypeOK
  <2> QED BY <1>t, <1>17, <2>1, <2>2, TypesTogether DEF ClosePeriod, TypeOK
<1> QED
  BY <1>1, <1>2, <1>3, <1>4, <1>5, <1>6, <1>7, <1>8, <1>9, <1>10, <1>11, <1>12, <1>13,
     <1>14, <1>15, <1>16, <1>17 DEF Continue

LEMMA NextTypes == TypeInv /\ [Next]_vars => TypeInv'
<1> SUFFICES ASSUME TypeInv, [Next]_vars PROVE TypeInv'
  OBVIOUS
<1>1. ASSUME NEW w \in Workers, Start(w) PROVE TypeInv'
  BY <1>1, StartTypes
<1>2. ASSUME NEW w \in Workers, Continue(w) PROVE TypeInv'
  BY <1>2, ContinueTypes
<1>3. ASSUME NEW w \in Workers, Crash(w) PROVE TypeInv'
  <2>1. req' \in [Workers -> Local]
    BY <1>3, FinishType DEF Crash
  <2>2. crashes' \in 0..MaxCrashes
    BY <1>3, ConstantsAssumption DEF Crash, TypeInv, TypeOK
  <2> QED BY <1>3, <2>1, <2>2, TypesTogether DEF Crash, TypeInv, TypeOK, tables
<1>4. ASSUME NEW p \in Periods, ReopenPeriod(p) PROVE TypeInv'
  <2>1. closed' \in [Periods -> BOOLEAN]
    BY <1>4 DEF ReopenPeriod, TypeInv, TypeOK
  <2> QED BY <1>4, <2>1, TypesTogether DEF ReopenPeriod, TypeInv, TypeOK
<1>5. CASE UNCHANGED vars
  BY <1>5 DEF vars, TypeInv, TypeOK
<1> QED BY <1>1, <1>2, <1>3, <1>4, <1>5 DEF Next

\* Every statement of every request leaves the tables and the local values in
\* their domains: no view saves a status or a period the columns do not have.
THEOREM TypeCorrect == Spec => []TypeOK
<1>1. TypeInv => TypeOK
  BY DEF TypeInv
<1> QED BY <1>1, InitTypes, NextTypes, PTL DEF Spec

-----------------------------------------------------------------------------
(* Decisions.  Once an approval row carries a decision it always will, and a   *)
(* request that is about to write a decided status has seen such a row.        *)

Signed == {"approved", "rejected", "posted"}

Decided(j) == \E k \in Rows : approvals[j][k] \in {"approved", "rejected"}

Entitled(r) ==
    /\ r.j \in Journals /\ r.copy.st \in Signed => Decided(r.j)
    /\ r.pc = "number" => r.copy.st = "draft"

DecisionInv ==
    /\ \A j \in Journals : je[j].st \in Signed => Decided(j)
    /\ \A w \in Workers : Entitled(req[w])

\* No statement turns a decided row back, or removes one.
LEMMA DecidedStays ==
    ASSUME TypeInv, [Next]_vars, NEW j \in Journals, Decided(j)
    PROVE  Decided(j)'
<1>t. TypeOK
  BY DEF TypeInv
<1>1. PICK k \in Rows : approvals[j][k] \in {"approved", "rejected"}
  BY DEF Decided
<1>2. ASSUME NEW i \in Journals, NEW status \in ApprovalStatus, AddApproval(i, status)
      PROVE  approvals'[j][k] = approvals[j][k]
  BY <1>t, <1>1, <1>2 DEF AddApproval, TypeOK
<1>3. ASSUME NEW w \in Workers, CreateApproval(w)
      PROVE  approvals'[j][k] = approvals[j][k]
  <2>1. req[w].j \in Journals
    BY <1>3, LocalTypes DEF CreateApproval, At, Placed, PeriodLabels
  <2> QED BY <1>2, <1>3, <2>1 DEF CreateApproval, ApprovalStatus
<1>4. ASSUME NEW w \in Workers, SaveDecision(w)
      PROVE  approvals'[j][k] \in {"approved", "rejected"}
  <2>1. req[w].j \in Journals /\ req[w].apr \in Rows \cup {0}
    BY <1>4, LocalTypes DEF SaveDecision, At, Placed, PeriodLabels
  <2>2. Decision(req[w].op) \in {"approved", "rejected"}
    BY DEF Decision
  <2>3. CASE req[w].apr # 0 /\ approvals' = [approvals EXCEPT
                                ![req[w].j][req[w].apr] = Decision(req[w].op)]
    BY <1>t, <1>1, <2>1, <2>2, <2>3 DEF TypeOK
  <2>4. CASE AddApproval(req[w].j, Decision(req[w].op))
    BY <1>1, <1>2, <2>1, <2>2, <2>4 DEF ApprovalStatus
  <2> QED BY <1>4, <2>3, <2>4 DEF SaveDecision
<1>5. approvals' = approvals \/ \E w \in Workers : CreateApproval(w) \/ SaveDecision(w)
  BY ZenonT(40) DEF Next, vars, tables, Start, Continue, CreateStart, AllocateStart, EditStart,
         SubmitStart, PostStart, DecideStart, ChecklistStart, CloseStart, GenerateNumber,
         InsertHeader, SaveLine, AllocationTotal, CaptureOldValues, UpdateRow,
         LogAuditTrail, EditValidate, SumDebits, SumCredits, FindPendingRow,
         SeedChecklist, ToggleStep, CountUnposted, ClosePeriod, Crash, ReopenPeriod
<1> QED BY <1>1, <1>3, <1>4, <1>5 DEF Decided

\* A step of worker w keeps the invariant if it writes at most its local copy to
\* its entry's row, and its new local values satisfy their part.
LEMMA DecisionKept ==
    ASSUME TypeInv, DecisionInv, [Next]_vars, NEW w \in Workers, NEW next \in Request,
           req' = [req EXCEPT ![w] = next],
           \/ UNCHANGED je
           \/ req[w].j \in Journals /\ je' = [je EXCEPT ![req[w].j] = req[w].copy],
           next.j \in Journals /\ next.copy.st \in Signed => Decided(next.j)',
           next.pc = "number" => next.copy.st = "draft"
    PROVE  DecisionInv'
<1>1. \A j \in Journals : Decided(j) => Decided(j)'
  BY DecidedStays
<1>2. \A j \in Journals : je[j].st \in Signed => Decided(j)
  BY DEF DecisionInv
<1>3. req[w].j \in Journals /\ req[w].copy.st \in Signed => Decided(req[w].j)
  BY DEF DecisionInv, Entitled
<1>4. ASSUME NEW j \in Journals, je'[j].st \in Signed PROVE Decided(j)'
  <2>1. CASE UNCHANGED je
    BY <1>1, <1>2, <1>4, <2>1
  <2>2. CASE req[w].j \in Journals /\ je' = [je EXCEPT ![req[w].j] = req[w].copy]
    BY <1>1, <1>2, <1>3, <1>4, <2>2 DEF TypeInv, TypeOK
  <2> QED BY <2>1, <2>2
<1>5. ASSUME NEW v \in Workers
      PROVE  Entitled(req[v])'
  <2>1. CASE v = w
    <3>1. req'[v] = next
      BY <2>1 DEF TypeInv, TypeOK
    <3> QED BY <3>1 DEF Entitled, Decided
  <2>2. CASE v # w
    <3>1. req'[v] = req[v]
      BY <2>2 DEF TypeInv, TypeOK
    <3> QED BY <1>1, <3>1 DEF DecisionInv, Entitled, Decided
  <2> QED BY <2>1, <2>2
<1> QED BY <1>4, <1>5 DEF DecisionInv

\* The common case: a request moves on with its entry and its copy's status.
LEMMA DecisionMovesOn ==
    ASSUME TypeInv, DecisionInv, [Next]_vars, NEW w \in Workers, NEW next \in Request,
           req' = [req EXCEPT ![w] = next],
           \/ UNCHANGED je
           \/ req[w].j \in Journals /\ je' = [je EXCEPT ![req[w].j] = req[w].copy],
           next.j = req[w].j, next.copy.st = req[w].copy.st, next.pc # "number"
    PROVE  DecisionInv'
<1>1. next.j \in Journals /\ next.copy.st \in Signed => Decided(next.j)'
  BY DecidedStays DEF DecisionInv, Entitled
<1> QED BY <1>1, DecisionKept

LEMMA DecisionFinish ==
    ASSUME TypeInv, DecisionInv, [Next]_vars, NEW w \in Workers, Finish(w),
           \/ UNCHANGED je
           \/ req[w].j \in Journals /\ je' = [je EXCEPT ![req[w].j] = req[w].copy]
    PROVE  DecisionInv'
<1>1. Idle \in Request /\ Idle.j \notin Journals /\ Idle.pc # "number"
  BY EmptyTypes, ConstantsAssumption DEF Idle, Local, Journals
<1> QED BY <1>1, DecisionKept DEF Finish

LEMMA DecisionStart ==
    ASSUME TypeInv, DecisionInv, [Next]_vars, NEW w \in Workers, Start(w)
    PROVE  DecisionInv'
<1>0. 0 \notin Journals
  BY ConstantsAssumption DEF Journals
<1>r. req' \in [Workers -> Request]
  BY NextTypes DEF TypeInv, TypeOK
<1>w. ASSUME NEW next, req' = [req EXCEPT ![w] = next] PROVE next \in Request
  BY <1>r, <1>w DEF TypeInv, TypeOK
<1>1. CASE CreateStart(w) \/ AllocateStart(w)
  <2>1. req'[w].pc = "number" /\ req'[w].copy.st = "draft" /\ req'[w].j = 0
    <3>1. CASE CreateStart(w)
      <4>1. PICK p \in Periods, line \in FormLines :
           req' = [req EXCEPT ![w] = [Idle EXCEPT !.op = "create", !.pc = "number",
                      !.copy = [st |-> "draft", per |-> p], !.line = line, !.todo = Sides]]
        BY <3>1 DEF CreateStart
      <4> QED BY <4>1 DEF Idle, TypeInv, TypeOK
    <3>2. CASE AllocateStart(w)
      <4>1. PICK p \in Periods, a \in Amounts \cup {0} :
           req' = [req EXCEPT ![w] = [Idle EXCEPT !.op = "allocate", !.pc = "number",
                      !.copy = [st |-> "draft", per |-> p],
                      !.line = [NoLines EXCEPT !["dr"] = a], !.todo = {"dr"}]]
        BY <3>2 DEF AllocateStart
      <4> QED BY <4>1 DEF Idle, TypeInv, TypeOK
    <3> QED BY <1>1, <3>1, <3>2
  <2>2. req' = [req EXCEPT ![w] = req'[w]] /\ UNCHANGED je
    BY <1>1 DEF CreateStart, AllocateStart, tables, TypeInv, TypeOK
  <2> DEFINE next == req'[w]
  <2>3. /\ next \in Request
        /\ req' = [req EXCEPT ![w] = next]
        /\ next.j \notin Journals
        /\ next.pc = "number" => next.copy.st = "draft"
    BY <1>0, <1>r, <2>1, <2>2
  <2> HIDE DEF next
  <2> QED BY <2>2, <2>3, DecisionKept
<1>2. ASSUME NEW j \in Journals, EditStart(w, j) PROVE DecisionInv'
  <2> DEFINE next == [Idle EXCEPT !.op = "edit", !.pc = "validate", !.j = j, !.copy = je[j]]
  <2>1. req' = [req EXCEPT ![w] = next] /\ UNCHANGED je
    BY <1>2 DEF EditStart, tables
  <2>2. next.j = j /\ next.pc # "number"
    BY DEF Idle
  <2>3. next.copy.st \in Signed => Decided(j)
    BY <1>2 DEF EditStart, Idle, DecisionInv, Signed, TypeInv, TypeOK, JournalEntry
  <2>4. next \in Request
    BY <1>w, <2>1
  <2> HIDE DEF next
  <2> QED BY <2>1, <2>2, <2>3, <2>4, DecidedStays, DecisionKept
<1>3. ASSUME NEW j \in Journals, SubmitStart(w, j) PROVE DecisionInv'
  <2> DEFINE next == [Idle EXCEPT !.op = "submit", !.pc = "sum_debits", !.j = j, !.copy = je[j]]
  <2>1. req' = [req EXCEPT ![w] = next] /\ UNCHANGED je
    BY <1>3 DEF SubmitStart, tables
  <2>2. next.j = j /\ next.pc # "number"
    BY DEF Idle
  <2>3. next.copy.st \in Signed => Decided(j)
    BY <1>3 DEF SubmitStart, Idle, DecisionInv, Signed, TypeInv, TypeOK, JournalEntry
  <2>4. next \in Request
    BY <1>w, <2>1
  <2> HIDE DEF next
  <2> QED BY <2>1, <2>2, <2>3, <2>4, DecidedStays, DecisionKept
<1>4. ASSUME NEW j \in Journals, NEW op \in {"approve", "reject"}, DecideStart(w, j, op) PROVE DecisionInv'
  <2> DEFINE next == [Idle EXCEPT !.op = op, !.pc = "find_row", !.j = j, !.copy = je[j]]
  <2>1. req' = [req EXCEPT ![w] = next] /\ UNCHANGED je
    BY <1>4 DEF DecideStart, tables
  <2>2. next.j = j /\ next.pc # "number"
    BY DEF Idle
  <2>3. next.copy.st \in Signed => Decided(j)
    BY <1>4 DEF DecideStart, Idle, DecisionInv, Signed, TypeInv, TypeOK, JournalEntry
  <2>4. next \in Request
    BY <1>w, <2>1
  <2> HIDE DEF next
  <2> QED BY <2>1, <2>2, <2>3, <2>4, DecidedStays, DecisionKept
<1>5. ASSUME NEW j \in Journals, PostStart(w, j) PROVE DecisionInv'
  <2> DEFINE next == [Idle EXCEPT !.op = "post", !.pc = "pre_save", !.j = j,
                                 !.copy = [je[j] EXCEPT !.st = "posted"]]
  <2>1. req' = [req EXCEPT ![w] = next] /\ UNCHANGED je
    BY <1>5 DEF PostStart, tables
  <2>2. next.j = j /\ next.pc # "number"
    BY DEF Idle
  <2>3. next.copy.st \in Signed => Decided(j)
    BY <1>5 DEF PostStart, Idle, DecisionInv, Signed, TypeInv, TypeOK, JournalEntry
  <2>4. next \in Request
    BY <1>w, <2>1
  <2> HIDE DEF next
  <2> QED BY <2>1, <2>2, <2>3, <2>4, DecidedStays, DecisionKept
<1>6. ASSUME NEW p \in Periods, NEW op, NEW label \in PeriodLabels, UNCHANGED je,
             req' = [req EXCEPT ![w] = PeriodRequest(op, label, p)]
      PROVE  DecisionInv'
  <2> DEFINE next == PeriodRequest(op, label, p)
  <2>1. next.j = 0 /\ next.pc # "number"
    BY DEF PeriodRequest, Idle, PeriodLabels
  <2>2. next \in Request
    BY <1>w, <1>6
  <2>3. req' = [req EXCEPT ![w] = next]
    BY <1>6
  <2> HIDE DEF next
  <2> QED BY <1>0, <1>6, <2>1, <2>2, <2>3, DecisionKept
<1> QED
  BY <1>1, <1>2, <1>3, <1>4, <1>5, <1>6
     DEF Start, ChecklistStart, CloseStart, PeriodLabels, tables

LEMMA DecisionContinue ==
    ASSUME TypeInv, DecisionInv, [Next]_vars, NEW w \in Workers, Continue(w)
    PROVE  DecisionInv'
<1> DEFINE r == req[w]
<1>0. /\ r \in Request
      /\ Placed(r)
      /\ Entitled(r)
      /\ r.apr \in Rows \cup {0}
  BY LocalTypes DEF DecisionInv
<1>r. req' \in [Workers -> Request]
  BY NextTypes DEF TypeInv, TypeOK
<1>w. ASSUME NEW next, req' = [req EXCEPT ![w] = next] PROVE next \in Request
  BY <1>r, <1>w DEF TypeInv, TypeOK
<1>f. ASSUME Finish(w), UNCHANGED je PROVE DecisionInv'
  BY <1>f, DecisionFinish
\* A step that leaves table JournalEntry alone.
<1>m. ASSUME NEW next, req' = [req EXCEPT ![w] = next], UNCHANGED je, next.j = r.j,
             next.copy.st = r.copy.st, next.pc # "number"
      PROVE  DecisionInv'
  BY <1>m, <1>w, DecisionMovesOn
<1>g. ASSUME NEW label, label # "number", Goto(w, label), UNCHANGED je PROVE DecisionInv'
  <2> DEFINE next == [r EXCEPT !.pc = label]
  <2>1. req' = [req EXCEPT ![w] = next]
    BY <1>g DEF Goto
  <2>2. next.j = r.j /\ next.copy.st = r.copy.st /\ next.pc # "number"
    BY <1>0, <1>g DEF Request
  <2> HIDE DEF next
  <2> QED BY <1>g, <1>m, <2>1, <2>2
<1>1. CASE GenerateNumber(w)
  <2>1. PICK n \in Journals : req' = [req EXCEPT ![w].pc = "insert", ![w].j = n]
    BY <1>1 DEF GenerateNumber
  <2> DEFINE next == [r EXCEPT !.pc = "insert", !.j = n]
  <2>2. req' = [req EXCEPT ![w] = next]
    BY <2>1
  <2>3. next.pc # "number" /\ next.copy.st = "draft"
    BY <1>0, <1>1 DEF GenerateNumber, At, Request, Entitled
  <2>4. next \in Request
    BY <1>w, <2>2
  <2> HIDE DEF next
  <2> QED BY <1>1, <2>2, <2>3, <2>4, DecisionKept DEF GenerateNumber, tables, Signed
<1>2. CASE InsertHeader(w)
  <2>1. r.j \in Journals
    BY <1>0, <1>2 DEF InsertHeader, At, Placed, PeriodLabels
  <2>2. CASE Finish(w)
    BY <1>2, <2>1, <2>2, DecisionFinish DEF InsertHeader
  <2>3. CASE ~Finish(w)
    <3> DEFINE next == [r EXCEPT !.pc = "audit"]
    <3>1. req' = [req EXCEPT ![w] = next] /\ je' = [je EXCEPT ![r.j] = r.copy]
      BY <1>2, <2>3 DEF InsertHeader, Goto
    <3>2. next.j = r.j /\ next.copy.st = r.copy.st /\ next.pc # "number"
      BY <1>0 DEF Request
    <3>3. next \in Request
      BY <1>w, <3>1
    <3> HIDE DEF next
    <3> QED BY <2>1, <3>1, <3>2, <3>3, DecisionMovesOn
  <2> QED BY <2>2, <2>3
<1>3. CASE SaveLine(w)
  <2>1. ASSUME NEW s, req' = [req EXCEPT ![w].todo = @ \ {s}] PROVE DecisionInv'
    <3> DEFINE next == [r EXCEPT !.todo = r.todo \ {s}]
    <3>1. req' = [req EXCEPT ![w] = next]
      BY <2>1
    <3>2. next.j = r.j /\ next.copy.st = r.copy.st /\ next.pc # "number"
      BY <1>0, <1>3 DEF SaveLine, At, Request
    <3> HIDE DEF next
    <3> QED BY <1>3, <1>m, <3>1, <3>2 DEF SaveLine
  <2> QED BY <1>3, <1>f, <1>g, <2>1 DEF SaveLine
<1>4. CASE AllocationTotal(w)
  <2> DEFINE next == [r EXCEPT !.pc = "lines", !.todo = {"cr"},
                               !.line = [r.line EXCEPT !["cr"] = lines[r.j]["dr"]]]
  <2>1. Finish(w) \/ req' = [req EXCEPT ![w] = next]
    BY <1>4 DEF AllocationTotal
  <2>2. next.j = r.j /\ next.copy.st = r.copy.st /\ next.pc # "number"
    BY <1>0 DEF Request
  <2> HIDE DEF next
  <2> QED BY <1>4, <1>f, <1>m, <2>1, <2>2 DEF AllocationTotal, tables
<1>5. CASE CaptureOldValues(w)
  <2> DEFINE next == [r EXCEPT !.pc = "update", !.old = je[r.j].st]
  <2>1. req' = [req EXCEPT ![w] = next]
    BY <1>5 DEF CaptureOldValues
  <2>2. next.j = r.j /\ next.copy.st = r.copy.st /\ next.pc # "number"
    BY <1>0 DEF Request
  <2> HIDE DEF next
  <2> QED BY <1>5, <1>m, <2>1, <2>2 DEF CaptureOldValues, tables
<1>6. CASE UpdateRow(w)
  <2> DEFINE next == [r EXCEPT !.pc = "audit"]
  <2>1. req' = [req EXCEPT ![w] = next] /\ je' = [je EXCEPT ![r.j] = r.copy]
    BY <1>6 DEF UpdateRow, Goto
  <2>2. next.j = r.j /\ next.copy.st = r.copy.st /\ next.pc # "number"
    BY <1>0 DEF Request
  <2>3. r.j \in Journals /\ next \in Request
    BY <1>0, <1>6, <1>w, <2>1 DEF UpdateRow, At, Placed, PeriodLabels
  <2> HIDE DEF next
  <2> QED BY <2>1, <2>2, <2>3, DecisionMovesOn
<1>7. CASE LogAuditTrail(w)
  <2>1. AfterSave(r.op) # "number"
    BY DEF AfterSave
  <2> QED BY <1>7, <1>f, <1>g, <2>1 DEF LogAuditTrail
<1>8. CASE EditValidate(w)
  <2>1. CASE Finish(w)
    BY <1>8, <1>f, <2>1 DEF EditValidate, tables
  <2>2. CASE ~Finish(w)
    <3>1. PICK p \in Periods, line \in FormLines :
             req' = [req EXCEPT ![w].pc = "pre_save", ![w].copy.per = p,
                                ![w].line = line, ![w].todo = Sides]
      BY <1>8, <2>2 DEF EditValidate
    <3> DEFINE next == [r EXCEPT !.pc = "pre_save", !.copy = [r.copy EXCEPT !.per = p],
                                 !.line = line, !.todo = Sides]
    <3>2. req' = [req EXCEPT ![w] = next]
      BY <3>1
    <3>3. next.j = r.j /\ next.copy.st = r.copy.st /\ next.pc # "number"
      BY <1>0 DEF Request, JournalEntry
    <3> HIDE DEF next
    <3> QED BY <1>8, <1>m, <3>2, <3>3 DEF EditValidate, tables
  <2> QED BY <2>1, <2>2
<1>9. CASE SumDebits(w)
  <2> DEFINE next == [r EXCEPT !.pc = "sum_credits", !.sum = lines[r.j]["dr"]]
  <2>1. req' = [req EXCEPT ![w] = next]
    BY <1>9 DEF SumDebits
  <2>2. next.j = r.j /\ next.copy.st = r.copy.st /\ next.pc # "number"
    BY <1>0 DEF Request
  <2> HIDE DEF next
  <2> QED BY <1>9, <1>m, <2>1, <2>2 DEF SumDebits, tables
<1>10. CASE SumCredits(w)
  <2>1. CASE Finish(w)
    BY <1>10, <1>f, <2>1 DEF SumCredits, tables
  <2>2. CASE ~Finish(w)
    <3> DEFINE next == [r EXCEPT !.pc = "pre_save", !.copy = [r.copy EXCEPT !.st = "pending"]]
    <3>1. req' = [req EXCEPT ![w].pc = "pre_save", ![w].copy.st = "pending"]
      BY <1>10, <2>2 DEF SumCredits
    <3>2. req' = [req EXCEPT ![w] = next]
      BY <3>1
    <3>3. next.copy.st \notin Signed /\ next.pc # "number"
      BY <1>0 DEF Request, JournalEntry, Signed
    <3>4. next \in Request
      BY <1>w, <3>2
    <3> HIDE DEF next
    <3> QED BY <1>10, <3>2, <3>3, <3>4, DecisionKept DEF SumCredits, tables
  <2> QED BY <2>1, <2>2
<1>11. CASE FindPendingRow(w)
  <2>1. CASE Goto(w, "save_row")
    BY <1>11, <1>g, <2>1 DEF FindPendingRow, tables
  <2>2. CASE ~Goto(w, "save_row")
    <3>1. PICK k \in Rows : req' = [req EXCEPT ![w].pc = "save_row", ![w].apr = k]
      BY <1>11, <2>2 DEF FindPendingRow
    <3> DEFINE next == [r EXCEPT !.pc = "save_row", !.apr = k]
    <3>2. req' = [req EXCEPT ![w] = next]
      BY <3>1
    <3>3. next.j = r.j /\ next.copy.st = r.copy.st /\ next.pc # "number"
      BY <1>0 DEF Request
    <3> HIDE DEF next
    <3> QED BY <1>11, <1>m, <3>2, <3>3 DEF FindPendingRow, tables
  <2> QED BY <2>1, <2>2
<1>12. CASE SaveDecision(w)
  <2> DEFINE decision == Decision(r.op)
             next == [r EXCEPT !.pc = "pre_save", !.copy = [r.copy EXCEPT !.st = decision]]
  <2>1. r.j \in Journals
    BY <1>0, <1>12 DEF SaveDecision, At, Placed, PeriodLabels
  <2>2. decision \in {"approved", "rejected"}
    BY DEF Decision
  <2>3. req' = [req EXCEPT ![w] = next]
    BY <1>12 DEF SaveDecision
  <2>4. next.j = r.j /\ next.pc # "number"
    BY <1>0 DEF Request
  <2>5. \E k \in Rows : approvals'[r.j][k] = decision
    <3>1. CASE r.apr # 0 /\ approvals' = [approvals EXCEPT ![r.j][r.apr] = decision]
      BY <1>0, <2>1, <3>1 DEF TypeInv, TypeOK
    <3>2. CASE AddApproval(r.j, decision)
      BY <2>1, <3>2 DEF AddApproval, TypeInv, TypeOK
    <3> QED BY <1>12, <3>1, <3>2 DEF SaveDecision
  <2>6. PICK new \in Request : new = next
    BY <1>w, <2>3
  <2>7. Decided(new.j)'
    BY <2>2, <2>4, <2>5, <2>6 DEF Decided
  <2>8. new.pc # "number" /\ req' = [req EXCEPT ![w] = new]
    BY <2>3, <2>4, <2>6
  <2> QED BY <1>12, <2>7, <2>8, DecisionKept DEF SaveDecision
<1>13. CASE SeedChecklist(w)
  <2>1. CASE UNCHANGED req
    BY <1>13, <2>1, DecidedStays DEF SeedChecklist, DecisionInv, Entitled, TypeInv, TypeOK
  <2>2. CASE Finish(w)
    BY <1>13, <1>f, <2>2 DEF SeedChecklist
  <2>3. CASE ~(UNCHANGED req \/ Finish(w))
    <3>1. PICK s \in Steps :
             req' = [req EXCEPT ![w].pc = "toggle", ![w].step = s,
                                ![w].seen = checklist[r.copy.per][s]]
      BY <1>13, <2>3 DEF SeedChecklist
    <3> DEFINE next == [r EXCEPT !.pc = "toggle", !.step = s, !.seen = checklist[r.copy.per][s]]
    <3>2. req' = [req EXCEPT ![w] = next]
      BY <3>1
    <3>3. next.j = r.j /\ next.copy.st = r.copy.st /\ next.pc # "number"
      BY <1>0 DEF Request
    <3> HIDE DEF next
    <3> QED BY <1>13, <1>m, <3>2, <3>3 DEF SeedChecklist
  <2> QED BY <2>1, <2>2, <2>3
<1>14. CASE CreateApproval(w) \/ ToggleStep(w) \/ ClosePeriod(w)
  BY <1>14, <1>f DEF CreateApproval, ToggleStep, ClosePeriod
<1>15. CASE CountUnposted(w)
  BY <1>15, <1>f, <1>g DEF CountUnposted, tables
<1> QED
  BY <1>1, <1>2, <1>3, <1>4, <1>5, <1>6, <1>7, <1>8, <1>9, <1>10, <1>11, <1>12, <1>13,
     <1>14, <1>15 DEF Continue

LEMMA InitDecision == Init => DecisionInv
<1> SUFFICES ASSUME Init PROVE DecisionInv
  OBVIOUS
<1>1. 0 \notin Journals
  BY ConstantsAssumption DEF Journals
<1> QED BY <1>1 DEF Init, DecisionInv, Entitled, Signed, NoEntry, Idle

LEMMA NextDecision == TypeInv /\ DecisionInv /\ [Next]_vars => DecisionInv'
<1> SUFFICES ASSUME TypeInv, DecisionInv, [Next]_vars PROVE DecisionInv'
  OBVIOUS
<1>1. ASSUME NEW w \in Workers, Start(w) PROVE DecisionInv'
  BY <1>1, DecisionStart
<1>2. ASSUME NEW w \in Workers, Continue(w) PROVE DecisionInv'
  BY <1>2, DecisionContinue
<1>3. ASSUME NEW w \in Workers, Crash(w) PROVE DecisionInv'
  BY <1>3, DecisionFinish DEF Crash, tables
<1>4. ASSUME UNCHANGED <<je, approvals, req>> PROVE DecisionInv'
  BY <1>4 DEF DecisionInv, Entitled, Decided
<1> QED BY <1>1, <1>2, <1>3, <1>4 DEF Next, ReopenPeriod, vars

\* Whatever requests overlap and wherever one dies, no entry is approved, rejected
\* or posted without an approval row that records a decision.
THEOREM DecisionsAreRecorded == Spec => []DecisionRecorded
<1>1. DecisionInv => DecisionRecorded
  BY DEF DecisionInv, DecisionRecorded, Decided, Signed
<1> QED BY <1>1, InitTypes, NextTypes, InitDecision, NextDecision, PTL DEF Spec

-----------------------------------------------------------------------------
(* Balance.  An entry that has left draft balances.  The workflow checks it    *)
(* once, in journal_submit, with two queries on a row it does not lock: the    *)
(* proof shows what the rest of the code must then not do, and that it is      *)
(* enough that users keep the requests that write lines apart from the others  *)
(* on the same entry.                                                          *)

LineWriters == {"create", "allocate", "edit"}

WritersApart == LineWriters \subseteq Exclusive

Balanced(j) == lines[j]["dr"] = lines[j]["cr"]

\* The request has loaded or inserted the row of its entry.
OnEntry(r) == r.pc \notin {"idle", "number", "insert"} \cup PeriodLabels

Writing(r) == r.op \in LineWriters /\ OnEntry(r)

\* The statements of the views that write lines, and of those that decide.
WriterLabels == {"number", "insert", "lines", "total", "validate"}
DeciderLabels == {"sum_debits", "sum_credits", "approval_row", "find_row", "save_row"}

RequestOK(r) ==
    /\ r.pc \in WriterLabels => r.op \in LineWriters
    /\ r.pc \in DeciderLabels => r.op \notin LineWriters
    /\ r.op \in LineWriters => r.copy.st = "draft"
    /\ OnEntry(r) => je[r.j].st # "none" /\ r.copy.st # "none"
    /\ Writing(r) => je[r.j].st = "draft"
    /\ OnEntry(r) /\ r.copy.st # "draft" => Balanced(r.j)
    /\ r.pc = "sum_credits" => r.sum = lines[r.j]["dr"]
    /\ r.pc \in {"find_row", "save_row"} => r.copy.st # "draft"

\* Nobody else is on an entry whose lines are being written.
Alone(r, q) == Writing(r) /\ OnEntry(q) => r.j # q.j

BalanceInv ==
    /\ BalancedOnceSubmitted
    /\ \A w \in Workers : RequestOK(req[w])
    /\ \A v, w \in Workers : v # w => Alone(req[v], req[w])

-----------------------------------------------------------------------------

LEMMA EntryOfRequest ==
    ASSUME TypeInv, NEW w \in Workers, OnEntry(req[w])
    PROVE  req[w].j \in Journals
  BY LocalTypes DEF Placed, OnEntry, PeriodLabels

\* A step of worker w that writes neither entries nor lines.
LEMMA BalanceLocal ==
    ASSUME TypeInv, BalanceInv, NEW w \in Workers, NEW next,
           req' = [req EXCEPT ![w] = next], UNCHANGED <<je, lines>>,
           RequestOK(next),
           \A v \in Workers \ {w} : Alone(next, req[v]) /\ Alone(req[v], next)
    PROVE  BalanceInv'
<1>1. BalancedOnceSubmitted'
  BY DEF BalanceInv, BalancedOnceSubmitted
<1>2. req'[w] = next
  BY DEF TypeInv, TypeOK
<1>3. \A v \in Workers \ {w} : req'[v] = req[v]
  BY DEF TypeInv, TypeOK
<1>4. ASSUME NEW v \in Workers PROVE RequestOK(req[v])'
  <2>1. CASE v = w
    BY <1>2, <2>1 DEF RequestOK, OnEntry, Writing, Balanced
  <2>2. CASE v # w
    BY <1>3, <2>2 DEF BalanceInv, RequestOK, OnEntry, Writing, Balanced
  <2> QED BY <2>1, <2>2
<1>5. ASSUME NEW u \in Workers, NEW v \in Workers, u # v
      PROVE  Alone(req[u], req[v])'
  <2>1. CASE u = w
    BY <1>2, <1>3, <1>5, <2>1 DEF Alone, Writing, OnEntry
  <2>2. CASE v = w
    BY <1>2, <1>3, <1>5, <2>2 DEF Alone, Writing, OnEntry
  <2>3. CASE u # w /\ v # w
    BY <1>3, <1>5, <2>3 DEF BalanceInv, Alone, Writing, OnEntry
  <2> QED BY <2>1, <2>2, <2>3
<1> QED BY <1>1, <1>4, <1>5 DEF BalanceInv

\* The common cases: the request ends, waits for its entry, or goes on with it.
LEMMA BalanceOffEntry ==
    ASSUME TypeInv, BalanceInv, NEW w \in Workers, NEW next,
           req' = [req EXCEPT ![w] = next], UNCHANGED <<je, lines>>,
           RequestOK(next), ~OnEntry(next)
    PROVE  BalanceInv'
<1>1. \A v \in Workers \ {w} : Alone(next, req[v]) /\ Alone(req[v], next)
  BY DEF Alone, Writing
<1> QED BY <1>1, BalanceLocal

LEMMA BalanceFinish ==
    ASSUME TypeInv, BalanceInv, NEW w \in Workers, Finish(w), UNCHANGED <<je, lines>>
    PROVE  BalanceInv'
<1>1. RequestOK(Idle) /\ ~OnEntry(Idle)
  BY DEF RequestOK, OnEntry, Idle, Writing, WriterLabels, DeciderLabels, LineWriters
<1> QED BY <1>1, BalanceOffEntry DEF Finish

LEMMA BalanceMovesOn ==
    ASSUME TypeInv, BalanceInv, NEW w \in Workers, NEW next,
           req' = [req EXCEPT ![w] = next], UNCHANGED <<je, lines>>,
           RequestOK(next), OnEntry(req[w]), next.op = req[w].op, next.j = req[w].j
    PROVE  BalanceInv'
<1>1. \A v \in Workers \ {w} : Alone(req[w], req[v]) /\ Alone(req[v], req[w])
  BY DEF BalanceInv
<1>2. \A v \in Workers \ {w} : Alone(next, req[v]) /\ Alone(req[v], next)
  BY <1>1 DEF Alone, Writing
<1> QED BY <1>2, BalanceLocal

\* MayStart keeps a new request off an entry whose lines are being written, and a
\* new writer off an entry somebody is on.
LEMMA StartApart ==
    ASSUME WritersApart, NEW w \in Workers, NEW op, NEW j \in Journals,
           MayStart(w, op, j), NEW v \in Workers
    PROVE  /\ Writing(req[v]) => req[v].j # j
           /\ op \in LineWriters /\ OnEntry(req[v]) => req[v].j # j
<1>1. j # 0
  BY ConstantsAssumption DEF Journals
<1>2. OnEntry(req[v]) => Busy(v)
  BY DEF OnEntry, Busy
<1>3. Busy(v) => ~KeptApart(op, j, v)
  BY DEF MayStart
<1> QED BY <1>1, <1>2, <1>3 DEF KeptApart, WritersApart, Writing

LEMMA BalanceStart ==
    ASSUME WritersApart, TypeInv, BalanceInv, NEW w \in Workers, Start(w)
    PROVE  BalanceInv'
<1>1. CASE CreateStart(w)
  <2>1. PICK p \in Periods, line \in FormLines :
           req' = [req EXCEPT ![w] = [Idle EXCEPT !.op = "create", !.pc = "number",
                      !.copy = [st |-> "draft", per |-> p], !.line = line, !.todo = Sides]]
    BY <1>1 DEF CreateStart
  <2> DEFINE next == [Idle EXCEPT !.op = "create", !.pc = "number",
                      !.copy = [st |-> "draft", per |-> p], !.line = line, !.todo = Sides]
  <2>2. RequestOK(next) /\ ~OnEntry(next)
    BY DEF RequestOK, OnEntry, Idle, Writing, WriterLabels, DeciderLabels, LineWriters
  <2>3. req' = [req EXCEPT ![w] = next]
    BY <2>1
  <2> HIDE DEF next
  <2> QED BY <1>1, <2>2, <2>3, BalanceOffEntry DEF CreateStart, tables
<1>2. CASE AllocateStart(w)
  <2>1. PICK p \in Periods, a \in Amounts \cup {0} :
           req' = [req EXCEPT ![w] = [Idle EXCEPT !.op = "allocate", !.pc = "number",
                      !.copy = [st |-> "draft", per |-> p],
                      !.line = [NoLines EXCEPT !["dr"] = a], !.todo = {"dr"}]]
    BY <1>2 DEF AllocateStart
  <2> DEFINE next == [Idle EXCEPT !.op = "allocate", !.pc = "number",
                      !.copy = [st |-> "draft", per |-> p],
                      !.line = [NoLines EXCEPT !["dr"] = a], !.todo = {"dr"}]
  <2>2. RequestOK(next) /\ ~OnEntry(next)
    BY DEF RequestOK, OnEntry, Idle, Writing, WriterLabels, DeciderLabels, LineWriters
  <2>3. req' = [req EXCEPT ![w] = next]
    BY <2>1
  <2> HIDE DEF next
  <2> QED BY <1>2, <2>2, <2>3, BalanceOffEntry DEF AllocateStart, tables
<1>3. ASSUME NEW j \in Journals, EditStart(w, j) PROVE BalanceInv'
  <2> DEFINE next == [Idle EXCEPT !.op = "edit", !.pc = "validate", !.j = j, !.copy = je[j]]
  <2>1. req' = [req EXCEPT ![w] = next] /\ UNCHANGED <<je, lines>> /\ MayStart(w, "edit", j)
    BY <1>3 DEF EditStart, tables
  <2>2. next.j = j /\ next.op = "edit"
    BY DEF Idle
  <2>3. je[j] \in JournalEntry /\ (je[j].st \notin {"none", "draft"} => Balanced(j))
    BY DEF TypeInv, TypeOK, BalanceInv, BalancedOnceSubmitted, Balanced
  <2>4. RequestOK(next)
    BY <1>3, <2>3 DEF EditStart, RequestOK, OnEntry, Idle, Writing, WriterLabels, DeciderLabels,
       LineWriters, PeriodLabels, JournalEntry
  <2> HIDE DEF next
  <2>5. \A v \in Workers : Alone(next, req[v]) /\ Alone(req[v], next)
    BY <2>1, <2>2, StartApart DEF Alone, Writing
  <2> QED BY <2>1, <2>4, <2>5, BalanceLocal
<1>4. ASSUME NEW j \in Journals, SubmitStart(w, j) PROVE BalanceInv'
  <2> DEFINE next == [Idle EXCEPT !.op = "submit", !.pc = "sum_debits", !.j = j, !.copy = je[j]]
  <2>1. req' = [req EXCEPT ![w] = next] /\ UNCHANGED <<je, lines>> /\ MayStart(w, "submit", j)
    BY <1>4 DEF SubmitStart, tables
  <2>2. next.j = j /\ next.op = "submit"
    BY DEF Idle
  <2>3. je[j] \in JournalEntry /\ (je[j].st \notin {"none", "draft"} => Balanced(j))
    BY DEF TypeInv, TypeOK, BalanceInv, BalancedOnceSubmitted, Balanced
  <2>4. RequestOK(next)
    BY <1>4, <2>3 DEF SubmitStart, RequestOK, OnEntry, Idle, Writing, WriterLabels, DeciderLabels,
       LineWriters, PeriodLabels, JournalEntry
  <2> HIDE DEF next
  <2>5. \A v \in Workers : Alone(next, req[v]) /\ Alone(req[v], next)
    BY <2>1, <2>2, StartApart DEF Alone, Writing
  <2> QED BY <2>1, <2>4, <2>5, BalanceLocal
<1>5. ASSUME NEW j \in Journals, NEW op \in {"approve", "reject"}, DecideStart(w, j, op) PROVE BalanceInv'
  <2> DEFINE next == [Idle EXCEPT !.op = op, !.pc = "find_row", !.j = j, !.copy = je[j]]
  <2>1. req' = [req EXCEPT ![w] = next] /\ UNCHANGED <<je, lines>> /\ MayStart(w, op, j)
    BY <1>5 DEF DecideStart, tables
  <2>2. next.j = j /\ next.op = op
    BY DEF Idle
  <2>3. je[j] \in JournalEntry /\ (je[j].st \notin {"none", "draft"} => Balanced(j))
    BY DEF TypeInv, TypeOK, BalanceInv, BalancedOnceSubmitted, Balanced
  <2>4. RequestOK(next)
    BY <1>5, <2>3 DEF DecideStart, RequestOK, OnEntry, Idle, Writing, WriterLabels, DeciderLabels,
       LineWriters, PeriodLabels, JournalEntry
  <2> HIDE DEF next
  <2>5. \A v \in Workers : Alone(next, req[v]) /\ Alone(req[v], next)
    BY <2>1, <2>2, StartApart DEF Alone, Writing
  <2> QED BY <2>1, <2>4, <2>5, BalanceLocal
<1>6. ASSUME NEW j \in Journals, PostStart(w, j) PROVE BalanceInv'
  <2> DEFINE next == [Idle EXCEPT !.op = "post", !.pc = "pre_save", !.j = j,
                                 !.copy = [je[j] EXCEPT !.st = "posted"]]
  <2>1. req' = [req EXCEPT ![w] = next] /\ UNCHANGED <<je, lines>> /\ MayStart(w, "post", j)
    BY <1>6 DEF PostStart, tables
  <2>2. next.j = j /\ next.op = "post"
    BY DEF Idle
  <2>3. je[j] \in JournalEntry /\ (je[j].st \notin {"none", "draft"} => Balanced(j))
    BY DEF TypeInv, TypeOK, BalanceInv, BalancedOnceSubmitted, Balanced
  <2>4. RequestOK(next)
    BY <1>6, <2>3 DEF PostStart, RequestOK, OnEntry, Idle, Writing, WriterLabels, DeciderLabels,
       LineWriters, PeriodLabels, JournalEntry
  <2> HIDE DEF next
  <2>5. \A v \in Workers : Alone(next, req[v]) /\ Alone(req[v], next)
    BY <2>1, <2>2, StartApart DEF Alone, Writing
  <2> QED BY <2>1, <2>4, <2>5, BalanceLocal
<1>7. ASSUME NEW p \in Periods, NEW op, op \notin LineWriters, NEW label \in PeriodLabels,
             UNCHANGED <<je, lines>>, req' = [req EXCEPT ![w] = PeriodRequest(op, label, p)]
      PROVE  BalanceInv'
  <2> DEFINE next == PeriodRequest(op, label, p)
  <2>1. RequestOK(next) /\ ~OnEntry(next)
    BY <1>7 DEF PeriodRequest, RequestOK, OnEntry, Idle, Writing, WriterLabels, DeciderLabels,
       LineWriters, PeriodLabels
  <2>2. req' = [req EXCEPT ![w] = next]
    BY <1>7
  <2> HIDE DEF next
  <2> QED BY <1>7, <2>1, <2>2, BalanceOffEntry
<1>8. ASSUME NEW p \in Periods, ChecklistStart(w, p) \/ CloseStart(w, p) PROVE BalanceInv'
  BY <1>7, <1>8 DEF ChecklistStart, CloseStart, PeriodLabels, LineWriters, tables
<1> QED
  BY <1>1, <1>2, <1>3, <1>4, <1>5, <1>6, <1>8 DEF Start

LEMMA BalanceContinue ==
    ASSUME TypeInv, BalanceInv, NEW w \in Workers, Continue(w)
    PROVE  BalanceInv'
<1> DEFINE r == req[w]
<1>0. /\ r \in Request
      /\ r.copy \in JournalEntry
      /\ RequestOK(r)
      /\ OnEntry(r) => r.j \in Journals
  BY LocalTypes, EntryOfRequest DEF BalanceInv
<1>f. ASSUME Finish(w), UNCHANGED <<je, lines>> PROVE BalanceInv'
  BY <1>f, BalanceFinish
<1>m. ASSUME NEW next, req' = [req EXCEPT ![w] = next], UNCHANGED <<je, lines>>,
             RequestOK(next), OnEntry(r), next.op = r.op, next.j = r.j
      PROVE  BalanceInv'
  BY <1>m, BalanceMovesOn
<1>1. CASE GenerateNumber(w)
  <2>1. PICK n \in Journals : req' = [req EXCEPT ![w].pc = "insert", ![w].j = n]
    BY <1>1 DEF GenerateNumber
  <2> DEFINE next == [r EXCEPT !.pc = "insert", !.j = n]
  <2>2. req' = [req EXCEPT ![w] = next]
    BY <2>1
  <2>3. RequestOK(next) /\ ~OnEntry(next)
    BY <1>0, <1>1 DEF GenerateNumber, At, Request, RequestOK, OnEntry, Writing, WriterLabels, DeciderLabels, LineWriters, PeriodLabels
  <2> HIDE DEF next
  <2> QED BY <1>1, <2>2, <2>3, BalanceOffEntry DEF GenerateNumber, tables
\* The new row is nobody else's: the requests that hold its number are still
\* waiting to insert it.
<1>2. CASE InsertHeader(w)
  <2>1. CASE Finish(w) /\ UNCHANGED je
    BY <1>2, <1>f, <2>1 DEF InsertHeader
  <2>2. CASE je[r.j].st = "none" /\ je' = [je EXCEPT ![r.j] = r.copy] /\ Goto(w, "audit")
    <3> DEFINE next == [r EXCEPT !.pc = "audit"]
    <3>1. req' = [req EXCEPT ![w] = next] /\ UNCHANGED lines
      BY <1>2, <2>2 DEF InsertHeader, Goto
    <3>2. /\ r.pc = "insert" /\ r.op \in LineWriters /\ r.copy.st = "draft"
          /\ r.j \in Journals
      BY <1>0, <1>2, LocalTypes DEF InsertHeader, At, RequestOK, WriterLabels, Placed, PeriodLabels
    <3>3. next.pc = "audit" /\ next.op = r.op /\ next.j = r.j /\ next.copy = r.copy
      BY <1>0 DEF Request
    <3> HIDE DEF next
    <3>4. /\ req'[w] = next
          /\ \A v \in Workers \ {w} : req'[v] = req[v]
          /\ je'[r.j] = r.copy
          /\ \A j \in Journals \ {r.j} : je'[j] = je[j]
      BY <2>2, <3>1, <3>2 DEF TypeInv, TypeOK
    <3>5. ASSUME NEW v \in Workers \ {w}, OnEntry(req[v])
          PROVE  req[v].j \in Journals \ {r.j}
      BY <2>2, <3>5, EntryOfRequest DEF BalanceInv, RequestOK
    <3>6. BalancedOnceSubmitted'
      BY <3>1, <3>2, <3>4 DEF BalanceInv, BalancedOnceSubmitted
    <3>7. ASSUME NEW v \in Workers PROVE RequestOK(req[v])'
      <4>1. CASE v = w
        BY <3>1, <3>2, <3>3, <3>4, <4>1 DEF RequestOK, OnEntry, Writing, WriterLabels, DeciderLabels, LineWriters, PeriodLabels
      <4>2. CASE v # w
        BY <3>1, <3>4, <3>5, <4>2 DEF BalanceInv, RequestOK, Writing, OnEntry, Balanced, PeriodLabels
      <4> QED BY <4>1, <4>2
    <3>8. ASSUME NEW u \in Workers, NEW v \in Workers, u # v PROVE Alone(req[u], req[v])'
      <4>1. CASE u = w
        BY <3>3, <3>4, <3>5, <3>8, <4>1 DEF Alone, Writing, OnEntry
      <4>2. CASE v = w
        BY <3>3, <3>4, <3>5, <3>8, <4>2 DEF Alone, Writing, OnEntry
      <4>3. CASE u # w /\ v # w
        BY <3>4, <3>8, <4>3 DEF BalanceInv, Alone, Writing, OnEntry
      <4> QED BY <4>1, <4>2, <4>3
    <3> QED BY <3>6, <3>7, <3>8 DEF BalanceInv
  <2> QED BY <1>2, <2>1, <2>2 DEF InsertHeader
\* A line is written: its entry is a draft, and no other request is on it.
<1>3. CASE SaveLine(w)
  <2>1. /\ OnEntry(r) /\ Writing(r) /\ r.j \in Journals
        /\ r.op \in LineWriters /\ r.copy.st = "draft" /\ je[r.j].st = "draft"
    BY <1>0, <1>3 DEF SaveLine, At, RequestOK, OnEntry, Writing, WriterLabels, DeciderLabels, LineWriters, PeriodLabels
  <2>2. PICK s \in r.todo :
          /\ lines' = [lines EXCEPT ![r.j][s] = SavedSide(w, s)]
          /\ \/ req' = [req EXCEPT ![w].todo = @ \ {s}]
             \/ Goto(w, "total")
             \/ Finish(w)
    BY <1>3 DEF SaveLine
  <2>3. \/ req' = [req EXCEPT ![w] = [r EXCEPT !.todo = r.todo \ {s}]]
        \/ req' = [req EXCEPT ![w] = [r EXCEPT !.pc = "total"]]
        \/ req' = [req EXCEPT ![w] = Idle]
    BY <2>2 DEF Goto, Finish
  <2>4. PICK next : /\ req' = [req EXCEPT ![w] = next]
                    /\ \/ next = Idle
                       \/ /\ next.pc \in {"lines", "total"} /\ next.op = r.op
                          /\ next.j = r.j /\ next.copy = r.copy
    <3>1. CASE req' = [req EXCEPT ![w] = Idle]
      BY <3>1
    <3>2. CASE req' = [req EXCEPT ![w] = [r EXCEPT !.pc = "total"]]
      <4>1. /\ [r EXCEPT !.pc = "total"].pc = "total"
            /\ [r EXCEPT !.pc = "total"].op = r.op
            /\ [r EXCEPT !.pc = "total"].j = r.j
            /\ [r EXCEPT !.pc = "total"].copy = r.copy
        BY <1>0 DEF Request
      <4> QED BY <3>2, <4>1
    <3>3. CASE req' = [req EXCEPT ![w] = [r EXCEPT !.todo = r.todo \ {s}]]
      <4>1. /\ [r EXCEPT !.todo = r.todo \ {s}].pc = "lines"
            /\ [r EXCEPT !.todo = r.todo \ {s}].op = r.op
            /\ [r EXCEPT !.todo = r.todo \ {s}].j = r.j
            /\ [r EXCEPT !.todo = r.todo \ {s}].copy = r.copy
        BY <1>0, <1>3 DEF Request, SaveLine, At
      <4> QED BY <3>3, <4>1
    <3> QED BY <2>3, <3>1, <3>2, <3>3
  <2>5. UNCHANGED je
    BY <1>3 DEF SaveLine
  <2>6. /\ req'[w] = next
        /\ \A v \in Workers \ {w} : req'[v] = req[v]
        /\ \A j \in Journals \ {r.j} : lines'[j] = lines[j]
    BY <2>1, <2>2, <2>4 DEF TypeInv, TypeOK
  <2>7. ASSUME NEW v \in Workers \ {w}, OnEntry(req[v])
        PROVE  req[v].j \in Journals \ {r.j}
    BY <2>1, <2>7, EntryOfRequest DEF BalanceInv, Alone
  <2>8. BalancedOnceSubmitted'
    BY <2>1, <2>5, <2>6 DEF BalanceInv, BalancedOnceSubmitted
  <2>9. ASSUME NEW v \in Workers PROVE RequestOK(req[v])'
    <3>1. CASE v = w /\ next = Idle
      BY <2>6, <3>1 DEF Idle, RequestOK, OnEntry, Writing, WriterLabels, DeciderLabels, LineWriters, PeriodLabels
    <3>2. CASE v = w /\ next # Idle
      BY <2>1, <2>4, <2>5, <2>6, <3>2 DEF RequestOK, OnEntry, Writing, WriterLabels, DeciderLabels, LineWriters, PeriodLabels
    <3>3. CASE v # w
      BY <2>5, <2>6, <2>7, <3>3 DEF BalanceInv, RequestOK, Writing, OnEntry, Balanced, PeriodLabels
    <3> QED BY <3>1, <3>2, <3>3
  <2>10. ASSUME NEW u \in Workers, NEW v \in Workers, u # v PROVE Alone(req[u], req[v])'
    <3>0. OnEntry(next) => next.op = r.op /\ next.j = r.j
      BY <2>4 DEF OnEntry, Idle
    <3>1. CASE u = w
      BY <2>6, <2>7, <2>10, <3>0, <3>1 DEF Alone, Writing, OnEntry
    <3>2. CASE v = w
      BY <2>6, <2>7, <2>10, <3>0, <3>2 DEF Alone, Writing, OnEntry
    <3>3. CASE u # w /\ v # w
      BY <2>6, <2>10, <3>3 DEF BalanceInv, Alone, Writing, OnEntry
    <3> QED BY <3>1, <3>2, <3>3
  <2> QED BY <2>8, <2>9, <2>10 DEF BalanceInv
<1>4. CASE AllocationTotal(w)
  <2> DEFINE next == [r EXCEPT !.pc = "lines", !.todo = {"cr"},
                               !.line = [r.line EXCEPT !["cr"] = lines[r.j]["dr"]]]
  <2>1. CASE Finish(w)
    BY <1>4, <1>f, <2>1 DEF AllocationTotal, tables
  <2>2. CASE ~Finish(w)
    <3>1. req' = [req EXCEPT ![w] = next]
      BY <1>4, <2>2 DEF AllocationTotal
    <3>2. RequestOK(next) /\ OnEntry(r) /\ next.op = r.op /\ next.j = r.j
      BY <1>0, <1>4 DEF AllocationTotal, At, Request, JournalEntry, Balanced, RequestOK, OnEntry, Writing, WriterLabels, DeciderLabels, LineWriters, PeriodLabels
    <3> HIDE DEF next
    <3> QED BY <1>4, <1>m, <3>1, <3>2 DEF AllocationTotal, tables
  <2> QED BY <2>1, <2>2
<1>5. CASE CaptureOldValues(w)
  <2> DEFINE next == [r EXCEPT !.pc = "update", !.old = je[r.j].st]
  <2>1. req' = [req EXCEPT ![w] = next]
    BY <1>5 DEF CaptureOldValues
  <2>2. RequestOK(next) /\ OnEntry(r) /\ next.op = r.op /\ next.j = r.j
    BY <1>0, <1>5 DEF CaptureOldValues, At, Request, JournalEntry, Balanced, RequestOK, OnEntry, Writing, WriterLabels, DeciderLabels, LineWriters, PeriodLabels
  <2> HIDE DEF next
  <2> QED BY <1>5, <1>m, <2>1, <2>2 DEF CaptureOldValues, tables
\* The copy is written back.  If the entry's lines are being written the copy is a
\* draft and this request writes them; otherwise the lines balance already.
<1>6. CASE UpdateRow(w)
  <2> DEFINE next == [r EXCEPT !.pc = "audit"]
  <2>1. req' = [req EXCEPT ![w] = next] /\ je' = [je EXCEPT ![r.j] = r.copy] /\ UNCHANGED lines
    BY <1>6 DEF UpdateRow, Goto
  <2>2. r.pc = "update" /\ OnEntry(r) /\ r.j \in Journals
    BY <1>0, <1>6 DEF UpdateRow, At, OnEntry, PeriodLabels
  <2>3. next.pc = "audit" /\ next.op = r.op /\ next.j = r.j /\ next.copy = r.copy
    BY <1>0 DEF Request
  <2> HIDE DEF next
  <2>4. /\ req'[w] = next
        /\ \A v \in Workers \ {w} : req'[v] = req[v]
        /\ je'[r.j] = r.copy
        /\ \A j \in Journals \ {r.j} : je'[j] = je[j]
    BY <2>1, <2>2 DEF TypeInv, TypeOK
  <2>5. r.copy.st # "none" /\ (r.copy.st # "draft" => Balanced(r.j))
    BY <1>0, <2>2 DEF RequestOK
  <2>6. BalancedOnceSubmitted'
    BY <2>1, <2>4, <2>5 DEF BalanceInv, BalancedOnceSubmitted, Balanced
  <2>7. ASSUME NEW v \in Workers PROVE RequestOK(req[v])'
    <3>1. CASE v = w
      BY <1>0, <2>1, <2>2, <2>3, <2>4, <2>5, <3>1 DEF Balanced, RequestOK, OnEntry, Writing, WriterLabels, DeciderLabels, LineWriters, PeriodLabels
    <3>2. CASE v # w
      <4>1. RequestOK(req[v]) /\ Alone(req[v], r) /\ (OnEntry(req[v]) => req[v].j \in Journals)
        BY <3>2, EntryOfRequest DEF BalanceInv
      <4>2. CASE OnEntry(req[v]) /\ req[v].j = r.j
        BY <2>1, <2>2, <2>4, <2>5, <3>2, <4>1, <4>2
           DEF RequestOK, Alone, Writing, OnEntry, Balanced
      <4>3. CASE ~(OnEntry(req[v]) /\ req[v].j = r.j)
        BY <2>1, <2>4, <3>2, <4>1, <4>3 DEF RequestOK, Writing, OnEntry, Balanced, PeriodLabels
      <4> QED BY <4>2, <4>3
    <3> QED BY <3>1, <3>2
  <2>8. ASSUME NEW u \in Workers, NEW v \in Workers, u # v PROVE Alone(req[u], req[v])'
    <3>1. Alone(req[u], req[v])
      BY <2>8 DEF BalanceInv
    <3>2. CASE u = w
      BY <2>2, <2>3, <2>4, <2>8, <3>1, <3>2 DEF Alone, Writing, OnEntry
    <3>3. CASE v = w
      BY <2>2, <2>3, <2>4, <2>8, <3>1, <3>3 DEF Alone, Writing, OnEntry
    <3>4. CASE u # w /\ v # w
      BY <2>4, <3>1, <3>4 DEF Alone, Writing, OnEntry
    <3> QED BY <3>2, <3>3, <3>4
  <2> QED BY <2>6, <2>7, <2>8 DEF BalanceInv
<1>7. CASE LogAuditTrail(w)
  <2> DEFINE next == [r EXCEPT !.pc = AfterSave(r.op)]
  <2>1. CASE Finish(w)
    BY <1>7, <1>f, <2>1 DEF LogAuditTrail
  <2>2. CASE ~Finish(w)
    <3>1. req' = [req EXCEPT ![w] = next]
      BY <1>7, <2>2 DEF LogAuditTrail, Goto
    <3>2. /\ AfterSave(r.op) \in {"lines", "approval_row"}
          /\ AfterSave(r.op) = "lines" <=> r.op \in LineWriters
      BY <1>7, <2>2 DEF LogAuditTrail, AfterSave, LineWriters
    <3>3. /\ next.pc = AfterSave(r.op) /\ next.op = r.op /\ next.j = r.j
          /\ next.copy = r.copy /\ next.sum = r.sum
      BY <1>0 DEF Request
    <3>4. OnEntry(r)
      BY <1>7 DEF LogAuditTrail, At, OnEntry, PeriodLabels
    <3> HIDE DEF next
    <3>5. RequestOK(next)
      BY <1>0, <3>2, <3>3, <3>4 DEF RequestOK, OnEntry, Writing, WriterLabels, DeciderLabels, LineWriters, PeriodLabels
    <3> QED BY <1>7, <1>m, <3>1, <3>3, <3>4, <3>5 DEF LogAuditTrail
  <2> QED BY <2>1, <2>2
<1>8. CASE EditValidate(w)
  <2>1. CASE Finish(w)
    BY <1>8, <1>f, <2>1 DEF EditValidate, tables
  <2>2. CASE ~Finish(w)
    <3>1. PICK p \in Periods, line \in FormLines :
             req' = [req EXCEPT ![w].pc = "pre_save", ![w].copy.per = p,
                                ![w].line = line, ![w].todo = Sides]
      BY <1>8, <2>2 DEF EditValidate
    <3> DEFINE next == [r EXCEPT !.pc = "pre_save", !.copy = [r.copy EXCEPT !.per = p],
                                 !.line = line, !.todo = Sides]
    <3>2. req' = [req EXCEPT ![w] = next]
      BY <3>1
    <3>3. /\ next.pc = "pre_save" /\ next.op = r.op /\ next.j = r.j
          /\ next.copy.st = r.copy.st
      BY <1>0 DEF Request, JournalEntry
    <3>4. OnEntry(r)
      BY <1>8 DEF EditValidate, At, OnEntry, PeriodLabels
    <3> HIDE DEF next
    <3>5. RequestOK(next)
      BY <1>0, <3>3, <3>4 DEF RequestOK, OnEntry, Writing, WriterLabels, DeciderLabels, LineWriters, PeriodLabels
    <3> QED BY <1>8, <1>m, <3>2, <3>3, <3>4, <3>5 DEF EditValidate, tables
  <2> QED BY <2>1, <2>2
<1>9. CASE SumDebits(w)
  <2> DEFINE next == [r EXCEPT !.pc = "sum_credits", !.sum = lines[r.j]["dr"]]
  <2>1. req' = [req EXCEPT ![w] = next]
    BY <1>9 DEF SumDebits
  <2>2. RequestOK(next) /\ OnEntry(r) /\ next.op = r.op /\ next.j = r.j
    BY <1>0, <1>9 DEF SumDebits, At, Request, JournalEntry, Balanced, RequestOK, OnEntry, Writing, WriterLabels, DeciderLabels, LineWriters, PeriodLabels
  <2> HIDE DEF next
  <2> QED BY <1>9, <1>m, <2>1, <2>2 DEF SumDebits, tables
\* The second query agrees with the first, and no line has changed in between.
<1>10. CASE SumCredits(w)
  <2>1. CASE Finish(w)
    BY <1>10, <1>f, <2>1 DEF SumCredits, tables
  <2>2. CASE ~Finish(w)
    <3> DEFINE next == [r EXCEPT !.pc = "pre_save", !.copy = [r.copy EXCEPT !.st = "pending"]]
    <3>1. req' = [req EXCEPT ![w].pc = "pre_save", ![w].copy.st = "pending"]
      BY <1>10, <2>2 DEF SumCredits
    <3>2. req' = [req EXCEPT ![w] = next]
      BY <3>1
    <3>3. Balanced(r.j) /\ r.op \notin LineWriters /\ OnEntry(r)
      BY <1>0, <1>10, <2>2 DEF SumCredits, At, Balanced, RequestOK, OnEntry, Writing, WriterLabels, DeciderLabels, LineWriters, PeriodLabels
    <3>4. next.pc = "pre_save" /\ next.op = r.op /\ next.j = r.j /\ next.copy.st = "pending"
      BY <1>0 DEF Request, JournalEntry
    <3> HIDE DEF next
    <3>5. RequestOK(next)
      BY <1>0, <3>3, <3>4 DEF RequestOK, OnEntry, Writing, WriterLabels, DeciderLabels, LineWriters, PeriodLabels
    <3> QED BY <1>10, <1>m, <3>2, <3>3, <3>4, <3>5 DEF SumCredits, tables
  <2> QED BY <2>1, <2>2
<1>11. CASE FindPendingRow(w)
  <2>1. PICK k \in Rows \cup {0, r.apr} : req' = [req EXCEPT ![w].pc = "save_row", ![w].apr = k]
    <3>1. CASE Goto(w, "save_row")
      <4>1. [r EXCEPT !.pc = "save_row"] = [r EXCEPT !.pc = "save_row", !.apr = r.apr]
        BY <1>0 DEF Request
      <4> QED BY <3>1, <4>1 DEF Goto
    <3>2. CASE ~Goto(w, "save_row")
      BY <1>11, <3>2 DEF FindPendingRow
    <3> QED BY <3>1, <3>2
  <2> DEFINE next == [r EXCEPT !.pc = "save_row", !.apr = k]
  <2>2. req' = [req EXCEPT ![w] = next]
    BY <2>1
  <2>3. RequestOK(next) /\ OnEntry(r) /\ next.op = r.op /\ next.j = r.j
    BY <1>0, <1>11 DEF FindPendingRow, At, Request, RequestOK, OnEntry, Writing, WriterLabels, DeciderLabels, LineWriters, PeriodLabels
  <2> HIDE DEF next
  <2> QED BY <1>11, <1>m, <2>2, <2>3 DEF FindPendingRow, tables
<1>12. CASE SaveDecision(w)
  <2> DEFINE next == [r EXCEPT !.pc = "pre_save", !.copy = [r.copy EXCEPT !.st = Decision(r.op)]]
  <2>1. req' = [req EXCEPT ![w] = next]
    BY <1>12 DEF SaveDecision
  <2>2. Balanced(r.j) /\ r.op \notin LineWriters /\ OnEntry(r)
    BY <1>0, <1>12 DEF SaveDecision, At, RequestOK, OnEntry, Writing, WriterLabels, DeciderLabels, LineWriters, PeriodLabels
  <2>3. next.pc = "pre_save" /\ next.op = r.op /\ next.j = r.j /\ next.copy.st = Decision(r.op)
    BY <1>0 DEF Request, JournalEntry
  <2>4. Decision(r.op) \in {"approved", "rejected"}
    BY DEF Decision
  <2> HIDE DEF next
  <2>5. RequestOK(next)
    BY <1>0, <2>2, <2>3, <2>4 DEF RequestOK, OnEntry, Writing, WriterLabels, DeciderLabels, LineWriters, PeriodLabels
  <2> QED BY <1>12, <1>m, <2>1, <2>2, <2>3, <2>5 DEF SaveDecision
<1>13. CASE SeedChecklist(w)
  <2>1. CASE UNCHANGED req
    BY <1>13, <2>1 DEF SeedChecklist, BalanceInv, BalancedOnceSubmitted, RequestOK, Alone,
       Writing, OnEntry, Balanced
  <2>2. CASE Finish(w)
    BY <1>13, <1>f, <2>2 DEF SeedChecklist
  <2>3. CASE ~(UNCHANGED req \/ Finish(w))
    <3>1. PICK s \in Steps :
             req' = [req EXCEPT ![w].pc = "toggle", ![w].step = s,
                                ![w].seen = checklist[r.copy.per][s]]
      BY <1>13, <2>3 DEF SeedChecklist
    <3> DEFINE next == [r EXCEPT !.pc = "toggle", !.step = s, !.seen = checklist[r.copy.per][s]]
    <3>2. req' = [req EXCEPT ![w] = next]
      BY <3>1
    <3>3. RequestOK(next) /\ ~OnEntry(next)
      BY <1>0 DEF Request, RequestOK, OnEntry, Writing, WriterLabels, DeciderLabels, LineWriters, PeriodLabels
    <3> HIDE DEF next
    <3> QED BY <1>13, <3>2, <3>3, BalanceOffEntry DEF SeedChecklist
  <2> QED BY <2>1, <2>2, <2>3
<1>14. CASE CreateApproval(w) \/ ToggleStep(w) \/ ClosePeriod(w)
  BY <1>14, <1>f DEF CreateApproval, ToggleStep, ClosePeriod
<1>15. CASE CountUnposted(w)
  <2>1. CASE Finish(w)
    BY <1>15, <1>f, <2>1 DEF CountUnposted, tables
  <2>2. CASE ~Finish(w)
    <3> DEFINE next == [r EXCEPT !.pc = "close"]
    <3>1. req' = [req EXCEPT ![w] = next]
      BY <1>15, <2>2 DEF CountUnposted, Goto
    <3>2. RequestOK(next) /\ ~OnEntry(next)
      BY <1>0 DEF Request, RequestOK, OnEntry, Writing, WriterLabels, DeciderLabels, LineWriters, PeriodLabels
    <3> HIDE DEF next
    <3> QED BY <1>15, <3>1, <3>2, BalanceOffEntry DEF CountUnposted, tables
  <2> QED BY <2>1, <2>2
<1> QED
  BY <1>1, <1>2, <1>3, <1>4, <1>5, <1>6, <1>7, <1>8, <1>9, <1>10, <1>11, <1>12, <1>13,
     <1>14, <1>15 DEF Continue

LEMMA InitBalance == Init => BalanceInv
  BY DEF Init, BalanceInv, BalancedOnceSubmitted, Alone, NoEntry, Idle, RequestOK, OnEntry, Writing, WriterLabels, DeciderLabels, LineWriters, PeriodLabels

LEMMA NextBalance ==
    ASSUME WritersApart
    PROVE  TypeInv /\ BalanceInv /\ [Next]_vars => BalanceInv'
<1> SUFFICES ASSUME TypeInv, BalanceInv, [Next]_vars PROVE BalanceInv'
  OBVIOUS
<1>1. ASSUME NEW w \in Workers, Start(w) PROVE BalanceInv'
  BY <1>1, BalanceStart
<1>2. ASSUME NEW w \in Workers, Continue(w) PROVE BalanceInv'
  BY <1>2, BalanceContinue
<1>3. ASSUME NEW w \in Workers, Crash(w) PROVE BalanceInv'
  BY <1>3, BalanceFinish DEF Crash, tables
<1>4. ASSUME UNCHANGED <<je, lines, req>> PROVE BalanceInv'
  BY <1>4 DEF BalanceInv, BalancedOnceSubmitted, RequestOK, Alone, Writing, OnEntry, Balanced
<1> QED BY <1>1, <1>2, <1>3, <1>4 DEF Next, ReopenPeriod, vars

\* What is submitted balances, and so does everything approved or posted later:
\* when no two requests about one entry overlap of which one writes lines, the
\* single check of journal_submit is enough, in any number of requests, entries
\* and periods and however many requests die.
THEOREM SubmittedEntriesBalance ==
    ASSUME WritersApart
    PROVE  Spec => []BalancedOnceSubmitted
<1>1. BalanceInv => BalancedOnceSubmitted
  BY DEF BalanceInv
<1> QED BY <1>1, InitTypes, NextTypes, InitBalance, NextBalance, PTL DEF Spec

-----------------------------------------------------------------------------
(* What follows needs requests on one entry, or at the closing of a period, to be  *)
(* kept apart, as Exclusive says: closed periods have nothing left to post, posted *)
(* entries are final, the audit trail follows the status, the newest approval row  *)
(* says what was decided; and the workflow implements the ledger of PostedLedger.  *)

Makers == {"create", "allocate"}
Deciders == {"approve", "reject"}

\* Nobody works on an existing entry in two places at once.
EntriesApart == {"edit", "submit", "post"} \cup Deciders \subseteq Exclusive

\* A period is closed while nothing else runs.
ClosingApart == "close" \in Exclusive

-----------------------------------------------------------------------------
(* What a step of one worker does to its request and to the tables: every      *)
(* statement once, in terms of the columns and local values before and after,  *)
(* for the invariants below.                                                   *)

Others(w) == \A v \in Workers \ {w} : req'[v] = req[v]

\* The request goes on with the same entry and the same copy of it, or it ends.
Keeps(w) ==
    /\ req'[w].op = req[w].op
    /\ req'[w].j = req[w].j
    /\ req'[w].copy = req[w].copy

Stops(w) == req'[w] = Idle

\* Views that create an entry, work on one, or on a period.
TakesNew(w) ==
    /\ req'[w].op \in Makers /\ req'[w].pc = "number" /\ req'[w].j = 0
    /\ req'[w].copy.st = "draft" /\ req'[w].old = "none"
    /\ req'[w].copy.per \in Periods /\ ~closed[req'[w].copy.per]

TakesEntry(w) ==
    LET op == req'[w].op
        pc == req'[w].pc
        j == req'[w].j
        copy == req'[w].copy
    IN  /\ j \in Journals
        /\ req'[w].apr = 0
        /\ copy.per = je[j].per
        /\ \/ op = "edit" /\ pc = "validate" /\ copy = je[j] /\ copy.st = "draft"
           \/ op = "submit" /\ pc = "sum_debits" /\ copy = je[j] /\ copy.st = "draft"
           \/ op \in Deciders /\ pc = "find_row" /\ copy = je[j] /\ copy.st = "pending"
           \/ op = "post" /\ pc = "pre_save" /\ je[j].st = "approved" /\ copy.st = "posted"

TakesPeriod(w) ==
    /\ \/ req'[w].op = "checklist" /\ req'[w].pc = "seed"
       \/ req'[w].op = "close" /\ req'[w].pc = "count_unposted"
    /\ req'[w].j = 0 /\ req'[w].copy.per \in Periods

Begins(w) ==
    /\ MayStart(w, req'[w].op, req'[w].j)
    /\ TakesNew(w) \/ TakesEntry(w) \/ TakesPeriod(w)
    /\ UNCHANGED <<tables, crashes>>

Numbers(w) ==
    /\ At(w, "number") /\ req'[w].pc = "insert" /\ req'[w].j \in Journals
    /\ req'[w].op = req[w].op /\ req'[w].copy = req[w].copy /\ req'[w].old = req[w].old
    /\ UNCHANGED <<tables, crashes>>

Inserts(w) ==
    /\ At(w, "insert") /\ req'[w].pc = "audit" /\ Keeps(w) /\ req'[w].old = req[w].old
    /\ je[req[w].j].st = "none"
    /\ je' = [je EXCEPT ![req[w].j] = req[w].copy]
    /\ UNCHANGED <<lines, approvals, closed, audit, crashes>>

WritesLine(w) ==
    /\ At(w, "lines")
    /\ Stops(w) \/ (Keeps(w) /\ \/ req'[w].pc = "lines"
                                \/ req'[w].pc = "total" /\ req[w].op = "allocate")
    /\ \A j \in Journals \ {req[w].j} : lines'[j] = lines[j]
    /\ UNCHANGED <<je, approvals, closed, audit, crashes>>

\* A step to the next statement, of those that set nothing the invariants need.
GoesOn(w) ==
    /\ Keeps(w)
    /\ \/ At(w, "total") /\ req'[w].pc = "lines"
       \/ At(w, "sum_debits") /\ req'[w].pc = "sum_credits"
       \/ At(w, "seed") /\ req'[w].pc \in {"seed", "toggle"}
    /\ UNCHANGED <<je, lines, approvals, closed, audit, crashes>>

Captures(w) ==
    /\ At(w, "pre_save") /\ req'[w].pc = "update" /\ Keeps(w)
    /\ req'[w].old = je[req[w].j].st
    /\ UNCHANGED <<tables, crashes>>

Updates(w) ==
    /\ At(w, "update") /\ req'[w].pc = "audit" /\ Keeps(w) /\ req'[w].old = req[w].old
    /\ je' = [je EXCEPT ![req[w].j] = req[w].copy]
    /\ UNCHANGED <<lines, approvals, closed, audit, crashes>>

Audits(w) ==
    /\ At(w, "audit")
    /\ \/ Stops(w) /\ req[w].op \notin LineWriters \cup {"submit"}
       \/ Keeps(w) /\ req[w].op \in LineWriters /\ req'[w].pc = "lines"
       \/ Keeps(w) /\ req[w].op = "submit" /\ req'[w].pc = "approval_row"
    /\ audit' = IF req[w].old # req[w].copy.st
                 THEN [audit EXCEPT ![req[w].j] = req[w].copy.st]
                 ELSE audit
    /\ UNCHANGED <<je, lines, approvals, closed, crashes>>

Validates(w) ==
    /\ At(w, "validate") /\ req'[w].pc = "pre_save"
    /\ req'[w].op = req[w].op /\ req'[w].j = req[w].j
    /\ req'[w].copy.st = req[w].copy.st
    /\ req'[w].copy.per \in Periods /\ ~closed[req'[w].copy.per]
    /\ UNCHANGED <<tables, crashes>>

\* Submitting and deciding set the copy's status and keep its period.
SetsStatus(w) ==
    /\ req'[w].op = req[w].op /\ req'[w].j = req[w].j /\ req'[w].pc = "pre_save"
    /\ req'[w].copy.per = req[w].copy.per
    /\ UNCHANGED <<je, lines, closed, audit, crashes>>

Pends(w) ==
    /\ At(w, "sum_credits") /\ SetsStatus(w) /\ req'[w].copy.st = "pending"
    /\ UNCHANGED approvals

AddsRow(w) ==
    /\ At(w, "approval_row") /\ Stops(w) /\ AddApproval(req[w].j, "pending")
    /\ UNCHANGED <<je, lines, closed, audit, crashes>>

FindsRow(w) ==
    /\ At(w, "find_row") /\ req'[w].pc = "save_row" /\ Keeps(w)
    /\ \/ /\ \A k \in Rows : approvals[req[w].j][k] # "pending"
          /\ req'[w].apr = req[w].apr
       \/ /\ req'[w].apr \in Rows
          /\ approvals[req[w].j][req'[w].apr] = "pending"
    /\ UNCHANGED <<tables, crashes>>

Decides(w) ==
    /\ At(w, "save_row") /\ SetsStatus(w) /\ req'[w].copy.st = Decision(req[w].op)
    /\ \/ /\ req[w].apr \in Rows
          /\ approvals' = [approvals EXCEPT ![req[w].j][req[w].apr] = Decision(req[w].op)]
       \/ /\ req[w].apr = 0
          /\ AddApproval(req[w].j, Decision(req[w].op))

Counts(w) ==
    /\ At(w, "count_unposted") /\ req'[w].pc = "close" /\ Keeps(w)
    /\ UnpostedIn(req[w].copy.per) = {}
    /\ UNCHANGED <<tables, crashes>>

Closes(w) ==
    /\ At(w, "close") /\ Stops(w)
    /\ closed' = [closed EXCEPT ![req[w].copy.per] = TRUE]
    /\ UNCHANGED <<je, lines, approvals, audit, crashes>>

\* An early return, an error, the last statement of a checklist, or a crash.
GivesUp(w) ==
    /\ Stops(w)
    /\ crashes' \in {crashes, crashes + 1}
    /\ At(w, "audit") => crashes' = crashes + 1
    /\ UNCHANGED <<je, lines, approvals, closed, audit>>

Effect(w) ==
    \/ Begins(w) \/ Numbers(w) \/ Inserts(w) \/ WritesLine(w) \/ GoesOn(w)
    \/ Captures(w) \/ Updates(w) \/ Audits(w) \/ Validates(w)
    \/ Pends(w) \/ AddsRow(w) \/ FindsRow(w) \/ Decides(w)
    \/ Counts(w) \/ Closes(w) \/ GivesUp(w)

LEMMA StartEffect ==
    ASSUME TypeInv, NEW w \in Workers, Start(w)
    PROVE  Others(w) /\ Begins(w)
<1>t. req \in [Workers -> Request] /\ je \in [Journals -> JournalEntry]
  BY DEF TypeInv, TypeOK
<1>1. CASE CreateStart(w)
  <2>1. PICK p \in Periods, line \in FormLines :
           /\ ~closed[p]
           /\ req' = [req EXCEPT ![w] = [Idle EXCEPT !.op = "create", !.pc = "number",
                      !.copy = [st |-> "draft", per |-> p], !.line = line, !.todo = Sides]]
    BY <1>1 DEF CreateStart, ValidForm
  <2>2. TakesNew(w) /\ Others(w) /\ req'[w].op = "create" /\ req'[w].j = 0
    BY <1>t, <2>1 DEF TakesNew, Others, Idle, Makers
  <2> QED BY <1>1, <2>2 DEF CreateStart, Begins
<1>2. CASE AllocateStart(w)
  <2>1. PICK p \in Periods, a \in Amounts \cup {0} :
           /\ ~closed[p]
           /\ req' = [req EXCEPT ![w] = [Idle EXCEPT !.op = "allocate", !.pc = "number",
                      !.copy = [st |-> "draft", per |-> p],
                      !.line = [NoLines EXCEPT !["dr"] = a], !.todo = {"dr"}]]
    BY <1>2 DEF AllocateStart
  <2>2. TakesNew(w) /\ Others(w) /\ req'[w].op = "allocate" /\ req'[w].j = 0
    BY <1>t, <2>1 DEF TakesNew, Others, Idle, Makers
  <2> QED BY <1>2, <2>2 DEF AllocateStart, Begins
<1>3. ASSUME NEW j \in Journals, EditStart(w, j) PROVE Others(w) /\ Begins(w)
  <2>1. TakesEntry(w) /\ Others(w) /\ req'[w].op = "edit" /\ req'[w].j = j
    BY <1>t, <1>3 DEF EditStart, TakesEntry, Others, Idle
  <2> QED BY <1>3, <2>1 DEF EditStart, Begins
<1>4. ASSUME NEW j \in Journals, SubmitStart(w, j) PROVE Others(w) /\ Begins(w)
  <2>1. TakesEntry(w) /\ Others(w) /\ req'[w].op = "submit" /\ req'[w].j = j
    BY <1>t, <1>4 DEF SubmitStart, TakesEntry, Others, Idle
  <2> QED BY <1>4, <2>1 DEF SubmitStart, Begins
<1>5. ASSUME NEW j \in Journals, PostStart(w, j) PROVE Others(w) /\ Begins(w)
  <2>1. TakesEntry(w) /\ Others(w) /\ req'[w].op = "post" /\ req'[w].j = j
    BY <1>t, <1>5 DEF PostStart, TakesEntry, Others, Idle, JournalEntry
  <2> QED BY <1>5, <2>1 DEF PostStart, Begins
<1>6. ASSUME NEW j \in Journals, NEW op \in {"approve", "reject"}, DecideStart(w, j, op)
      PROVE  Others(w) /\ Begins(w)
  <2>1. TakesEntry(w) /\ Others(w) /\ req'[w].op = op /\ req'[w].j = j
    BY <1>t, <1>6 DEF DecideStart, TakesEntry, Others, Idle, Deciders
  <2> QED BY <1>6, <2>1 DEF DecideStart, Begins
<1>7. ASSUME NEW p \in Periods, ChecklistStart(w, p) PROVE Others(w) /\ Begins(w)
  <2>1. TakesPeriod(w) /\ Others(w) /\ req'[w].op = "checklist" /\ req'[w].j = 0
    BY <1>t, <1>7 DEF ChecklistStart, PeriodRequest, TakesPeriod, Others, Idle, NoEntry
  <2> QED BY <1>7, <2>1 DEF ChecklistStart, Begins
<1>8. ASSUME NEW p \in Periods, CloseStart(w, p) PROVE Others(w) /\ Begins(w)
  <2>1. TakesPeriod(w) /\ Others(w) /\ req'[w].op = "close" /\ req'[w].j = 0
    BY <1>t, <1>8 DEF CloseStart, PeriodRequest, TakesPeriod, Others, Idle, NoEntry
  <2> QED BY <1>8, <2>1 DEF CloseStart, Begins
<1> QED BY <1>1, <1>2, <1>3, <1>4, <1>5, <1>6, <1>7, <1>8 DEF Start

LEMMA ContinueEffect ==
    ASSUME TypeInv, NEW w \in Workers, Continue(w)
    PROVE  Others(w) /\ Effect(w)
<1>t. /\ req \in [Workers -> Request]
      /\ je \in [Journals -> JournalEntry]
      /\ lines \in [Journals -> EntryLines]
  BY DEF TypeInv, TypeOK
<1>0. /\ req[w] \in Request /\ Placed(req[w])
      /\ req[w].copy \in JournalEntry
      /\ req[w].apr \in Rows \cup {0}
  BY LocalTypes
<1>f. ASSUME Finish(w) PROVE Others(w) /\ Stops(w)
  BY <1>t, <1>f DEF Finish, Others, Stops
<1>1. CASE GenerateNumber(w)
  <2>1. PICK n \in Journals : req' = [req EXCEPT ![w].pc = "insert", ![w].j = n]
    BY <1>1 DEF GenerateNumber
  <2>2. Others(w) /\ Numbers(w)
    BY <1>t, <1>1, <2>1 DEF GenerateNumber, Others, Numbers, Request
  <2> QED BY <2>2 DEF Effect
<1>2. CASE InsertHeader(w)
  <2>1. CASE Finish(w) /\ UNCHANGED je
    BY <1>2, <1>f, <2>1 DEF InsertHeader, GivesUp, Effect, At
  <2>2. CASE ~(Finish(w) /\ UNCHANGED je)
    <3>1. Others(w) /\ Inserts(w)
      BY <1>t, <1>2, <2>2 DEF InsertHeader, Goto, Others, Inserts, Keeps, Request
    <3> QED BY <3>1 DEF Effect
  <2> QED BY <2>1, <2>2
<1>3. CASE SaveLine(w)
  <2>1. PICK s \in req[w].todo :
          /\ lines' = [lines EXCEPT ![req[w].j][s] = SavedSide(w, s)]
          /\ \/ req' = [req EXCEPT ![w].todo = @ \ {s}]
             \/ req[w].op = "allocate" /\ Goto(w, "total")
             \/ Finish(w)
    BY <1>3 DEF SaveLine
  <2>2. \A j \in Journals \ {req[w].j} : lines'[j] = lines[j]
    BY <1>t, <2>1
  <2>3. \/ Others(w) /\ Keeps(w) /\ req'[w].pc = "lines"
        \/ Others(w) /\ Keeps(w) /\ req'[w].pc = "total" /\ req[w].op = "allocate"
        \/ Others(w) /\ Stops(w)
    <3>1. CASE req' = [req EXCEPT ![w].todo = @ \ {s}]
      BY <1>t, <1>3, <3>1 DEF SaveLine, At, Others, Keeps, Request
    <3>2. CASE req[w].op = "allocate" /\ Goto(w, "total")
      BY <1>t, <3>2 DEF Goto, Others, Keeps, Request
    <3> QED BY <2>1, <3>1, <3>2, <1>f
  <2>4. WritesLine(w)
    BY <1>3, <2>2, <2>3 DEF SaveLine, WritesLine
  <2> QED BY <2>3, <2>4 DEF Effect
<1>4. CASE AllocationTotal(w)
  <2>1. CASE Finish(w)
    BY <1>4, <1>f, <2>1 DEF AllocationTotal, GivesUp, Effect, At, tables
  <2>2. CASE ~Finish(w)
    <3>1. Others(w) /\ GoesOn(w)
      BY <1>t, <1>4, <2>2 DEF AllocationTotal, Others, GoesOn, Keeps, Request, tables
    <3> QED BY <3>1 DEF Effect
  <2> QED BY <2>1, <2>2
<1>5. CASE CaptureOldValues(w)
  <2>1. Others(w) /\ Captures(w)
    BY <1>t, <1>5 DEF CaptureOldValues, Others, Captures, Keeps, Request
  <2> QED BY <2>1 DEF Effect
<1>6. CASE UpdateRow(w)
  <2>1. Others(w) /\ Updates(w)
    BY <1>t, <1>6 DEF UpdateRow, Goto, Others, Updates, Keeps, Request
  <2> QED BY <2>1 DEF Effect
<1>7. CASE LogAuditTrail(w)
  <2>1. CASE req[w].op \in LineWriters
    <3>1. AfterSave(req[w].op) = "lines"
      BY <2>1 DEF AfterSave, LineWriters
    <3>2. Others(w) /\ Audits(w)
      BY <1>t, <1>7, <2>1, <3>1 DEF LogAuditTrail, Goto, Others, Audits, Keeps, Request
    <3> QED BY <3>2 DEF Effect
  <2>2. CASE req[w].op = "submit"
    <3>1. AfterSave(req[w].op) = "approval_row"
      BY <2>2 DEF AfterSave
    <3>2. Others(w) /\ Audits(w)
      BY <1>t, <1>7, <2>2, <3>1 DEF LogAuditTrail, Goto, Others, Audits, Keeps, Request
    <3> QED BY <3>2 DEF Effect
  <2>3. CASE req[w].op \notin LineWriters \cup {"submit"}
    <3>1. AfterSave(req[w].op) = "idle"
      BY <2>3 DEF AfterSave, LineWriters
    <3>2. Others(w) /\ Audits(w)
      BY <1>7, <1>f, <2>3, <3>1 DEF LogAuditTrail, Audits
    <3> QED BY <3>2 DEF Effect
  <2> QED BY <2>1, <2>2, <2>3
<1>8. CASE EditValidate(w)
  <2>1. CASE Finish(w)
    BY <1>8, <1>f, <2>1 DEF EditValidate, GivesUp, Effect, At, tables
  <2>2. CASE ~Finish(w)
    <3>1. PICK p \in Periods, line \in FormLines :
             /\ ~closed[p]
             /\ req' = [req EXCEPT ![w].pc = "pre_save", ![w].copy.per = p,
                                   ![w].line = line, ![w].todo = Sides]
      BY <1>8, <2>2 DEF EditValidate, ValidForm
    <3>2. /\ Others(w)
          /\ req'[w].op = req[w].op /\ req'[w].j = req[w].j /\ req'[w].pc = "pre_save"
          /\ req'[w].copy.st = req[w].copy.st /\ req'[w].copy.per = p
      BY <1>t, <3>1 DEF Others, Request, JournalEntry
    <3>3. Validates(w)
      BY <1>8, <3>1, <3>2 DEF EditValidate, Validates
    <3> QED BY <3>2, <3>3 DEF Effect
  <2> QED BY <2>1, <2>2
<1>9. CASE SumDebits(w)
  <2>1. Others(w) /\ GoesOn(w)
    BY <1>t, <1>9 DEF SumDebits, Others, GoesOn, Keeps, Request, tables
  <2> QED BY <2>1 DEF Effect
<1>10. CASE SumCredits(w)
  <2>1. CASE Finish(w)
    BY <1>10, <1>f, <2>1 DEF SumCredits, GivesUp, Effect, At, tables
  <2>2. CASE ~Finish(w)
    <3>1. Others(w) /\ Pends(w)
      BY <1>t, <1>10, <2>2
         DEF SumCredits, Others, Pends, SetsStatus, Request, JournalEntry, tables
    <3> QED BY <3>1 DEF Effect
  <2> QED BY <2>1, <2>2
<1>11. CASE CreateApproval(w)
  <2>1. Others(w) /\ AddsRow(w)
    BY <1>11, <1>f DEF CreateApproval, AddsRow
  <2> QED BY <2>1 DEF Effect
<1>12. CASE FindPendingRow(w)
  <2>1. CASE Goto(w, "save_row") /\ \A k \in Rows : approvals[req[w].j][k] # "pending"
    <3>1. Others(w) /\ FindsRow(w)
      BY <1>t, <1>12, <2>1 DEF FindPendingRow, Goto, Others, FindsRow, Keeps, Request
    <3> QED BY <3>1 DEF Effect
  <2>2. CASE ~(Goto(w, "save_row") /\ \A k \in Rows : approvals[req[w].j][k] # "pending")
    <3>1. PICK k \in Rows :
             /\ approvals[req[w].j][k] = "pending"
             /\ req' = [req EXCEPT ![w].pc = "save_row", ![w].apr = k]
      BY <1>12, <2>2 DEF FindPendingRow
    <3>2. Others(w) /\ Keeps(w) /\ req'[w].pc = "save_row" /\ req'[w].apr = k
      BY <1>t, <3>1 DEF Others, Keeps, Request
    <3>3. FindsRow(w)
      BY <1>12, <3>1, <3>2 DEF FindPendingRow, FindsRow
    <3> QED BY <3>2, <3>3 DEF Effect
  <2> QED BY <2>1, <2>2
<1>13. CASE SaveDecision(w)
  <2>1. Others(w) /\ SetsStatus(w) /\ req'[w].copy.st = Decision(req[w].op)
    BY <1>t, <1>13 DEF SaveDecision, Others, SetsStatus, Request, JournalEntry
  <2>2. Decides(w)
    BY <1>0, <1>13, <2>1 DEF SaveDecision, Decides
  <2> QED BY <2>1, <2>2 DEF Effect
<1>14. CASE SeedChecklist(w)
  <2>1. CASE Finish(w)
    BY <1>14, <1>f, <2>1 DEF SeedChecklist, GivesUp, Effect, At
  <2>2. CASE UNCHANGED req
    <3>1. Others(w) /\ GoesOn(w)
      BY <1>14, <2>2 DEF SeedChecklist, At, Others, GoesOn, Keeps
    <3> QED BY <3>1 DEF Effect
  <2>3. CASE ~Finish(w) /\ ~UNCHANGED req
    <3>1. PICK s \in Steps :
             req' = [req EXCEPT ![w].pc = "toggle", ![w].step = s,
                                ![w].seen = checklist[req[w].copy.per][s]]
      BY <1>14, <2>3 DEF SeedChecklist
    <3>2. Others(w) /\ Keeps(w) /\ req'[w].pc = "toggle"
      BY <1>t, <3>1 DEF Others, Keeps, Request
    <3>3. GoesOn(w)
      BY <1>14, <3>2 DEF SeedChecklist, GoesOn
    <3> QED BY <3>2, <3>3 DEF Effect
  <2> QED BY <2>1, <2>2, <2>3
<1>15. CASE ToggleStep(w)
  BY <1>15, <1>f DEF ToggleStep, GivesUp, Effect, At
<1>16. CASE CountUnposted(w)
  <2>1. CASE Finish(w)
    BY <1>16, <1>f, <2>1 DEF CountUnposted, GivesUp, Effect, At, tables
  <2>2. CASE ~Finish(w)
    <3>1. Others(w) /\ Counts(w)
      BY <1>t, <1>16, <2>2 DEF CountUnposted, Goto, Others, Counts, Keeps, Request
    <3> QED BY <3>1 DEF Effect
  <2> QED BY <2>1, <2>2
<1>17. CASE ClosePeriod(w)
  <2>1. Others(w) /\ Closes(w)
    BY <1>17, <1>f DEF ClosePeriod, Closes
  <2> QED BY <2>1 DEF Effect
<1> QED
  BY <1>1, <1>2, <1>3, <1>4, <1>5, <1>6, <1>7, <1>8, <1>9, <1>10, <1>11, <1>12, <1>13,
     <1>14, <1>15, <1>16, <1>17 DEF Continue

\* A step of the specification is a step of one worker, a reopening, or nothing.
LEMMA NextEffect ==
    ASSUME TypeInv, [Next]_vars
    PROVE  \/ \E w \in Workers : Others(w) /\ Effect(w)
           \/ \E p \in Periods : ReopenPeriod(p)
           \/ UNCHANGED vars
<1>1. ASSUME NEW w \in Workers, Crash(w) PROVE Others(w) /\ Effect(w)
  <2>1. Others(w) /\ GivesUp(w)
    BY <1>1 DEF Crash, Finish, Others, GivesUp, Stops, TypeInv, TypeOK, tables
  <2> QED BY <2>1 DEF Effect
<1>2. ASSUME NEW w \in Workers, Start(w) PROVE Others(w) /\ Effect(w)
  BY <1>2, StartEffect DEF Effect
<1> QED BY <1>1, <1>2, ContinueEffect DEF Next

-----------------------------------------------------------------------------
(* A closed period has nothing left to post.  period_close_action counts and   *)
(* then closes in two statements, and no save looks at the period again: the   *)
(* count is still true when the period closes because nothing else runs, and   *)
(* stays true because no request is under way that could write into it.        *)

CloseLabels == {"count_unposted", "close"}

\* A request about entries holds a copy in an open period.
InPeriod(r) ==
    /\ r.pc \in CloseLabels <=> r.op = "close"
    /\ r.pc = "close" => UnpostedIn(r.copy.per) = {}
    /\ r.pc \notin {"idle"} \cup PeriodLabels =>
          r.copy.per \in Periods /\ ~closed[r.copy.per]

CloseAlone == \A v, w \in Workers : v # w /\ req[v].op = "close" => req[w].pc = "idle"

ClosedInv ==
    /\ ClosedPeriodSettled
    /\ \A j \in Journals : je[j].st # "none" => je[j].per \in Periods
    /\ \A w \in Workers : InPeriod(req[w])
    /\ CloseAlone

LEMMA InitClosed == Init => ClosedInv
  BY DEF Init, ClosedInv, ClosedPeriodSettled, NoEntry, Idle, InPeriod, CloseAlone,
         CloseLabels, PeriodLabels

LEMMA CloseStaysAlone ==
    ASSUME ClosingApart, ClosedInv, NEW w \in Workers, Others(w), Effect(w)
    PROVE  CloseAlone'
<1>0. CloseAlone /\ \A v \in Workers : req[v].op = "close" => req[v].pc # "idle"
  BY DEF ClosedInv, InPeriod, CloseLabels
<1>1. CASE Begins(w)
  <2>1. \A v \in Workers \ {w} : req[v].pc # "idle" =>
           req'[w].op # "close" /\ req[v].op # "close"
    BY <1>1 DEF Begins, MayStart, Busy, KeptApart, ClosingApart
  <2> QED BY <1>0, <2>1 DEF CloseAlone, Others
<1>2. CASE ~Begins(w)
  <2>1. \/ req'[w] = Idle
        \/ req'[w].op = req[w].op /\ req[w].pc # "idle"
    BY <1>2 DEF Effect, Numbers, Inserts, WritesLine, GoesOn, Captures, Updates, Audits,
       Validates, Pends, AddsRow, FindsRow, Decides, SetsStatus, Counts, Closes, GivesUp,
       At, Keeps, Stops
  <2>2. Idle.op = "none" /\ Idle.pc = "idle"
    BY DEF Idle
  <2> QED BY <1>0, <2>1, <2>2 DEF CloseAlone, Others
<1> QED BY <1>1, <1>2

LEMMA StepClosed ==
    ASSUME ClosingApart, TypeInv, ClosedInv, NEW w \in Workers, Others(w), Effect(w)
    PROVE  ClosedInv'
<1> DEFINE r == req[w]
<1>0. /\ InPeriod(r) /\ Placed(r)
      /\ \A v \in Workers \ {w} : InPeriod(req[v]) /\ req'[v] = req[v]
      /\ \A v \in Workers \ {w} : r.pc # "idle" => req[v].op # "close"
      /\ \A v \in Workers \ {w} : r.op = "close" => req[v].pc = "idle"
  BY LocalTypes DEF ClosedInv, Others, CloseAlone
<1>i. Idle.op = "none" /\ Idle.pc = "idle"
  BY DEF Idle
<1>a. CloseAlone'
  BY CloseStaysAlone
<1>p. je \in [Journals -> JournalEntry] /\ closed \in [Periods -> BOOLEAN]
  BY DEF TypeInv, TypeOK
\* Most steps write neither an entry nor a period.
<1>u. ASSUME UNCHANGED <<je, closed>>, InPeriod(req[w])' PROVE ClosedInv'
  <2>1. ASSUME NEW v \in Workers PROVE InPeriod(req[v])'
    BY <1>0, <1>u DEF InPeriod, UnpostedIn
  <2> QED BY <1>a, <1>u, <2>1 DEF ClosedInv, ClosedPeriodSettled, UnpostedIn
\* An entry is written into an open period, while no period is being closed.
<1>w. ASSUME Inserts(w) \/ Updates(w) PROVE ClosedInv'
  <2>1. /\ r.pc \in {"insert", "update"} /\ r.j \in Journals
        /\ r.copy.per \in Periods /\ ~closed[r.copy.per]
        /\ req'[w].pc = "audit" /\ req'[w].op = r.op /\ req'[w].copy = r.copy
        /\ UNCHANGED closed
        /\ je' = [je EXCEPT ![r.j] = r.copy]
    BY <1>0, <1>w DEF Inserts, Updates, At, Keeps, InPeriod, Placed, PeriodLabels
  <2>2. \A j \in Journals : je'[j] = IF j = r.j THEN r.copy ELSE je[j]
    BY <1>p, <2>1
  <2>3. ClosedPeriodSettled'
    BY <2>1, <2>2 DEF ClosedInv, ClosedPeriodSettled, UnpostedIn
  <2>4. \A j \in Journals : je'[j].st # "none" => je'[j].per \in Periods
    BY <2>1, <2>2 DEF ClosedInv
  <2>5. ASSUME NEW v \in Workers PROVE InPeriod(req[v])'
    <3>1. CASE v = w
      BY <1>0, <2>1, <3>1 DEF InPeriod, CloseLabels, PeriodLabels
    <3>2. CASE v # w
      BY <1>0, <2>1, <3>2 DEF InPeriod, CloseLabels
    <3> QED BY <3>1, <3>2
  <2> QED BY <1>a, <2>3, <2>4, <2>5 DEF ClosedInv
<1>1. CASE Begins(w)
  <2>1. ASSUME TakesEntry(w)
        PROVE  req'[w].copy.per \in Periods /\ ~closed[req'[w].copy.per]
    <3>1. req'[w].j \in Journals /\ je[req'[w].j].st \in {"draft", "pending", "approved"}
      BY <2>1 DEF TakesEntry
    <3>2. je[req'[w].j].per \in Periods
      BY <3>1 DEF ClosedInv
    <3>3. ~closed[je[req'[w].j].per]
      BY <3>1, <3>2 DEF ClosedInv, ClosedPeriodSettled, UnpostedIn, Settled
    <3> QED BY <2>1, <3>2, <3>3 DEF TakesEntry
  <2>2. InPeriod(req[w])'
    <3>1. CASE TakesNew(w)
      BY <1>1, <3>1 DEF Begins, TakesNew, InPeriod, tables, CloseLabels, PeriodLabels, Makers
    <3>2. CASE TakesEntry(w)
      BY <1>1, <2>1, <3>2 DEF Begins, TakesEntry, InPeriod, tables, CloseLabels, PeriodLabels,
         Deciders
    <3>3. CASE TakesPeriod(w)
      BY <1>1, <3>3 DEF Begins, TakesPeriod, InPeriod, tables, CloseLabels, PeriodLabels
    <3> QED BY <1>1, <3>1, <3>2, <3>3 DEF Begins
  <2> QED BY <1>1, <1>u, <2>2 DEF Begins, tables
<1>2. CASE Closes(w)
  <2>1. /\ r.pc = "close" /\ r.op = "close" /\ UnpostedIn(r.copy.per) = {}
        /\ req'[w] = Idle /\ UNCHANGED je
        /\ closed' = [closed EXCEPT ![r.copy.per] = TRUE]
    BY <1>0, <1>2 DEF Closes, At, Stops, InPeriod, CloseLabels
  <2>2. ClosedPeriodSettled'
    BY <1>p, <2>1 DEF ClosedInv, ClosedPeriodSettled, UnpostedIn
  <2>3. ASSUME NEW v \in Workers PROVE InPeriod(req[v])'
    BY <1>0, <1>i, <2>1 DEF InPeriod, CloseLabels
  <2> QED BY <1>a, <2>1, <2>2, <2>3 DEF ClosedInv
<1>3. CASE Stops(w) /\ UNCHANGED <<je, closed>>
  <2>1. InPeriod(req[w])'
    BY <1>3, <1>i DEF Stops, InPeriod, CloseLabels
  <2> QED BY <1>3, <1>u, <2>1
\* The request goes on with its entry, or period, or takes a number.
<1>4. CASE /\ UNCHANGED <<je, closed>>
           /\ req'[w].op = r.op /\ req'[w].copy.per = r.copy.per
           /\ r.pc \in CloseLabels <=> req'[w].pc \in CloseLabels
           /\ r.pc \in PeriodLabels <=> req'[w].pc \in PeriodLabels
           /\ r.pc # "idle"
           /\ req'[w].pc = "close" => UnpostedIn(r.copy.per) = {}
  BY <1>0, <1>4, <1>u DEF InPeriod, UnpostedIn
<1>5. CASE Validates(w)
  <2>1. InPeriod(req[w])'
    BY <1>0, <1>5 DEF Validates, InPeriod, At, tables, CloseLabels, PeriodLabels
  <2> QED BY <1>5, <1>u, <2>1 DEF Validates, tables
<1>6. CASE WritesLine(w)
  BY <1>3, <1>4, <1>6 DEF WritesLine, Keeps, At, CloseLabels, PeriodLabels
<1>7. CASE Audits(w)
  BY <1>3, <1>4, <1>7 DEF Audits, Keeps, At, CloseLabels, PeriodLabels
<1>8. CASE Numbers(w) \/ GoesOn(w) \/ Captures(w)
  BY <1>4, <1>8 DEF Numbers, GoesOn, Captures, Keeps, At, CloseLabels, PeriodLabels, tables
<1>9. CASE Pends(w) \/ FindsRow(w) \/ Decides(w) \/ Counts(w)
  BY <1>4, <1>9 DEF Pends, FindsRow, Decides, Counts, SetsStatus, Keeps, At, CloseLabels,
     PeriodLabels, tables
<1>10. CASE AddsRow(w) \/ GivesUp(w)
  BY <1>3, <1>10 DEF AddsRow, GivesUp
<1> QED BY <1>w, <1>1, <1>2, <1>5, <1>6, <1>7, <1>8, <1>9, <1>10 DEF Effect

LEMMA NextClosed ==
    ASSUME ClosingApart
    PROVE  TypeInv /\ ClosedInv /\ [Next]_vars => ClosedInv'
<1> SUFFICES ASSUME TypeInv, ClosedInv, [Next]_vars PROVE ClosedInv'
  OBVIOUS
<1>1. ASSUME NEW w \in Workers, Others(w), Effect(w) PROVE ClosedInv'
  BY <1>1, StepClosed
<1>2. ASSUME NEW p \in Periods, ReopenPeriod(p) PROVE ClosedInv'
  <2>1. \A q \in Periods : closed'[q] => closed[q]
    BY <1>2 DEF ReopenPeriod, TypeInv, TypeOK
  <2> QED
    BY <1>2, <2>1 DEF ReopenPeriod, ClosedInv, ClosedPeriodSettled, InPeriod, UnpostedIn,
       CloseAlone
<1>3. CASE UNCHANGED vars
  BY <1>3 DEF vars, ClosedInv, ClosedPeriodSettled, InPeriod, UnpostedIn, CloseAlone
<1> QED BY <1>1, <1>2, <1>3, NextEffect

\* A closed period holds no entry that could still be posted: what
\* period_close_action counted stays true until the period is reopened, if users
\* close a period only while no other request runs, whatever else they overlap.
THEOREM ClosedPeriodsStaySettled ==
    ASSUME ClosingApart
    PROVE  Spec => []ClosedPeriodSettled
<1>1. ClosedInv => ClosedPeriodSettled
  BY DEF ClosedInv
<1> QED BY <1>1, InitTypes, NextTypes, InitClosed, NextClosed, PTL DEF Spec

-----------------------------------------------------------------------------
(* One request at a time on an entry: the copy a view decides on is then the   *)
(* row it later overwrites, and each kind of request takes an entry from one   *)
(* status to one other.                                                        *)

\* The status in which a view loads its entry, and the one it saves.
Loaded(op) ==
    CASE op \in {"edit", "submit"} -> "draft"
      [] op \in Deciders -> "pending"
      [] op = "post" -> "approved"
      [] OTHER -> "none"

Saves(op) ==
    CASE op \in LineWriters -> "draft"
      [] op = "submit" -> "pending"
      [] op \in Deciders -> Decision(op)
      [] op = "post" -> "posted"
      [] OTHER -> "none"

\* Which requests reach a statement.
InView(r) ==
    /\ r.pc \in {"number", "insert", "total"} => r.op \in Makers
    /\ r.pc = "validate" => r.op = "edit"
    /\ r.pc \in {"sum_debits", "sum_credits", "approval_row"} => r.op = "submit"
    /\ r.pc \in {"find_row", "save_row"} => r.op \in Deciders
    /\ r.pc \in {"pre_save", "update"} => r.op \in {"edit", "submit", "post"} \cup Deciders
    /\ r.pc = "audit" => r.op \in LineWriters \cup {"submit", "post"} \cup Deciders
    /\ r.pc = "lines" => r.op \in LineWriters

InFlow(r) ==
    /\ r.pc \in {"number", "insert"} => r.copy.st = "draft" /\ r.old = "none"
    /\ r.pc \in {"validate", "sum_debits", "sum_credits", "find_row", "save_row"} =>
          r.copy = je[r.j] /\ r.copy.st = Loaded(r.op)
    /\ r.pc \in {"pre_save", "update"} =>
          /\ je[r.j].st = Loaded(r.op)
          /\ r.copy.st = Saves(r.op)
          /\ r.op # "edit" => r.copy.per = je[r.j].per
    /\ r.pc = "audit" => r.copy = je[r.j] /\ r.copy.st = Saves(r.op)
    /\ r.pc \in {"lines", "total", "approval_row"} => je[r.j].st = Saves(r.op)

\* Two requests are on different entries.
Apart(r, q) == OnEntry(r) /\ OnEntry(q) => r.j # q.j

FlowInv ==
    /\ \A w \in Workers : InView(req[w]) /\ InFlow(req[w])
    /\ \A u, v \in Workers : u # v => Apart(req[u], req[v])

LEMMA SavedStatuses ==
    /\ \A op \in LineWriters : Saves(op) = "draft"
    /\ Loaded("edit") = "draft"
    /\ Loaded("submit") = "draft" /\ Saves("submit") = "pending"
    /\ Loaded("post") = "approved" /\ Saves("post") = "posted"
    /\ \A op \in Deciders : Loaded(op) = "pending" /\ Saves(op) = Decision(op)
    /\ Decision("approve") = "approved" /\ Decision("reject") = "rejected"
  BY DEF Saves, Loaded, Decision, LineWriters, Deciders

LEMMA InitFlow == Init => FlowInv
  BY DEF Init, Idle, FlowInv, InView, InFlow, Apart, OnEntry

\* The entry a request is on exists.
LEMMA EntryExists ==
    ASSUME FlowInv, NEW w \in Workers, OnEntry(req[w])
    PROVE  TypeInv => req[w].j \in Journals /\ je[req[w].j].st # "none"
<1> SUFFICES ASSUME TypeInv PROVE req[w].j \in Journals /\ je[req[w].j].st # "none"
  OBVIOUS
<1>1. req[w].j \in Journals
  BY EntryOfRequest
<1>2. req[w].pc \in Labels \ ({"idle", "number", "insert"} \cup PeriodLabels)
  BY LocalTypes DEF OnEntry, Request
<1>3. InView(req[w]) /\ InFlow(req[w])
  BY DEF FlowInv
<1> QED
  BY <1>1, <1>2, <1>3, SavedStatuses DEF InView, InFlow, Labels, PeriodLabels, LineWriters,
     Makers, Deciders

LEMMA FlowApart ==
    ASSUME EntriesApart, TypeInv, FlowInv, NEW w \in Workers, Others(w), Effect(w),
           NEW v \in Workers \ {w}
    PROVE  Apart(req[w], req[v])'
<1>0. /\ Apart(req[w], req[v]) /\ req'[v] = req[v]
      /\ OnEntry(req[v]) => je[req[v].j].st # "none" /\ req[v].j \in Journals
  BY EntryExists DEF FlowInv, Others
<1>1. CASE Begins(w)
  <2>1. CASE TakesEntry(w)
    <3>1. OnEntry(req[v]) => Busy(v)
      BY DEF OnEntry, Busy
    <3>2. req'[w].op \in Exclusive /\ req'[w].j # 0
      BY <2>1, ConstantsAssumption DEF TakesEntry, EntriesApart, Deciders, Journals
    <3> QED BY <1>0, <1>1, <3>1, <3>2 DEF Begins, MayStart, KeptApart, Apart, OnEntry
  <2>2. CASE TakesNew(w) \/ TakesPeriod(w)
    BY <1>0, <2>2 DEF TakesNew, TakesPeriod, Apart, OnEntry, PeriodLabels
  <2> QED BY <1>1, <2>1, <2>2 DEF Begins
<1>2. CASE Inserts(w)
  BY <1>0, <1>2 DEF Inserts, Keeps, Apart, OnEntry
<1>3. CASE Stops(w)
  BY <1>0, <1>3 DEF Stops, Idle, Apart, OnEntry
<1>4. CASE OnEntry(req[w]) /\ req'[w].j = req[w].j
  BY <1>0, <1>4 DEF Apart, OnEntry
<1>5. CASE Numbers(w) \/ GoesOn(w) \/ Counts(w)
  BY <1>0, <1>4, <1>5 DEF Numbers, GoesOn, Counts, Keeps, At, Apart, OnEntry, PeriodLabels
<1>6. CASE Captures(w) \/ Updates(w) \/ Validates(w) \/ Pends(w) \/ FindsRow(w) \/ Decides(w)
  BY <1>4, <1>6 DEF Captures, Updates, Validates, Pends, FindsRow, Decides, SetsStatus, Keeps,
     At, OnEntry, PeriodLabels
<1>7. CASE WritesLine(w) \/ Audits(w)
  BY <1>3, <1>4, <1>7 DEF WritesLine, Audits, Keeps, At, OnEntry, PeriodLabels
<1>8. CASE AddsRow(w) \/ Closes(w) \/ GivesUp(w)
  BY <1>3, <1>8 DEF AddsRow, Closes, GivesUp
<1> QED BY <1>1, <1>2, <1>5, <1>6, <1>7, <1>8 DEF Effect

\* A step that may write its own entry leaves the other requests as they are.
LEMMA FlowOfOthers ==
    ASSUME TypeInv, FlowInv, NEW w \in Workers, Others(w), NEW v \in Workers \ {w},
           OnEntry(req[w]) \/ (At(w, "insert") /\ je[req[w].j].st = "none"),
           je' = [je EXCEPT ![req[w].j] = req[w].copy]
    PROVE  (InView(req[v]) /\ InFlow(req[v]))'
<1>0. /\ InView(req[v]) /\ InFlow(req[v]) /\ req'[v] = req[v]
      /\ Apart(req[w], req[v])
      /\ OnEntry(req[v]) => req[v].j \in Journals /\ je[req[v].j].st # "none"
  BY EntryExists DEF FlowInv, Others
<1>1. je \in [Journals -> JournalEntry]
  BY DEF TypeInv, TypeOK
<1>2. OnEntry(req[v]) => je'[req[v].j] = je[req[v].j]
  BY <1>0, <1>1 DEF Apart
<1> QED BY <1>0, <1>2 DEF InView, InFlow, OnEntry, PeriodLabels

LEMMA FlowOwn ==
    ASSUME TypeInv, FlowInv, NEW w \in Workers, Effect(w)
    PROVE  (InView(req[w]) /\ InFlow(req[w]))'
<1> DEFINE r == req[w]
<1>0. InView(r) /\ InFlow(r) /\ Placed(r)
  BY LocalTypes DEF FlowInv
<1>p. je \in [Journals -> JournalEntry]
  BY DEF TypeInv, TypeOK
<1> USE DEF InView, InFlow, At
<1>1. CASE Stops(w)
  BY <1>1 DEF Stops, Idle
<1>2. CASE Begins(w)
  <2>1. CASE TakesNew(w)
    BY <1>2, <2>1 DEF TakesNew
  <2>2. CASE TakesPeriod(w)
    BY <1>2, <2>2 DEF TakesPeriod
  <2>3. CASE TakesEntry(w)
    BY <1>2, <2>3, SavedStatuses DEF Begins, TakesEntry, tables
  <2> QED BY <1>2, <2>1, <2>2, <2>3 DEF Begins
<1>3. CASE Numbers(w)
  BY <1>0, <1>3 DEF Numbers
<1>4. CASE Inserts(w) \/ Updates(w)
  <2>1. /\ req'[w].pc = "audit" /\ Keeps(w) /\ r.j \in Journals
        /\ je' = [je EXCEPT ![r.j] = r.copy]
        /\ r.copy.st = Saves(r.op)
        /\ r.op \in LineWriters \cup {"submit", "post"} \cup Deciders
    BY <1>0, <1>4, SavedStatuses DEF Inserts, Updates, Placed, PeriodLabels, Makers, LineWriters
  <2> QED BY <1>p, <2>1 DEF Keeps
<1>5. CASE WritesLine(w)
  BY <1>0, <1>1, <1>5, SavedStatuses DEF WritesLine, Keeps, LineWriters, Makers
<1>6. CASE GoesOn(w)
  BY <1>0, <1>6 DEF GoesOn, Keeps, LineWriters, Makers
<1>7. CASE Captures(w)
  BY <1>0, <1>7 DEF Captures, Keeps, tables
<1>8. CASE Audits(w)
  BY <1>0, <1>1, <1>8, SavedStatuses DEF Audits, Keeps, LineWriters
<1>9. CASE Validates(w)
  BY <1>0, <1>9, SavedStatuses DEF Validates, tables, LineWriters
<1>10. CASE Pends(w)
  BY <1>0, <1>10, SavedStatuses DEF Pends, SetsStatus
<1>11. CASE FindsRow(w)
  BY <1>0, <1>11 DEF FindsRow, Keeps, tables
<1>12. CASE Decides(w)
  BY <1>0, <1>12, SavedStatuses DEF Decides, SetsStatus
<1>13. CASE Counts(w)
  BY <1>0, <1>13 DEF Counts, Keeps
<1>14. CASE AddsRow(w) \/ Closes(w) \/ GivesUp(w)
  BY <1>1, <1>14 DEF AddsRow, Closes, GivesUp
<1> QED
  BY <1>2, <1>3, <1>4, <1>5, <1>6, <1>7, <1>8, <1>9, <1>10, <1>11, <1>12, <1>13, <1>14
     DEF Effect

\* Entries change only where a request inserts or updates its own.
LEMMA EntryWriters ==
    ASSUME NEW w \in Workers, Effect(w)
    PROVE  Inserts(w) \/ Updates(w) \/ UNCHANGED je
  BY DEF Effect, Begins, Numbers, WritesLine, GoesOn, Captures, Audits, Validates, Pends,
     AddsRow, FindsRow, Decides, SetsStatus, Counts, Closes, GivesUp, tables

LEMMA StepFlow ==
    ASSUME EntriesApart, TypeInv, FlowInv, NEW w \in Workers, Others(w), Effect(w)
    PROVE  FlowInv'
<1>1. ASSUME NEW v \in Workers PROVE (InView(req[v]) /\ InFlow(req[v]))'
  <2>1. CASE v = w
    BY <2>1, FlowOwn
  <2>2. CASE v # w /\ UNCHANGED je
    BY <2>2 DEF FlowInv, InView, InFlow, Others
  <2>3. CASE v # w /\ (Inserts(w) \/ Updates(w))
    BY <2>3, FlowOfOthers DEF Inserts, Updates, OnEntry, At, PeriodLabels
  <2> QED BY <2>1, <2>2, <2>3, EntryWriters
<1>2. ASSUME NEW u \in Workers, NEW v \in Workers, u # v PROVE Apart(req[u], req[v])'
  <2>1. CASE u = w
    BY <1>2, <2>1, FlowApart
  <2>2. CASE v = w
    BY <1>2, <2>2, FlowApart DEF Apart
  <2>3. CASE u # w /\ v # w
    BY <1>2, <2>3 DEF FlowInv, Apart, OnEntry, Others
  <2> QED BY <2>1, <2>2, <2>3
<1> QED BY <1>1, <1>2 DEF FlowInv

LEMMA NextFlow ==
    ASSUME EntriesApart
    PROVE  TypeInv /\ FlowInv /\ [Next]_vars => FlowInv'
<1> SUFFICES ASSUME TypeInv, FlowInv, [Next]_vars PROVE FlowInv'
  OBVIOUS
<1>1. ASSUME NEW w \in Workers, Others(w), Effect(w) PROVE FlowInv'
  BY <1>1, StepFlow
<1>2. ASSUME UNCHANGED <<je, req>> PROVE FlowInv'
  BY <1>2 DEF FlowInv, InView, InFlow, Apart, OnEntry
<1> QED BY <1>1, <1>2, NextEffect DEF ReopenPeriod, vars

LEMMA StepFinal ==
    ASSUME TypeInv, FlowInv, [Next]_vars, NEW j \in Journals, je[j].st = "posted"
    PROVE  je'[j] = je[j] /\ lines'[j] = lines[j]
<1>t. je \in [Journals -> JournalEntry]
  BY DEF TypeInv, TypeOK
<1>1. ASSUME NEW w \in Workers, Effect(w) PROVE je'[j] = je[j] /\ lines'[j] = lines[j]
  <2>0. InView(req[w]) /\ InFlow(req[w])
    BY DEF FlowInv
  <2>1. CASE WritesLine(w)
    BY <2>0, <2>1, SavedStatuses DEF WritesLine, At, InView, InFlow
  <2>2. CASE Inserts(w)
    BY <1>t, <2>2 DEF Inserts
  <2>3. CASE Updates(w)
    <3>1. je[req[w].j].st # "posted"
      BY <2>0, <2>3, SavedStatuses DEF Updates, At, InView, InFlow
    <3> QED BY <1>t, <2>3, <3>1 DEF Updates
  <2>4. CASE ~WritesLine(w) /\ ~Inserts(w) /\ ~Updates(w)
    BY <1>1, <2>4 DEF Effect, Begins, Numbers, GoesOn, Captures, Audits, Validates, Pends,
       AddsRow, FindsRow, Decides, SetsStatus, Counts, Closes, GivesUp, tables
  <2> QED BY <2>1, <2>2, <2>3, <2>4
<1> QED BY <1>1, NextEffect DEF ReopenPeriod, vars

\* No step changes the status, the period or the lines of a posted entry, when
\* nobody works on an entry in two places at once: the status check of
\* journal_edit is then about the row that it overwrites.
THEOREM PostedEntriesAreFinal ==
    ASSUME EntriesApart
    PROVE  Spec => PostedIsFinal
<1>1. TypeInv /\ FlowInv /\ [Next]_vars =>
        [\A j \in Journals : je[j].st = "posted" =>
            je'[j] = je[j] /\ lines'[j] = lines[j]]_vars
  BY StepFinal
<1> QED BY <1>1, InitTypes, NextTypes, InitFlow, NextFlow, PTL DEF Spec, PostedIsFinal

-----------------------------------------------------------------------------
(* The audit trail.  The old value is read before the row is written and the   *)
(* difference recorded after it, in statements of their own: what the trail    *)
(* last recorded is the status before the write as long as the write is not    *)
(* recorded, and the row's status otherwise.                                   *)

Recording(r) ==
    /\ r.pc = "update" => r.old = je[r.j].st
    /\ r.pc = "audit" => r.old = audit[r.j]

Auditing(j) == \E w \in Workers : At(w, "audit") /\ req[w].j = j

AuditInv ==
    crashes = 0 =>
        /\ \A w \in Workers : Recording(req[w])
        /\ \A j \in Journals : Auditing(j) \/ audit[j] = je[j].st

LEMMA InitAudit == Init => AuditInv
  BY DEF Init, AuditInv, Recording, Idle, NoEntry

LEMMA StepAudit ==
    ASSUME TypeInv, FlowInv, AuditInv, NEW w \in Workers, Others(w), Effect(w)
    PROVE  AuditInv'
<1> DEFINE r == req[w]
<1>0. /\ InView(r) /\ InFlow(r) /\ Placed(r)
      /\ \A v \in Workers \ {w} : Apart(r, req[v]) /\ req'[v] = req[v]
  BY LocalTypes DEF FlowInv, Others
<1>t. /\ je \in [Journals -> JournalEntry] /\ audit \in [Journals -> Statuses]
      /\ crashes \in Nat
  BY ConstantsAssumption DEF TypeInv, TypeOK
<1>c. SUFFICES ASSUME crashes' = 0
      PROVE  /\ \A v \in Workers : Recording(req[v])'
             /\ \A j \in Journals : Auditing(j)' \/ audit'[j] = je'[j].st
  BY DEF AuditInv
<1>d. crashes = 0 /\ (GivesUp(w) => ~At(w, "audit"))
  BY <1>c, <1>t DEF Effect, Begins, Numbers, Inserts, WritesLine, GoesOn, Captures, Updates,
     Audits, Validates, Pends, AddsRow, FindsRow, Decides, SetsStatus, Counts, Closes, GivesUp
<1>i. /\ \A v \in Workers : Recording(req[v])
      /\ \A j \in Journals : Auditing(j) \/ audit[j] = je[j].st
  BY <1>d DEF AuditInv
\* An entry that exists is audited by the one request that is on it.
<1>o. ASSUME NEW v \in Workers \ {w}, req[v].pc \in {"update", "audit"}
      PROVE  /\ req[v].j \in Journals /\ je[req[v].j].st # "none"
             /\ OnEntry(r) => req[v].j # r.j
  <2>1. OnEntry(req[v])
    BY <1>o DEF OnEntry, PeriodLabels
  <2> QED BY <1>0, <2>1, EntryExists DEF Apart
\* A step that writes neither the row nor the trail, nor is about to.
<1>u. ASSUME UNCHANGED <<je, audit>>, r.pc # "audit", req'[w].pc # "audit", Recording(req[w])'
      PROVE  /\ \A v \in Workers : Recording(req[v])'
             /\ \A j \in Journals : Auditing(j)' \/ audit'[j] = je'[j].st
  <2>1. ASSUME NEW v \in Workers PROVE Recording(req[v])'
    BY <1>0, <1>i, <1>u, <2>1 DEF Recording
  <2>2. ASSUME NEW j \in Journals PROVE Auditing(j)' \/ audit'[j] = je'[j].st
    <3>1. CASE Auditing(j)
      BY <1>0, <1>u, <3>1 DEF Auditing, At
    <3> QED BY <1>i, <1>u, <3>1
  <2> QED BY <2>1, <2>2
<1>1. CASE Inserts(w) \/ Updates(w)
  <2>1. /\ req'[w].pc = "audit" /\ req'[w].j = r.j /\ req'[w].old = r.old
        /\ r.pc \in {"insert", "update"} /\ r.j \in Journals
        /\ je' = [je EXCEPT ![r.j] = r.copy] /\ UNCHANGED audit
        /\ OnEntry(r) \/ je[r.j].st = "none"
        /\ r.old = je[r.j].st
    BY <1>0, <1>1, <1>i DEF Inserts, Updates, Keeps, At, Placed, InFlow, Recording, OnEntry,
       PeriodLabels
  <2>2. ~Auditing(r.j)
    BY <1>o, <2>1 DEF Auditing, At
  <2>3. audit[r.j] = r.old
    BY <1>i, <2>1, <2>2
  <2>4. ASSUME NEW v \in Workers PROVE Recording(req[v])'
    <3>1. CASE v = w
      BY <2>1, <2>3, <3>1 DEF Recording
    <3>2. CASE v # w
      BY <1>t, <1>0, <1>i, <1>o, <2>1, <3>2 DEF Recording
    <3> QED BY <3>1, <3>2
  <2>5. ASSUME NEW j \in Journals PROVE Auditing(j)' \/ audit'[j] = je'[j].st
    <3>1. CASE j = r.j
      BY <2>1, <3>1 DEF Auditing, At
    <3>2. CASE j # r.j /\ Auditing(j)
      BY <1>0, <2>1, <3>2 DEF Auditing, At
    <3>3. CASE j # r.j /\ ~Auditing(j)
      BY <1>t, <1>i, <2>1, <3>3
    <3> QED BY <3>1, <3>2, <3>3
  <2> QED BY <2>4, <2>5
<1>2. CASE Audits(w)
  <2>1. /\ r.pc = "audit" /\ r.j \in Journals /\ OnEntry(r) /\ UNCHANGED je
        /\ je[r.j] = r.copy
        /\ req'[w].pc \notin {"update", "audit"}
    BY <1>0, <1>2 DEF Audits, Stops, Idle, At, Placed, InFlow, OnEntry, PeriodLabels
  <2>2. /\ audit'[r.j] = je[r.j].st
        /\ \A j \in Journals \ {r.j} : audit'[j] = audit[j]
    BY <1>t, <1>2, <1>i, <2>1 DEF Audits, Recording
  <2>3. ASSUME NEW v \in Workers PROVE Recording(req[v])'
    BY <1>0, <1>i, <1>o, <2>1, <2>2 DEF Recording
  <2>4. ASSUME NEW j \in Journals PROVE Auditing(j)' \/ audit'[j] = je'[j].st
    <3>1. CASE j # r.j /\ Auditing(j)
      BY <1>0, <2>1, <3>1 DEF Auditing, At
    <3> QED BY <1>i, <2>1, <2>2, <3>1
  <2> QED BY <2>3, <2>4
<1>3. CASE Captures(w)
  BY <1>u, <1>3 DEF Captures, Keeps, At, Recording, tables
<1>4. CASE UNCHANGED <<je, audit>> /\ r.pc # "audit" /\ req'[w].pc \notin {"update", "audit"}
  BY <1>u, <1>4 DEF Recording
<1>5. CASE GivesUp(w)
  BY <1>d, <1>4, <1>5 DEF GivesUp, Stops, Idle, At
<1>6. CASE Begins(w)
  <2>1. r.pc = "idle" /\ req'[w].pc \notin {"update", "audit"}
    BY <1>6 DEF Begins, MayStart, Busy, TakesNew, TakesEntry, TakesPeriod
  <2> QED BY <1>4, <1>6, <2>1 DEF Begins, tables
<1>7. CASE Numbers(w) \/ WritesLine(w) \/ GoesOn(w) \/ Validates(w) \/ Counts(w)
  BY <1>4, <1>7 DEF Numbers, WritesLine, GoesOn, Validates, Counts, Stops, Idle, At, tables
<1>8. CASE Pends(w) \/ AddsRow(w) \/ FindsRow(w) \/ Decides(w) \/ Closes(w)
  BY <1>4, <1>8 DEF Pends, AddsRow, FindsRow, Decides, SetsStatus, Closes, Stops, Idle, At,
     tables
<1> QED BY <1>1, <1>2, <1>3, <1>5, <1>6, <1>7, <1>8 DEF Effect

LEMMA NextAudit == TypeInv /\ FlowInv /\ AuditInv /\ [Next]_vars => AuditInv'
<1> SUFFICES ASSUME TypeInv, FlowInv, AuditInv, [Next]_vars PROVE AuditInv'
  OBVIOUS
<1>1. ASSUME NEW w \in Workers, Others(w), Effect(w) PROVE AuditInv'
  BY <1>1, StepAudit
<1>2. ASSUME UNCHANGED <<je, audit, req, crashes>> PROVE AuditInv'
  BY <1>2 DEF AuditInv, Recording, Auditing, At
<1> QED BY <1>1, <1>2, NextEffect DEF ReopenPeriod, vars

\* The trail's last status of an entry is the entry's status, up to the row that
\* log_audit_trail is about to insert, when nobody works on an entry in two
\* places at once and no request has died.
THEOREM AuditTrailFollows ==
    ASSUME EntriesApart
    PROVE  Spec => []AuditFollows
<1>1. AuditInv => AuditFollows
  BY DEF AuditInv, AuditFollows, Auditing
<1> QED
  BY <1>1, InitTypes, NextTypes, InitFlow, NextFlow, InitAudit, NextAudit, PTL DEF Spec

-----------------------------------------------------------------------------
(* The refinement: inserting an entry or saving an edit prepares it, saving a  *)
(* rejection discards it, saving a posting posts it with the balance that      *)
(* journal_submit has checked; submitting, approving and every other statement *)
(* is a stutter, closing and reopening are what they are.                      *)

LEMMA InitLedger == Init => Ledger!Init
  BY DEF Init, Book, NoEntry, Posted, Ledger!Init, Ledger!Nothing

\* A step that writes no entry's row, and lines of unposted entries only.
LEMMA BookUnchanged ==
    ASSUME UNCHANGED je, \A j \in Journals : je[j].st = "posted" => lines'[j] = lines[j]
    PROVE  Book' = Book
  BY DEF Book, Posted

\* A step that writes one row and no lines.
LEMMA BookExcept ==
    ASSUME TypeInv, NEW j \in Journals, NEW row,
           je' = [je EXCEPT ![j] = row], UNCHANGED lines, NEW shown,
           Book'[j] = shown
    PROVE  Book' = [Book EXCEPT ![j] = shown]
<1>1. \A i \in Journals \ {j} : je'[i] = je[i]
  BY DEF TypeInv, TypeOK
<1>2. \A i \in Journals \ {j} : Book'[i] = Book[i]
  BY <1>1 DEF Book, Posted
<1>3. /\ Book = [i \in Journals |-> Book[i]]
      /\ Book' = [i \in Journals |-> Book'[i]]
  BY DEF Book
<1> QED BY <1>2, <1>3

LEMMA UpdateLedger ==
    ASSUME TypeInv, BalanceInv, FlowInv, ClosedInv, NEW w \in Workers, Updates(w)
    PROVE  Ledger!Next \/ UNCHANGED <<Book, closed>>
<1> DEFINE j == req[w].j
           copy == req[w].copy
           op == req[w].op
<1>0. InView(req[w]) /\ InFlow(req[w]) /\ InPeriod(req[w]) /\ Placed(req[w])
  BY LocalTypes DEF FlowInv, ClosedInv
<1>1. /\ j \in Journals /\ je[j].st = Loaded(op) /\ copy.st = Saves(op)
      /\ op # "edit" => copy.per = je[j].per
      /\ op \in {"edit", "submit", "post"} \cup Deciders
      /\ copy.per \in Periods /\ ~closed[copy.per]
      /\ je' = [je EXCEPT ![j] = copy] /\ UNCHANGED <<lines, closed>>
  BY <1>0 DEF Updates, At, InView, InFlow, InPeriod, Placed, PeriodLabels
<1>2. je \in [Journals -> JournalEntry] /\ lines[j]["dr"] \in Nat
  BY <1>1 DEF TypeInv, TypeOK, EntryLines, Sides
<1>3. je'[j] = copy
  BY <1>1, <1>2
<1>4. Book[j] = [kind |-> "open", per |-> je[j].per, dr |-> 0, cr |-> 0]
  BY <1>1, SavedStatuses DEF Book, Posted
<1> HIDE DEF j, copy, op
<1>5. CASE op = "edit"
  <2>1. Book'[j] = Ledger!Prepared(copy.per)
    BY <1>1, <1>3, <1>5, SavedStatuses DEF Book, Posted, Ledger!Prepared, LineWriters
  <2>2. Book' = [Book EXCEPT ![j] = Ledger!Prepared(copy.per)]
    BY <1>1, <2>1, BookExcept
  <2>3. Ledger!Prepare(j, copy.per)
    BY <1>1, <1>4, <2>2 DEF Ledger!Prepare
  <2> QED BY <1>1, <2>3 DEF Ledger!Next
<1>6. CASE op \in {"submit", "approve"}
  <2>1. copy.st \in {"pending", "approved"} /\ copy.per = je[j].per
    BY <1>1, <1>6, SavedStatuses DEF Deciders
  <2>2. Book'[j] = Book[j]
    BY <1>1, <1>3, <1>4, <2>1 DEF Book, Posted
  <2>3. Book' = [Book EXCEPT ![j] = Book[j]]
    BY <1>1, <2>2, BookExcept
  <2>4. Book' = Book
    BY <1>1, <2>3 DEF Book
  <2> QED BY <1>1, <2>4
<1>7. CASE op = "reject"
  <2>1. copy.st = "rejected" /\ copy.per = je[j].per
    BY <1>1, <1>7, SavedStatuses DEF Deciders
  <2>2. Book'[j] = Ledger!Discarded(je[j].per)
    BY <1>1, <1>3, <2>1 DEF Book, Posted, Ledger!Discarded
  <2>3. Book' = [Book EXCEPT ![j] = Ledger!Discarded(je[j].per)]
    BY <1>1, <2>2, BookExcept
  <2>4. Ledger!Discard(j)
    BY <1>1, <1>4, <2>3 DEF Ledger!Discard, Ledger!Discarded
  <2> QED BY <1>1, <2>4 DEF Ledger!Next
<1>8. CASE op = "post"
  <2>1. copy.st = "posted" /\ je[j].st = "approved" /\ copy.per = je[j].per
    BY <1>1, <1>8, SavedStatuses
  <2>2. lines[j]["dr"] = lines[j]["cr"]
    BY <1>1, <2>1 DEF BalanceInv, BalancedOnceSubmitted
  <2>3. Book'[j] = Ledger!Posting(je[j].per, lines[j]["dr"])
    BY <1>1, <1>3, <2>1, <2>2 DEF Book, Posted, Ledger!Posting
  <2>4. Book'[j].dr = lines[j]["dr"]
    BY <2>3 DEF Ledger!Posting
  <2>5. Book' = [Book EXCEPT ![j] = Ledger!Posting(je[j].per, lines[j]["dr"])]
    BY <1>1, <2>3, BookExcept
  <2>6. Ledger!Post(j)
    BY <1>1, <1>2, <1>4, <2>1, <2>4, <2>5 DEF Ledger!Post, Ledger!Posting
  <2> QED BY <1>1, <2>6 DEF Ledger!Next
<1> QED BY <1>1, <1>5, <1>6, <1>7, <1>8 DEF Deciders

LEMMA InsertLedger ==
    ASSUME TypeInv, FlowInv, ClosedInv, NEW w \in Workers, Inserts(w)
    PROVE  Ledger!Next
<1> DEFINE j == req[w].j
           copy == req[w].copy
<1>1. /\ j \in Journals /\ je[j].st = "none" /\ copy.st = "draft"
      /\ copy.per \in Periods /\ ~closed[copy.per]
      /\ je' = [je EXCEPT ![j] = copy] /\ UNCHANGED <<lines, closed>>
  BY LocalTypes DEF FlowInv, ClosedInv, Inserts, At, InFlow, InPeriod, Placed, PeriodLabels
<1>2. je'[j] = copy
  BY <1>1 DEF TypeInv, TypeOK
<1> HIDE DEF j, copy
<1>3. Book[j].kind = "none" /\ Book'[j] = Ledger!Prepared(copy.per)
  BY <1>1, <1>2 DEF Book, Posted, Ledger!Prepared
<1>4. Ledger!Prepare(j, copy.per)
  BY <1>1, <1>3, BookExcept DEF Ledger!Prepare
<1> QED BY <1>1, <1>4 DEF Ledger!Next

LEMMA CloseLedger ==
    ASSUME ClosedInv, TypeInv, NEW w \in Workers, Closes(w)
    PROVE  Ledger!Next
<1> DEFINE p == req[w].copy.per
<1>1. /\ p \in Periods /\ UnpostedIn(p) = {}
      /\ closed' = [closed EXCEPT ![p] = TRUE] /\ UNCHANGED <<je, lines>>
  BY LocalTypes DEF ClosedInv, InPeriod, Closes, At, Placed, PeriodLabels
<1> HIDE DEF p
<1>2. ASSUME NEW j \in Journals PROVE Book[j] # Ledger!Prepared(p)
  <2>1. Book[j] = Ledger!Prepared(p) => je[j].per = p /\ je[j].st \in {"draft", "pending", "approved"}
    BY DEF Book, Ledger!Prepared, TypeInv, TypeOK, JournalEntry, Statuses
  <2> QED BY <1>1, <2>1 DEF UnpostedIn, Settled
<1>3. Book' = Book
  BY <1>1, BookUnchanged
<1>4. Ledger!Close(p)
  BY <1>1, <1>2, <1>3 DEF Ledger!Close
<1> QED BY <1>1, <1>4 DEF Ledger!Next

LEMMA NextLedger ==
    ASSUME TypeInv, BalanceInv, FlowInv, ClosedInv, [Next]_vars
    PROVE  [Ledger!Next]_<<Book, closed>>
<1>1. ASSUME NEW w \in Workers, Effect(w)
      PROVE  Ledger!Next \/ UNCHANGED <<Book, closed>>
  <2>1. CASE Inserts(w)
    BY <2>1, InsertLedger
  <2>2. CASE Updates(w)
    BY <2>2, UpdateLedger
  <2>3. CASE Closes(w)
    BY <2>3, CloseLedger
  <2>4. CASE ~Inserts(w) /\ ~Updates(w) /\ ~Closes(w)
    <3>1. UNCHANGED <<je, closed>>
      BY <1>1, <2>4 DEF Effect, Begins, Numbers, WritesLine, GoesOn, Captures, Audits,
         Validates, Pends, AddsRow, FindsRow, Decides, SetsStatus, Counts, GivesUp, tables
    <3>2. \A j \in Journals : je[j].st = "posted" => lines'[j] = lines[j]
      BY StepFinal, <1>1, <2>4 DEF Effect, Begins, Numbers, GoesOn, Captures, Audits,
         Validates, Pends, AddsRow, FindsRow, Decides, SetsStatus, Counts, GivesUp, tables
    <3> QED BY <3>1, <3>2, BookUnchanged
  <2> QED BY <2>1, <2>2, <2>3, <2>4
<1>2. ASSUME NEW p \in Periods, ReopenPeriod(p) PROVE Ledger!Next
  <2>1. Book' = Book
    BY <1>2, BookUnchanged DEF ReopenPeriod
  <2>2. Ledger!Reopen(p)
    BY <1>2, <2>1 DEF ReopenPeriod, Ledger!Reopen
  <2> QED BY <2>2 DEF Ledger!Next
<1>3. CASE UNCHANGED vars
  BY <1>3, BookUnchanged DEF vars
<1> QED BY <1>1, <1>2, <1>3, NextEffect

\* The workflow of seven views, with its approval rows, audit trail and crashes,
\* shows its readers the ledger of PostedLedger, when users work on an entry in one
\* place at a time and close a period while nothing else runs: what is posted
\* balances, was posted in an open period and stays, and a closed period has
\* nothing left to post.
THEOREM WorkflowImplementsLedger ==
    ASSUME EntriesApart, WritersApart, ClosingApart
    PROVE  Spec => ImplementsLedger
<1>1. Init => Ledger!Init
  BY InitLedger
<1>2. TypeInv /\ BalanceInv /\ FlowInv /\ ClosedInv /\ [Next]_vars
        => [Ledger!Next]_<<Book, closed>>
  BY NextLedger
<1> QED
  BY <1>1, <1>2, InitTypes, NextTypes, InitBalance, NextBalance, InitFlow, NextFlow,
     InitClosed, NextClosed, PTL DEF Spec, ImplementsLedger, Ledger!Spec

-----------------------------------------------------------------------------
(* The approval rows.  A decision writes its row and then the entry, and may   *)
(* die in between; the entry then stays pending, and the next decision adds a  *)
(* row behind the one that was left.                                           *)

\* Row k is the newest one of entry j.
Newest(j, k) == approvals[j][k] # "none" /\ \A i \in Rows : i > k => approvals[j][i] = "none"

NewestSays(j, status) == \E k \in Rows : Newest(j, k) /\ approvals[j][k] = status

NoRows(j) == \A k \in Rows : approvals[j][k] = "none"

\* The rows are numbered without gaps.
Gapless(j) == \A i, k \in Rows : i < k /\ approvals[j][i] = "none" => approvals[j][k] = "none"

RowsOfEntry(j) ==
    /\ Gapless(j)
    /\ \A k \in Rows : approvals[j][k] = "pending" => Newest(j, k)
    /\ je[j].st \in {"none", "draft"} => NoRows(j)
    /\ je[j].st \in {"approved", "posted"} => NewestSays(j, "approved")
    /\ je[j].st = "rejected" => NewestSays(j, "rejected")

Deciding(r) ==
    /\ r.pc = "find_row" => r.apr = 0
    /\ r.pc = "save_row" =>
          \/ r.apr = 0 /\ \A k \in Rows : approvals[r.j][k] # "pending"
          \/ r.apr \in Rows /\ approvals[r.j][r.apr] = "pending"
    /\ r.pc \in {"pre_save", "update"} /\ r.op \in Deciders => NewestSays(r.j, Decision(r.op))
    /\ OnEntry(r) /\ r.op = "submit" => NoRows(r.j)

RowsInv ==
    /\ \A j \in Journals : RowsOfEntry(j)
    /\ \A w \in Workers : Deciding(req[w])

LEMMA InitRows == Init => RowsInv
  BY DEF Init, RowsInv, RowsOfEntry, Gapless, NoRows, Newest, Deciding, Idle, NoEntry, OnEntry

\* A row added behind rows without gaps is the newest one.
LEMMA AddedRow ==
    ASSUME TypeInv, NEW j \in Journals, Gapless(j), NEW status \in ApprovalStatus \ {"none"},
           AddApproval(j, status)
    PROVE  /\ Gapless(j)' /\ NewestSays(j, status)'
           /\ \A i \in Journals \ {j} : approvals'[i] = approvals[i]
           /\ \A k \in Rows : \/ approvals'[j][k] = approvals[j][k] /\ ~Newest(j, k)'
                              \/ approvals'[j][k] = status /\ Newest(j, k)'
                              \/ approvals'[j][k] = "none"
<1>1. PICK k \in Rows :
        /\ approvals[j][k] = "none"
        /\ \A i \in Rows : i < k => approvals[j][i] # "none"
        /\ approvals' = [approvals EXCEPT ![j][k] = status]
  BY DEF AddApproval
<1>2. /\ \A i \in Journals \ {j} : approvals'[i] = approvals[i]
      /\ approvals'[j][k] = status
      /\ \A i \in Rows \ {k} : approvals'[j][i] = approvals[j][i]
  BY <1>1 DEF TypeInv, TypeOK
<1>3. Rows \subseteq Nat
  BY ConstantsAssumption DEF Rows
<1>4. \A i \in Rows : i > k => approvals'[j][i] = "none"
  BY <1>1, <1>2, <1>3 DEF Gapless
<1>5. Gapless(j)'
  BY <1>1, <1>2, <1>3, <1>4 DEF Gapless
<1>6. Newest(j, k)'
  BY <1>2, <1>4 DEF Newest
<1>7. \A i \in Rows \ {k} : i > k \/ i < k
  BY <1>3
<1> QED BY <1>2, <1>4, <1>5, <1>6, <1>7 DEF NewestSays, Newest

\* The pending row is the newest one, and so is the decision that replaces it.
LEMMA ReplacedRow ==
    ASSUME TypeInv, NEW j \in Journals, NEW k \in Rows, Gapless(j), Newest(j, k),
           NEW status \in ApprovalStatus \ {"none"},
           approvals' = [approvals EXCEPT ![j][k] = status]
    PROVE  /\ Gapless(j)' /\ NewestSays(j, status)'
           /\ \A i \in Journals \ {j} : approvals'[i] = approvals[i]
           /\ approvals'[j][k] = status
           /\ \A i \in Rows \ {k} : approvals'[j][i] = approvals[j][i]
<1>1. /\ \A i \in Journals \ {j} : approvals'[i] = approvals[i]
      /\ approvals'[j][k] = status
      /\ \A i \in Rows \ {k} : approvals'[j][i] = approvals[j][i]
  BY DEF TypeInv, TypeOK
<1>2. Rows \subseteq Nat
  BY ConstantsAssumption DEF Rows
<1>3. Gapless(j)'
  BY <1>1, <1>2 DEF Gapless, Newest
<1>4. Newest(j, k)'
  BY <1>1, <1>2 DEF Newest
<1> QED BY <1>1, <1>3, <1>4 DEF NewestSays

\* What a request knows of its rows concerns no other request.
LEMMA RowsOfOthers ==
    ASSUME TypeInv, FlowInv, RowsInv, NEW w \in Workers, Others(w), OnEntry(req[w]),
           \A i \in Journals \ {req[w].j} : approvals'[i] = approvals[i],
           NEW v \in Workers \ {w}
    PROVE  Deciding(req[v])'
<1>1. /\ Deciding(req[v]) /\ req'[v] = req[v]
      /\ OnEntry(req[v]) => req[v].j \in Journals /\ req[v].j # req[w].j
  BY EntryOfRequest DEF RowsInv, FlowInv, Others, Apart
<1> QED
  BY <1>1 DEF Deciding, NewestSays, Newest, NoRows, OnEntry, PeriodLabels

\* A step that writes no row of any entry keeps what is known of the rows.
LEMMA RowsUnchanged ==
    ASSUME UNCHANGED approvals
    PROVE  /\ \A j : Gapless(j)' <=> Gapless(j)
           /\ \A j : NoRows(j)' <=> NoRows(j)
           /\ \A j, k : Newest(j, k)' <=> Newest(j, k)
           /\ \A j, status : NewestSays(j, status)' <=> NewestSays(j, status)
  BY DEF Gapless, NoRows, Newest, NewestSays

\* Writing the row of its entry, a request does not contradict the newest row.
LEMMA RowsUpdate ==
    ASSUME TypeInv, FlowInv, RowsInv, NEW w \in Workers, Others(w), Inserts(w) \/ Updates(w)
    PROVE  RowsInv'
<1> DEFINE r == req[w]
<1>0. InView(r) /\ InFlow(r) /\ Placed(r) /\ Deciding(r)
  BY LocalTypes DEF FlowInv, RowsInv
<1>1. /\ r.j \in Journals /\ req'[w].pc = "audit" /\ Keeps(w)
      /\ je' = [je EXCEPT ![r.j] = r.copy] /\ UNCHANGED approvals
  BY <1>0 DEF Inserts, Updates, At, Placed, PeriodLabels
<1>2. \A i \in Journals : je'[i] = IF i = r.j THEN r.copy ELSE je[i]
  BY <1>1 DEF TypeInv, TypeOK
<1>3. RowsOfEntry(r.j)
  BY <1>1 DEF RowsInv
<1>4. /\ r.copy.st \in {"none", "draft"} => NoRows(r.j)
      /\ r.copy.st \in {"approved", "posted"} => NewestSays(r.j, "approved")
      /\ r.copy.st = "rejected" => NewestSays(r.j, "rejected")
  <2>1. CASE Inserts(w)
    BY <1>0, <1>3, <2>1 DEF Inserts, At, InFlow, RowsOfEntry
  <2>2. CASE Updates(w)
    BY <1>0, <1>3, <2>2, SavedStatuses
       DEF Updates, At, InView, InFlow, RowsOfEntry, Deciding, Deciders, LineWriters
  <2> QED BY <2>1, <2>2
<1>5. ASSUME NEW i \in Journals PROVE RowsOfEntry(i)'
  <2>1. CASE i = r.j
    BY <1>1, <1>2, <1>3, <1>4, <2>1, RowsUnchanged DEF RowsOfEntry
  <2>2. CASE i # r.j
    BY <1>1, <1>2, <2>2, RowsUnchanged DEF RowsInv, RowsOfEntry
  <2> QED BY <2>1, <2>2
<1>6. OnEntry(r) \/ r.op \in Makers
  BY <1>0 DEF Inserts, Updates, At, InView, OnEntry, PeriodLabels
<1>7. Deciding(req[w])'
  BY <1>0, <1>1, <1>6, RowsUnchanged DEF Keeps, Deciding, OnEntry, Makers
<1>8. ASSUME NEW v \in Workers \ {w} PROVE Deciding(req[v])'
  BY <1>1, RowsUnchanged DEF RowsInv, Deciding, Others, OnEntry
<1> QED BY <1>5, <1>7, <1>8 DEF RowsInv

LEMMA RowsDecision ==
    ASSUME TypeInv, FlowInv, RowsInv, NEW w \in Workers, Others(w), AddsRow(w) \/ Decides(w)
    PROVE  RowsInv'
<1> DEFINE r == req[w]
<1>0. InView(r) /\ InFlow(r) /\ Placed(r) /\ Deciding(r)
  BY LocalTypes DEF FlowInv, RowsInv
<1>j. r.j \in Journals
  BY <1>0 DEF AddsRow, Decides, At, Placed, PeriodLabels
<1>k. PICK j \in Journals : j = r.j
  BY <1>j
<1>1. OnEntry(r) /\ UNCHANGED je /\ je[j].st = "pending"
  BY <1>0, <1>k, SavedStatuses DEF AddsRow, Decides, SetsStatus, At, OnEntry, PeriodLabels,
     InView, InFlow
<1>2. RowsOfEntry(j)
  BY <1>1 DEF RowsInv
<1>3. /\ RowsOfEntry(j)' /\ Deciding(req[w])'
      /\ \A i \in Journals \ {j} : approvals'[i] = approvals[i]
  <2>1. CASE AddsRow(w)
    <3>1. NoRows(j)
      BY <1>0, <1>1, <1>k, <2>1 DEF AddsRow, At, InView, Deciding
    <3>2. /\ Gapless(j)'
          /\ \A i \in Journals \ {j} : approvals'[i] = approvals[i]
          /\ \A k \in Rows : approvals'[j][k] = "none" \/ Newest(j, k)'
      BY <1>1, <1>k, <1>2, <2>1, <3>1, AddedRow DEF AddsRow, RowsOfEntry, ApprovalStatus, NoRows
    <3>3. RowsOfEntry(j)'
      BY <1>1, <1>k, <3>2 DEF RowsOfEntry
    <3>4. Deciding(req[w])'
      BY <2>1 DEF AddsRow, Stops, Idle, Deciding, OnEntry
    <3> QED BY <3>2, <3>3, <3>4
  <2>2. CASE Decides(w)
    <3>0. PICK decision \in {"approved", "rejected"} : decision = Decision(r.op)
      BY DEF Decision
    <3>1. r.pc = "save_row" /\ r.op \in Deciders
      BY <1>0, <2>2 DEF Decides, At, InView
    <3>2. decision \in ApprovalStatus \ {"none"} /\ decision # "pending"
      BY DEF ApprovalStatus
    <3>3. /\ Gapless(j)' /\ NewestSays(j, decision)'
          /\ \A i \in Journals \ {j} : approvals'[i] = approvals[i]
          /\ \A k \in Rows : approvals'[j][k] # "pending"
      <4>1. CASE /\ r.apr \in Rows
                 /\ approvals' = [approvals EXCEPT ![j][r.apr] = decision]
        <5>0. PICK k \in Rows : k = r.apr
          BY <4>1
        <5>1. approvals[j][k] = "pending"
          <6>1. r.apr # 0
            BY <4>1, ConstantsAssumption DEF Rows
          <6> QED BY <1>0, <1>k, <3>1, <5>0, <6>1 DEF Deciding
        <5>2. Newest(j, k)
          BY <1>2, <4>1, <5>1 DEF RowsOfEntry
        <5>3. \A i \in Rows \ {k} : approvals[j][i] # "pending"
          <6>1. \A i \in Rows \ {k} : i > k \/ i < k
            BY ConstantsAssumption DEF Rows
          <6> QED BY <1>2, <5>1, <5>2, <6>1 DEF RowsOfEntry, Newest
        <5>4. Gapless(j) /\ approvals' = [approvals EXCEPT ![j][k] = decision]
          BY <1>k, <1>2, <4>1, <5>0 DEF RowsOfEntry
        <5>5. /\ Gapless(j)' /\ NewestSays(j, decision)'
              /\ \A i \in Journals \ {j} : approvals'[i] = approvals[i]
              /\ approvals'[j][k] = decision
              /\ \A i \in Rows \ {k} : approvals'[j][i] = approvals[j][i]
          BY <3>2, <5>2, <5>4, ReplacedRow
        <5> QED BY <3>2, <5>3, <5>5
      <4>2. CASE r.apr = 0 /\ AddApproval(j, decision)
        <5>1. \A k \in Rows : approvals[j][k] # "pending"
          BY <1>0, <1>k, <3>1, <4>2, ConstantsAssumption DEF Deciding, Rows
        <5> QED BY <1>1, <1>k, <1>2, <3>1, <3>2, <4>2, <5>1, AddedRow DEF RowsOfEntry
      <4> QED BY <1>k, <2>2, <3>0, <4>1, <4>2 DEF Decides
    <3>4. RowsOfEntry(j)'
      BY <1>1, <1>k, <3>3 DEF RowsOfEntry
    <3>5. Deciding(req[w])'
      BY <1>k, <2>2, <3>0, <3>1, <3>3 DEF Decides, SetsStatus, Deciding, Deciders
    <3> QED BY <3>3, <3>4, <3>5
  <2> QED BY <2>1, <2>2
<1>4. ASSUME NEW i \in Journals \ {j} PROVE RowsOfEntry(i)'
  BY <1>1, <1>k, <1>3 DEF RowsInv, RowsOfEntry, Gapless, NoRows, Newest, NewestSays
<1>5. ASSUME NEW v \in Workers \ {w} PROVE Deciding(req[v])'
  BY <1>1, <1>k, <1>3, RowsOfOthers
<1> QED BY <1>3, <1>4, <1>5 DEF RowsInv

LEMMA StepRows ==
    ASSUME TypeInv, FlowInv, RowsInv, NEW w \in Workers, Others(w), Effect(w)
    PROVE  RowsInv'
<1> DEFINE r == req[w]
<1>0. InView(r) /\ InFlow(r) /\ Deciding(r)
  BY DEF FlowInv, RowsInv
<1>u. ASSUME UNCHANGED <<je, approvals>>, Deciding(req[w])' PROVE RowsInv'
  <2>1. ASSUME NEW j \in Journals PROVE RowsOfEntry(j)'
    BY <1>u, RowsUnchanged DEF RowsInv, RowsOfEntry
  <2>2. ASSUME NEW v \in Workers PROVE Deciding(req[v])'
    BY <1>u, RowsUnchanged DEF RowsInv, Deciding, Others, OnEntry
  <2> QED BY <2>1, <2>2 DEF RowsInv
<1>1. CASE Inserts(w) \/ Updates(w)
  BY <1>1, RowsUpdate
<1>2. CASE AddsRow(w) \/ Decides(w)
  BY <1>2, RowsDecision
<1>3. CASE Begins(w)
  <2>1. Deciding(req[w])'
    <3>1. CASE TakesEntry(w)
      <4>1. PICK j \in Journals : j = req'[w].j
        BY <3>1 DEF TakesEntry
      <4>2. req'[w].op = "submit" => NoRows(j)
        BY <3>1, <4>1 DEF TakesEntry, Deciders, RowsInv, RowsOfEntry
      <4>3. req'[w].op = "submit" => NoRows(j)'
        BY <1>3, <4>2, RowsUnchanged DEF Begins, tables
      <4> QED BY <3>1, <4>1, <4>3 DEF TakesEntry, Deciding, Deciders
    <3>2. CASE TakesNew(w) \/ TakesPeriod(w)
      BY <3>2 DEF TakesNew, TakesPeriod, Deciding, OnEntry, PeriodLabels
    <3> QED BY <1>3, <3>1, <3>2 DEF Begins
  <2> QED BY <1>3, <1>u, <2>1 DEF Begins, tables
<1>4. CASE Stops(w) /\ UNCHANGED <<je, approvals>>
  BY <1>4, <1>u DEF Stops, Idle, Deciding, OnEntry
<1>5. CASE GivesUp(w) \/ Closes(w)
  BY <1>4, <1>5 DEF GivesUp, Closes
<1>6. CASE Numbers(w) \/ Counts(w)
  <2>1. Deciding(req[w])'
    BY <1>6 DEF Numbers, Counts, Deciding, OnEntry, PeriodLabels
  <2> QED BY <1>6, <1>u, <2>1 DEF Numbers, Counts, tables
\* The request goes on with its entry and is not at a statement that decides.
<1>7. CASE /\ UNCHANGED <<je, approvals>>
           /\ req'[w].op = r.op /\ req'[w].j = r.j
           /\ OnEntry(r) \/ ~OnEntry(req'[w])
           /\ req'[w].pc \notin {"find_row", "save_row"}
           /\ req'[w].pc \in {"pre_save", "update"} => r.pc = "pre_save" \/ r.op \notin Deciders
  <2>1. Deciding(req[w])'
    BY <1>0, <1>7, RowsUnchanged DEF Deciding, OnEntry
  <2> QED BY <1>7, <1>u, <2>1
<1>8. CASE Captures(w) \/ GoesOn(w)
  BY <1>7, <1>8 DEF Captures, GoesOn, Keeps, At, OnEntry, PeriodLabels, tables
<1>9. CASE Validates(w) \/ Pends(w)
  BY <1>0, <1>7, <1>9 DEF Validates, Pends, SetsStatus, At, InView, OnEntry, PeriodLabels,
     Deciders, tables
<1>10. CASE WritesLine(w) \/ Audits(w)
  BY <1>4, <1>7, <1>10 DEF WritesLine, Audits, Keeps, At, OnEntry, PeriodLabels
<1>11. CASE FindsRow(w)
  <2>1. Deciding(req[w])'
    BY <1>0, <1>11 DEF FindsRow, Keeps, At, Deciding, InView, OnEntry, Deciders, tables
  <2> QED BY <1>11, <1>u, <2>1 DEF FindsRow, tables
<1> QED BY <1>1, <1>2, <1>3, <1>5, <1>6, <1>8, <1>9, <1>10, <1>11 DEF Effect

LEMMA NextRows == TypeInv /\ FlowInv /\ RowsInv /\ [Next]_vars => RowsInv'
<1> SUFFICES ASSUME TypeInv, FlowInv, RowsInv, [Next]_vars PROVE RowsInv'
  OBVIOUS
<1>1. ASSUME NEW w \in Workers, Others(w), Effect(w) PROVE RowsInv'
  BY <1>1, StepRows
<1>2. ASSUME UNCHANGED <<je, approvals, req>> PROVE RowsInv'
  BY <1>2, RowsUnchanged DEF RowsInv, RowsOfEntry, Deciding, OnEntry
<1> QED BY <1>1, <1>2, NextEffect DEF ReopenPeriod, vars

\* An entry has one newest row.
LEMMA OneNewest ==
    ASSUME NEW j, NEW i \in Rows, NEW k \in Rows, Newest(j, i), Newest(j, k)
    PROVE  i = k
<1>1. i > k \/ k > i \/ i = k
  BY ConstantsAssumption DEF Rows
<1> QED BY <1>1 DEF Newest

\* The newest approval row of a decided entry holds the decision that stands, also
\* when an earlier decision died between its row and the entry's: when nobody works
\* on an entry in two places at once, and however many requests die.
THEOREM NewestRowDecides ==
    ASSUME EntriesApart
    PROVE  Spec => []LastDecisionStands
<1>1. RowsInv => LastDecisionStands
  <2> SUFFICES ASSUME RowsInv, NEW j \in Journals, NEW k \in Rows, Newest(j, k),
                      je[j].st \in {"approved", "rejected", "posted"}
               PROVE  approvals[j][k] = IF je[j].st = "rejected" THEN "rejected" ELSE "approved"
    BY DEF LastDecisionStands, Newest
  <2>1. NewestSays(j, IF je[j].st = "rejected" THEN "rejected" ELSE "approved")
    BY DEF RowsInv, RowsOfEntry
  <2> QED BY <2>1, OneNewest DEF NewestSays
<1> QED
  BY <1>1, InitTypes, NextTypes, InitFlow, NextFlow, InitRows, NextRows, PTL DEF Spec
=============================================================================
