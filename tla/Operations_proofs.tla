--------------------------- MODULE Operations_proofs ---------------------------
(***************************************************************************)
(* Theorems about the components that MCOperations puts side by side.  A   *)
(* behaviour of all of them is, for each, a behaviour of that component;   *)
(* what is proved of the component alone therefore holds here.  With       *)
(* Figures_proofs, of which the last theorem needs the invariants, every   *)
(* property of the run operations is proved.                               *)
(***************************************************************************)
EXTENDS Figures_proofs, FiniteSetTheorems, TLAPS

-----------------------------------------------------------------------------
(* The composition: the steps of one component leave the variables of the others   *)
(* alone.                                                                          *)

LEMMA RecordsBehave == Operations => Records!Spec
<1>1. Start => Records!Init
  BY DEF Start
<1>2. [Step]_allVars => [Records!Next]_(Records!vars)
  <2>1. StepRecords => Records!Next
    BY DEF StepRecords
  <2>2. Step => StepRecords \/ UNCHANGED controlVars
    BY DEF Step, StepBank, StepEntities, StepStock, StepAssets, StepTaxes, StepRecurring,
       StepPlans, StepPayroll, StepProjects, StepPeople
  <2>3. UNCHANGED allVars => UNCHANGED controlVars
    BY DEF allVars
  <2>4. UNCHANGED controlVars => UNCHANGED Records!vars
    BY DEF controlVars, Records!vars
  <2> QED BY <2>1, <2>2, <2>3, <2>4
<1> QED BY <1>1, <1>2, PTL DEF Operations, Records!Spec

LEMMA PeopleBehave == Operations => People!Spec
<1>1. Start => People!Init
  BY DEF Start
<1>2. [Step]_allVars => [People!Next]_(People!vars)
  <2>1. StepPeople => People!Next
    BY DEF StepPeople
  <2>2. Step => StepPeople \/ UNCHANGED accessVars
    BY DEF Step, StepBank, StepEntities, StepStock, StepAssets, StepTaxes, StepRecurring,
       StepPlans, StepPayroll, StepProjects, StepRecords
  <2>3. UNCHANGED allVars => UNCHANGED accessVars
    BY DEF allVars
  <2>4. UNCHANGED accessVars => UNCHANGED People!vars
    BY DEF accessVars, People!vars, People!tables
  <2> QED BY <2>1, <2>2, <2>3, <2>4
<1> QED BY <1>1, <1>2, PTL DEF Operations, People!Spec

-----------------------------------------------------------------------------
(* Bank reconciliation and recurring invoices: their theorems, of the module for   *)
(* itself, hold of the instance.  An instance of the proofs has a copy of every    *)
(* definition, which says the same.                                                *)

BankP == INSTANCE BankReconciliation_proofs WITH
    Txns <- BankTxns, Lines <- LedgerLines,
    rules <- bank_rules, status <- reconciliation, req <- bank_req, aborts <- bank_aborts

RecurringP == INSTANCE RecurringInvoices_proofs WITH req <- rec_req, aborts <- rec_aborts

LEMMA BankBehaves == Operations => BankP!Spec
<1>1. Start => BankP!Init
  <2>1. Start => Bank!Init
    BY DEF Start
  <2>2. Bank!Init => BankP!Init
    BY DEF
     Bank!Items, BankP!Items, Bank!NoItem, BankP!NoItem, Bank!Idle, BankP!Idle,
     Bank!Init, BankP!Init
  <2> QED BY <2>1, <2>2
<1>2. [Step]_allVars => [BankP!Next]_(BankP!vars)
  <2>1. StepBank => Bank!Next
    BY DEF StepBank
  <2>2. Bank!Next => BankP!Next
    BY Zenon DEF
     Bank!Items, BankP!Items, Bank!Imported, BankP!Imported, Bank!NoItem,
     BankP!NoItem, Bank!Idle, BankP!Idle, Bank!Live, BankP!Live, Bank!ItemsOn,
     BankP!ItemsOn, Bank!UnmatchedTxns, BankP!UnmatchedTxns, Bank!UnmatchedLines,
     BankP!UnmatchedLines, Bank!Candidates, BankP!Candidates, Bank!Busy, BankP!Busy,
     Bank!AutoIsRunning, BankP!AutoIsRunning, Bank!BeingMade, BankP!BeingMade,
     Bank!MayStart, BankP!MayStart, Bank!Finish, BankP!Finish, Bank!ImportRow,
     BankP!ImportRow, Bank!StartReconciliation, BankP!StartReconciliation,
     Bank!CompleteReconciliation, BankP!CompleteReconciliation, Bank!Match,
     BankP!Match, Bank!Unmatch, BankP!Unmatch, Bank!SaveUnmatched,
     BankP!SaveUnmatched, Bank!DeleteItem, BankP!DeleteItem, Bank!AutoMatch,
     BankP!AutoMatch, Bank!QueryTxns, BankP!QueryTxns, Bank!NextTxn, BankP!NextTxn,
     Bank!NextRule, BankP!NextRule, Bank!InsertItem, BankP!InsertItem,
     Bank!SaveMatched, BankP!SaveMatched, Bank!Crash, BankP!Crash, Bank!Next,
     BankP!Next
  <2>3. Step => StepBank \/ UNCHANGED bankVars
    BY DEF Step, StepEntities, StepStock, StepAssets, StepTaxes, StepRecurring,
       StepPlans, StepPayroll, StepProjects, StepRecords, StepPeople
  <2>4. UNCHANGED allVars => UNCHANGED bankVars
    BY DEF allVars
  <2>5. UNCHANGED bankVars => UNCHANGED BankP!vars
    BY DEF bankVars, BankP!vars
  <2> QED BY <2>1, <2>2, <2>3, <2>4, <2>5
<1> QED BY <1>1, <1>2, PTL DEF Operations, BankP!Spec

\* run_auto_match, reconciliation_match and reconciliation_unmatch: whatever the rules,
\* however stale the pages and wherever a request dies, a transaction that is marked as
\* matched has an item, and no line of the ledger is taken twice by an automatic match.
THEOREM MatchesStayAgreed ==
    ASSUME MaxItems \in Nat, RuleBooks \subseteq Seq({"exact_amount", "reference_match"})
    PROVE  Operations => []MatchesAgree
<1>1. BankP!Bounds
  BY DEF BankP!Bounds
<1>2. BankP!MatchedHasItem => Bank!MatchedHasItem
  BY DEF Bank!Items, BankP!Items, Bank!Imported, BankP!Imported, Bank!Live, BankP!Live,
     Bank!ItemsOf, BankP!ItemsOf, Bank!MatchedHasItem, BankP!MatchedHasItem
<1>3. BankP!AutoMatchesOnce => Bank!AutoMatchesOnce
  BY DEF Bank!Items, BankP!Items, Bank!Live, BankP!Live, Bank!ItemsOn, BankP!ItemsOn,
     Bank!AutoMatchesOnce, BankP!AutoMatchesOnce
<1>4. Bank!MatchedHasItem /\ Bank!AutoMatchesOnce => MatchesAgree
  BY DEF MatchesAgree
<1> QED BY <1>1, <1>2, <1>3, <1>4, BankBehaves, BankP!MatchedHaveItems, BankP!AutosMatchOnce, PTL

LEMMA RecurringBehaves == Operations => RecurringP!Spec
<1>1. Start => RecurringP!Init
  <2>1. Start => Recurring!Init
    BY DEF Start
  <2>2. Recurring!Init => RecurringP!Init
    BY DEF
     Recurring!Hand, RecurringP!Hand, Recurring!First, RecurringP!First,
     Recurring!Idle, RecurringP!Idle, Recurring!Init, RecurringP!Init
  <2> QED BY <2>1, <2>2
<1>2. [Step]_allVars => [RecurringP!Next]_(RecurringP!vars)
  <2>1. StepRecurring => Recurring!Next
    BY DEF StepRecurring
  <2>2. Recurring!Next => RecurringP!Next
    BY Zenon DEF
     Recurring!Dates, RecurringP!Dates, Recurring!Hand, RecurringP!Hand,
     Recurring!NewInvoice, RecurringP!NewInvoice, Recurring!First, RecurringP!First,
     Recurring!Idle, RecurringP!Idle, Recurring!At, RecurringP!At, Recurring!Busy,
     RecurringP!Busy, Recurring!Goto, RecurringP!Goto, Recurring!Finish,
     RecurringP!Finish, Recurring!rows, RecurringP!rows, Recurring!MayStart,
     RecurringP!MayStart, Recurring!NextDay, RecurringP!NextDay, Recurring!ClosePeriod,
     RecurringP!ClosePeriod, Recurring!NewStatuses, RecurringP!NewStatuses,
     Recurring!ChangeTemplate, RecurringP!ChangeTemplate, Recurring!SaveChange,
     RecurringP!SaveChange, Recurring!EnterInvoice, RecurringP!EnterInvoice,
     Recurring!Generate, RecurringP!Generate, Recurring!FindDue, RecurringP!FindDue,
     Recurring!Exhausted, RecurringP!Exhausted, Recurring!NextTemplate,
     RecurringP!NextTemplate, Recurring!EndLoop, RecurringP!EndLoop,
     Recurring!GenerateNumber, RecurringP!GenerateNumber, Recurring!InsertInvoice,
     RecurringP!InsertInvoice, Recurring!InsertFails, RecurringP!InsertFails,
     Recurring!CopyLines, RecurringP!CopyLines, Recurring!UpdateTotals,
     RecurringP!UpdateTotals, Recurring!SaveInvoice, RecurringP!SaveInvoice,
     Recurring!SaveTemplate, RecurringP!SaveTemplate, Recurring!Crash,
     RecurringP!Crash, Recurring!Continue, RecurringP!Continue, Recurring!Next,
     RecurringP!Next
  <2>3. Step => StepRecurring \/ UNCHANGED recurringVars
    BY DEF Step, StepBank, StepEntities, StepStock, StepAssets, StepTaxes,
       StepPlans, StepPayroll, StepProjects, StepRecords, StepPeople
  <2>4. UNCHANGED allVars => UNCHANGED recurringVars
    BY DEF allVars
  <2>5. UNCHANGED recurringVars => UNCHANGED RecurringP!vars
    BY DEF recurringVars, RecurringP!vars
  <2> QED BY <2>1, <2>2, <2>3, <2>4, <2>5
<1> QED BY <1>1, <1>2, PTL DEF Operations, RecurringP!Spec

LEMMA SameBillCount == \A S : Recurring!Cardinality(S) = RecurringP!Cardinality(S)
  BY DEF Recurring!Cardinality, RecurringP!Cardinality

\* generate_recurring_invoices: however often and wherever a generation dies, every date of
\* a template is billed, once unless a request died, within its limit and its end date.
THEOREM TemplatesBillOnce ==
    ASSUME Limit \in [Templates -> Nat], EndDate \in [Templates -> Nat],
           "hand" \notin Templates, MaxDate \in Nat \ {0}, MaxInvoices \in Nat
    PROVE  Operations => []BilledOnce
<1>1. RecurringP!Bounds
  BY DEF RecurringP!Bounds, RecurringP!Hand
<1>2. RecurringP!BilledOnce => BilledOnce
  BY SameBillCount DEF BilledOnce,
     Recurring!Dates, RecurringP!Dates, Recurring!Billed, RecurringP!Billed,
     Recurring!BilledOnce, RecurringP!BilledOnce
<1> QED BY <1>1, <1>2, RecurringBehaves, RecurringP!DatesAreBilledOnce, PTL

-----------------------------------------------------------------------------
(* Controls: records and their stamps.  Edits and decisions overlap, except that   *)
(* nobody works on an access review beside an edit of it.  What a request loaded   *)
(* was the row once, and says of itself what the row does.                         *)

Kinds == {"change", "exception", "violation", "review", "statement", "report", "package",
          "filing"}

\* Where each button leads to and what it stamps.
LEMMA MoveFields ==
    /\ Records!Submit.to = "submitted" /\ Records!Submit.stamp = {}
    /\ Records!Approve.to = "approved" /\ Records!Approve.stamp = {"approved"}
    /\ Records!Reject.to = "rejected" /\ Records!Reject.stamp = {}
    /\ Records!Implement.to = "implemented" /\ Records!Implement.stamp = {"implemented"}
    /\ Records!Implement.from = {"approved"}
    /\ Records!ResolveException.to = "resolved" /\ Records!ResolveException.stamp = {"resolved"}
    /\ Records!ResolveViolation.to = "mitigated" /\ Records!ResolveViolation.stamp = {"resolved"}
    /\ Records!GenerateStatement.to = "generated"
    /\ Records!GenerateStatement.stamp = {"generated"}
    /\ Records!ApproveStatement.to = "approved" /\ Records!ApproveStatement.stamp = {"approved"}
    /\ Records!GenerateReport.to = "generated" /\ Records!GenerateReport.stamp = {"generated"}
    /\ Records!Consolidate.to = "consolidated" /\ Records!Consolidate.stamp = {"generated"}
    /\ Records!ValidateFiling.to = "validated" /\ Records!ValidateFiling.stamp = {}
    /\ Records!SubmitFiling.to = "submitted" /\ Records!SubmitFiling.stamp = {"submitted"}
  BY DEF Records!Move, Records!Submit, Records!Approve, Records!Reject, Records!Implement,
     Records!ResolveException, Records!ResolveViolation, Records!GenerateStatement,
     Records!ApproveStatement, Records!GenerateReport, Records!Consolidate,
     Records!ValidateFiling, Records!SubmitFiling

\* The buttons of a page lead to statuses of its record, each to its own; the button that
\* marks a change as implemented is for approved ones.
LEMMA MovesApart ==
    ASSUME NEW kind \in Kinds
    PROVE  /\ \A m \in Records!Moves(kind) :
                 /\ m.to \in Records!Statuses(kind) /\ m.to # Records!None
                 /\ m.stamp \subseteq Records!Stamps
                 /\ "implemented" \in m.stamp => m = Records!Implement
                 /\ m = Records!Implement => kind = "change"
           /\ \A m, n \in Records!Moves(kind) : m.to = n.to => m = n
<1> USE MoveFields DEF Records!Moves, Records!Statuses, Records!Stamps, Records!None
<1>1. CASE kind = "change"
  BY <1>1
<1>2. CASE kind = "exception"
  BY <1>2
<1>3. CASE kind = "violation"
  BY <1>3
<1>4. CASE kind = "review"
  BY <1>4
<1>5. CASE kind = "statement"
  BY <1>5
<1>6. CASE kind = "report"
  BY <1>6
<1>7. CASE kind = "package"
  BY <1>7
<1>8. CASE kind = "filing"
  BY <1>8
<1> QED BY <1>1, <1>2, <1>3, <1>4, <1>5, <1>6, <1>7, <1>8 DEF Kinds

Findings(row) == Cardinality({i \in ReviewItems : row.item[i] = "revoked"})

\* What a row says of itself: it has the stamp of the button that brought it to its status,
\* and unless a form overruled the approval of a change, an implemented one was approved.
RowHolds(kind, overruled, row) ==
    /\ \A m \in Records!Moves(kind) :
          ~row.chosen /\ row.status = m.to => m.stamp \subseteq row.stamps
    /\ ~overruled /\ "implemented" \in row.stamps => "approved" \in row.stamps
    /\ row.status = "approved" /\ row.chosen => overruled

\* What a request relies on: a count is of the items as they are; a decision is one of the
\* record's own, and a change that is about to be implemented has been approved.
RequestFits(q, rec, behind_items) ==
    /\ RowHolds(rec.kind, rec.overruled, q.copy)
    /\ q.pc \in {"items", "count", "save_count"} => rec.kind = "review" /\ behind_items
    /\ q.pc = "save_count" => q.n = Findings(rec)
    /\ q.pc = "decide" =>
          /\ q.move \in Records!Moves(rec.kind)
          /\ q.move = Records!Implement /\ ~rec.overruled => "approved" \in rec.row.stamps

ReviewAlone ==
    record.kind = "review" => \A v, w \in Workers : Records!Busy(v) /\ Records!Busy(w) => v = w

RecordInv ==
    /\ Records!TypeOK
    /\ RowHolds(record.kind, record.overruled, record.row)
    /\ ~ct_lagging => record.findings = Findings(record)
    /\ ct_lagging => record.kind = "review"
    /\ ReviewAlone
    /\ \A w \in Workers : RequestFits(ct_req[w], record, ct_lagging)

\* The instance has a copy of Cardinality of its own.
LEMMA SameCount ==
    ASSUME NEW S
    PROVE  Records!Cardinality(S) = Cardinality(S)
  BY DEF Records!Cardinality, Cardinality

LEMMA CountIsNumber ==
    ASSUME IsFiniteSet(ReviewItems), NEW row
    PROVE  Findings(row) \in Nat
<1>1. IsFiniteSet({i \in ReviewItems : row.item[i] = "revoked"})
  BY FS_Subset
<1> QED BY <1>1, FS_CardinalityType DEF Findings

LEMMA IdleRequest ==
    /\ Records!NoRow \in Records!Row /\ Records!Idle \in Records!Request
    /\ Records!Idle.pc = "idle" /\ Records!Idle.copy = Records!NoRow
<1>1. Records!NoRow \in Records!Row
  BY DEF Records!NoRow, Records!Row, Records!None
<1>2. Records!Idle \in Records!Request
  BY <1>1 DEF Records!Idle, Records!Request
<1> QED BY <1>1, <1>2 DEF Records!Idle

\* A row that was not entered says nothing.
LEMMA NoRowHolds ==
    ASSUME NEW kind \in Kinds, NEW overruled
    PROVE  RowHolds(kind, overruled, Records!NoRow)
<1>1. /\ Records!NoRow.status = Records!None /\ Records!NoRow.stamps = {}
      /\ Records!NoRow.chosen = FALSE /\ Records!None = "none"
  BY DEF Records!NoRow, Records!None
<1> QED BY <1>1, MovesApart DEF RowHolds

LEMMA IdleFits ==
    ASSUME NEW rec, rec.kind \in Kinds, NEW behind_items
    PROVE  RequestFits(Records!Idle, rec, behind_items)
  BY IdleRequest, NoRowHolds DEF RequestFits

LEMMA RecordTypes ==
    ASSUME RecordInv
    PROVE  /\ record \in Records!Record /\ record.kind \in Kinds /\ record.row \in Records!Row
           /\ ct_lagging \in BOOLEAN /\ ct_aborts \in Nat
           /\ ct_req \in [Workers -> Records!Request]
<1>1. /\ record \in Records!Record /\ ct_lagging \in BOOLEAN /\ ct_aborts \in Nat
      /\ ct_req \in [Workers -> Records!Request]
  BY DEF RecordInv, Records!TypeOK
<1> QED BY <1>1 DEF Records!Record, Kinds

LEMMA RecordInit ==
    ASSUME Records!Init
    PROVE  RecordInv
<1>1. PICK kind \in Kinds :
         record = [kind |-> kind, row |-> Records!NoRow, overruled |-> FALSE,
                   item |-> [i \in ReviewItems |-> Records!None], findings |-> 0]
  BY DEF Records!Init, Kinds
<1>2. /\ ct_lagging = FALSE /\ ct_aborts = 0 /\ ct_req = [w \in Workers |-> Records!Idle]
      /\ \A w \in Workers : ct_req[w] = Records!Idle
  BY DEF Records!Init
<1>3. Records!TypeOK
  <2>1. record \in Records!Record
    BY <1>1, IdleRequest DEF Records!Record, Records!None, Kinds
  <2> QED BY <1>2, <2>1, IdleRequest DEF Records!TypeOK
<1>4. record.findings = Findings(record)
  <2>1. {i \in ReviewItems : record.item[i] = "revoked"} = {}
    <3>1. \A i \in ReviewItems : record.item[i] = "none"
      BY <1>1 DEF Records!None
    <3> QED BY <3>1
  <2>2. PICK S : S = {i \in ReviewItems : record.item[i] = "revoked"}
    OBVIOUS
  <2>3. Cardinality(S) = 0
    BY <2>1, <2>2, FS_EmptySet
  <2> QED BY <1>1, <2>2, <2>3 DEF Findings
<1>5. RowHolds(record.kind, record.overruled, record.row)
  BY <1>1, NoRowHolds
<1>6. ReviewAlone
  BY <1>2, IdleRequest DEF ReviewAlone, Records!Busy, Records!At
<1>7. \A w \in Workers : RequestFits(ct_req[w], record, ct_lagging)
  BY <1>1, <1>2, IdleFits
<1> QED BY <1>2, <1>3, <1>4, <1>5, <1>6, <1>7 DEF RecordInv

-----------------------------------------------------------------------------
(* What a step leaves alone. *)

\* The record after a step: a form may overrule an approval, which nothing takes back, and
\* only then the stamp of the approval is lost.
RecordGoesOn ==
    /\ record' \in Records!Record /\ record'.kind = record.kind
    /\ record.overruled => record'.overruled
    /\ record.kind = "change" /\ ~record'.overruled /\ "approved" \in record.row.stamps =>
          "approved" \in record'.row.stamps
    /\ RowHolds(record'.kind, record'.overruled, record'.row)
    /\ ct_lagging' \in BOOLEAN /\ ct_aborts' \in Nat
    /\ ~ct_lagging' => record'.findings = Findings(record')
    /\ ct_lagging' => record.kind = "review"

\* A step of one worker keeps the invariant for the others: of a review, nobody else has a
\* request.
LEMMA RecordFrame ==
    ASSUME RecordInv, NEW w \in Workers, NEW q \in Records!Request,
           ct_req' = [ct_req EXCEPT ![w] = q], RecordGoesOn,
           record.kind = "review" => \A v \in Workers \ {w} : ~Records!Busy(v),
           RequestFits(q, record', ct_lagging')
    PROVE  RecordInv'
<1>1. /\ ct_req' \in [Workers -> Records!Request] /\ ct_req'[w] = q
      /\ \A v \in Workers \ {w} : ct_req'[v] = ct_req[v]
  BY RecordTypes
<1>2. Records!TypeOK'
  BY <1>1 DEF RecordGoesOn, Records!TypeOK
<1>3. ReviewAlone'
  BY <1>1 DEF ReviewAlone, Records!Busy, Records!At, RecordGoesOn
<1>4. ASSUME NEW v \in Workers \ {w}
      PROVE  RequestFits(ct_req'[v], record', ct_lagging')
  <2>1. PICK r \in Records!Request : r = ct_req[v] /\ RequestFits(r, record, ct_lagging)
    BY RecordTypes DEF RecordInv
  <2>2. RowHolds(record'.kind, record'.overruled, r.copy)
    BY <2>1 DEF RecordGoesOn, RequestFits, RowHolds
  <2>3. record.kind = "review" => r.pc = "idle"
    BY <2>1 DEF Records!Busy, Records!At
  <2>4. r.pc \notin {"items", "count", "save_count"}
    BY <2>1, <2>3 DEF RequestFits
  <2>5. r.move = Records!Implement /\ r.move \in Records!Moves(record.kind) => record.kind = "change"
    BY RecordTypes, MovesApart
  <2>6. RequestFits(r, record', ct_lagging')
    BY <2>1, <2>2, <2>4, <2>5 DEF RequestFits, RecordGoesOn
  <2> QED BY <1>1, <2>1, <2>6
<1> QED BY <1>1, <1>2, <1>3, <1>4 DEF RecordInv, RecordGoesOn

\* The request of a worker, with what the invariant says of it.
LEMMA RecordRequest ==
    ASSUME RecordInv, NEW w \in Workers
    PROVE  \E r \in Records!Request :
              /\ r = ct_req[w] /\ RequestFits(r, record, ct_lagging) /\ r.copy \in Records!Row
              /\ r.todo \in SUBSET ReviewItems /\ r.n \in Nat
              /\ r.pc # "idle" /\ record.kind = "review" =>
                    \A v \in Workers \ {w} : ~Records!Busy(v)
<1>1. PICK r \in Records!Request : r = ct_req[w] /\ RequestFits(r, record, ct_lagging)
  BY RecordTypes DEF RecordInv
<1>2. r.copy \in Records!Row /\ r.todo \in SUBSET ReviewItems /\ r.n \in Nat
  BY DEF Records!Request
<1>3. r.pc # "idle" /\ record.kind = "review" => \A v \in Workers \ {w} : ~Records!Busy(v)
  BY <1>1 DEF RecordInv, ReviewAlone, Records!Busy, Records!At
<1> QED BY <1>1, <1>2, <1>3

\* The steps of a request that leave the record alone.
LEMMA RecordQuiet ==
    ASSUME RecordInv, UNCHANGED <<record, ct_lagging>>, ct_aborts' \in Nat
    PROVE  RecordGoesOn
  BY RecordTypes DEF RecordGoesOn, RecordInv, RowHolds, Findings

-----------------------------------------------------------------------------
(* The steps. *)

LEMMA StepEditRecord ==
    ASSUME RecordInv, NEW w \in Workers, Records!EditRecord(w)
    PROVE  RecordInv'
<1>1. PICK row \in Records!Row : row = record.row
  BY RecordTypes
<1>2. PICK q \in Records!Request : q = [Records!Idle EXCEPT !.pc = "edit", !.copy = row]
  BY IdleRequest DEF Records!Request
<1>3. q.pc = "edit" /\ q.copy = row
  BY <1>2 DEF Records!Idle
<1>4. /\ ct_req' = [ct_req EXCEPT ![w] = q]
      /\ record' = record /\ ct_lagging' = ct_lagging /\ ct_aborts' = ct_aborts
  BY <1>1, <1>2 DEF Records!EditRecord
<1>5. record.kind = "review" => \A v \in Workers : ~Records!Busy(v)
  BY DEF Records!EditRecord, Records!MayEdit
<1>6. RequestFits(q, record', ct_lagging')
  BY <1>1, <1>3, <1>4 DEF RequestFits, RecordInv
<1> QED BY <1>4, <1>5, <1>6, RecordTypes, RecordQuiet, RecordFrame

\* form.save: where the status is what was loaded, the row says what the loaded row said.
LEMMA StepSaveRecord ==
    ASSUME RecordInv, NEW w \in Workers, Records!SaveRecord(w)
    PROVE  RecordInv'
<1>1. PICK r \in Records!Request :
         /\ r = ct_req[w] /\ RequestFits(r, record, ct_lagging) /\ r.copy \in Records!Row
         /\ r.todo \in SUBSET ReviewItems /\ r.n \in Nat
         /\ r.pc # "idle" /\ record.kind = "review" =>
               \A v \in Workers \ {w} : ~Records!Busy(v)
  BY RecordRequest
<1>2. r.pc = "edit"
  BY <1>1 DEF Records!SaveRecord, Records!At
<1>3. PICK copy \in Records!Row : copy = r.copy /\ RowHolds(record.kind, record.overruled, copy)
  BY <1>1 DEF RequestFits
<1>4. PICK status \in Records!Statuses(record.kind) :
         record' = [record EXCEPT
              !.row = [status |-> status, stamps |-> copy.stamps,
                       chosen |-> copy.chosen \/ status # copy.status],
              !.overruled = \/ @
                            \/ status = "approved" /\ status # copy.status
                            \/ ~(record.row.stamps \subseteq copy.stamps)]
  <2>1. PICK status \in Records!Statuses(record.kind) :
           record' = [record EXCEPT
              !.row = [status |-> status, stamps |-> ct_req[w].copy.stamps,
                       chosen |-> ct_req[w].copy.chosen \/ status # ct_req[w].copy.status],
              !.overruled = \/ @
                            \/ status = "approved" /\ status # ct_req[w].copy.status
                            \/ ~(record.row.stamps \subseteq ct_req[w].copy.stamps)]
    BY Zenon DEF Records!SaveRecord
  <2>2. ct_req[w].copy = copy
    BY <1>1, <1>3
  <2> QED BY <2>1, <2>2
<1>5. PICK chosen \in BOOLEAN : chosen <=> (copy.chosen \/ status # copy.status)
  OBVIOUS
<1>6. PICK overruled \in BOOLEAN :
         overruled <=> \/ record.overruled
                       \/ status = "approved" /\ status # copy.status
                       \/ ~(record.row.stamps \subseteq copy.stamps)
  OBVIOUS
<1>7. PICK row \in Records!Row :
         row = [status |-> status, stamps |-> copy.stamps, chosen |-> chosen]
  <2>1. status \in UNION {Records!Statuses(k) : k \in Kinds}
    BY RecordTypes
  <2>2. copy.stamps \in SUBSET Records!Stamps
    BY DEF Records!Row
  <2> QED BY <2>1, <2>2 DEF Records!Row, Kinds
<1>8. record' = [record EXCEPT !.row = row, !.overruled = overruled]
  <2>1. /\ record.overruled \in BOOLEAN /\ copy.chosen \in BOOLEAN
        /\ chosen = (copy.chosen \/ status # copy.status)
        /\ overruled = (\/ record.overruled
                        \/ status = "approved" /\ status # copy.status
                        \/ ~(record.row.stamps \subseteq copy.stamps))
    <3>1. record.overruled \in BOOLEAN /\ copy.chosen \in BOOLEAN
      BY RecordTypes DEF Records!Record, Records!Row
    <3> QED BY <3>1, <1>5, <1>6
  <2>2. record' = [[record EXCEPT !.row = row] EXCEPT !.overruled =
                      \/ record.overruled
                      \/ status = "approved" /\ status # copy.status
                      \/ ~(record.row.stamps \subseteq copy.stamps)]
    BY <1>4, <1>7, <2>1, RecordTypes DEF Records!Record
  <2> QED BY <2>1, <2>2
<1>9. /\ row.status = status /\ row.stamps = copy.stamps /\ row.chosen = chosen
  BY <1>7
<1>10. /\ record' \in Records!Record
       /\ record'.row = row /\ record'.overruled = overruled
       /\ record'.kind = record.kind /\ record'.item = record.item
       /\ record'.findings = record.findings
  BY <1>8, RecordTypes DEF Records!Record
<1>11. ct_lagging' = (record.kind = "review") /\ ct_aborts' = ct_aborts
  BY DEF Records!SaveRecord
<1>12. RowHolds(record.kind, overruled, row)
  <2>1. ASSUME NEW m \in Records!Moves(record.kind), ~chosen, status = m.to
        PROVE  m.stamp \subseteq copy.stamps
    BY <1>3, <1>5, <2>1 DEF RowHolds
  <2>2. ~overruled /\ "implemented" \in copy.stamps => "approved" \in copy.stamps
    BY <1>3, <1>6 DEF RowHolds
  <2>3. status = "approved" /\ chosen => overruled
    BY <1>3, <1>5, <1>6 DEF RowHolds
  <2> QED BY <1>9, <2>1, <2>2, <2>3 DEF RowHolds
<1>13. RecordGoesOn
  <2>1. ~overruled /\ "approved" \in record.row.stamps => "approved" \in row.stamps
    BY <1>6, <1>9
  <2>2. ct_lagging' \in BOOLEAN /\ ct_aborts' \in Nat
    BY <1>11, RecordTypes
  <2>3. ~ct_lagging' => record'.findings = Findings(record')
    BY <1>10, <1>11, RecordTypes DEF RecordInv, Findings
  <2> QED BY <1>6, <1>10, <1>11, <1>12, <2>1, <2>2, <2>3 DEF RecordGoesOn
<1>14. PICK q \in Records!Request :
         /\ ct_req' = [ct_req EXCEPT ![w] = q]
         /\ \/ q = Records!Idle
            \/ q.pc = "items" /\ q.copy = copy /\ record.kind = "review"
  <2>1. CASE record.kind = "review"
    <3>1. ct_req' = [ct_req EXCEPT ![w].pc = "items", ![w].todo = ReviewItems]
      BY <2>1 DEF Records!SaveRecord
    <3>2. PICK q \in Records!Request : q = [r EXCEPT !.pc = "items", !.todo = ReviewItems]
      BY DEF Records!Request
    <3>3. ct_req' = [ct_req EXCEPT ![w] = q]
      BY <1>1, <3>1, <3>2, RecordTypes
    <3>4. q.pc = "items" /\ q.copy = copy
      BY <1>3, <3>2 DEF Records!Request
    <3> QED BY <2>1, <3>3, <3>4
  <2>2. CASE record.kind # "review"
    BY <2>2, IdleRequest DEF Records!SaveRecord, Records!Finish
  <2> QED BY <2>1, <2>2
<1>15. RequestFits(q, record', ct_lagging')
  <2>1. CASE q = Records!Idle
    BY <1>10, <2>1, RecordTypes, IdleFits
  <2>2. CASE q.pc = "items" /\ q.copy = copy /\ record.kind = "review"
    <3>1. RowHolds(record.kind, overruled, copy)
      BY <1>3, <1>6 DEF RowHolds
    <3>2. ct_lagging' = TRUE
      BY <1>11, <2>2
    <3> QED BY <1>10, <2>2, <3>1, <3>2 DEF RequestFits
  <2> QED BY <1>14, <2>1, <2>2
<1>16. record.kind = "review" => \A v \in Workers \ {w} : ~Records!Busy(v)
  BY <1>1, <1>2
<1> QED BY <1>13, <1>14, <1>15, <1>16, RecordFrame

\* The items and their count: nobody else works on the review.
LEMMA StepSaveItem ==
    ASSUME RecordInv, NEW w \in Workers, Records!SaveItem(w)
    PROVE  RecordInv'
<1>1. PICK r \in Records!Request :
         /\ r = ct_req[w] /\ RequestFits(r, record, ct_lagging) /\ r.copy \in Records!Row
         /\ r.todo \in SUBSET ReviewItems /\ r.n \in Nat
         /\ r.pc # "idle" /\ record.kind = "review" =>
               \A v \in Workers \ {w} : ~Records!Busy(v)
  BY RecordRequest
<1>2. r.pc = "items" /\ record.kind = "review" /\ ct_lagging
  BY <1>1 DEF Records!SaveItem, Records!At, RequestFits
<1>3. PICK i \in r.todo, decision \in {Records!None, "maintained", "revoked"} :
         /\ record' = [record EXCEPT !.item[i] = decision]
         /\ ct_req' = [ct_req EXCEPT ![w].todo = @ \ {i}]
  BY <1>1, Zenon DEF Records!SaveItem
<1>4. ct_lagging' = ct_lagging /\ ct_aborts' = ct_aborts
  BY DEF Records!SaveItem
<1>5. /\ record' \in Records!Record
      /\ record'.row = record.row /\ record'.overruled = record.overruled
      /\ record'.kind = record.kind
  <2>1. PICK items \in [ReviewItems -> {Records!None, "maintained", "revoked"}] :
           items = [record.item EXCEPT ![i] = decision]
    BY <1>1, RecordTypes DEF Records!Record
  <2>2. record' = [record EXCEPT !.item = items]
    BY <1>3, <2>1, RecordTypes DEF Records!Record
  <2> QED BY <2>2, RecordTypes DEF Records!Record
<1>6. PICK q \in Records!Request :
         ct_req' = [ct_req EXCEPT ![w] = q] /\ q.pc = "items" /\ q.copy = r.copy
  <2>1. PICK rest \in SUBSET ReviewItems : rest = r.todo \ {i}
    BY <1>1
  <2>2. PICK q \in Records!Request : q = [r EXCEPT !.todo = rest]
    BY DEF Records!Request
  <2>3. ct_req' = [ct_req EXCEPT ![w] = q]
    BY <1>1, <1>3, <2>1, <2>2, RecordTypes
  <2>4. q.pc = "items" /\ q.copy = r.copy
    BY <1>2, <2>2 DEF Records!Request
  <2> QED BY <2>3, <2>4
<1>7. RecordGoesOn
  BY <1>2, <1>4, <1>5, RecordTypes DEF RecordGoesOn, RecordInv
<1>8. RequestFits(q, record', ct_lagging')
  BY <1>1, <1>2, <1>4, <1>5, <1>6 DEF RequestFits
<1> QED BY <1>1, <1>2, <1>6, <1>7, <1>8, RecordFrame

LEMMA StepCountItems ==
    ASSUME RecordInv, NEW w \in Workers, Records!EndItems(w) \/ Records!CountFindings(w),
           IsFiniteSet(ReviewItems)
    PROVE  RecordInv'
<1>1. PICK r \in Records!Request :
         /\ r = ct_req[w] /\ RequestFits(r, record, ct_lagging) /\ r.copy \in Records!Row
         /\ r.todo \in SUBSET ReviewItems /\ r.n \in Nat
         /\ r.pc # "idle" /\ record.kind = "review" =>
               \A v \in Workers \ {w} : ~Records!Busy(v)
  BY RecordRequest
<1>2. r.pc \in {"items", "count"} /\ record.kind = "review" /\ ct_lagging
  BY <1>1 DEF Records!EndItems, Records!CountFindings, Records!At, RequestFits
<1>3. record' = record /\ ct_lagging' = ct_lagging /\ ct_aborts' = ct_aborts
  BY DEF Records!EndItems, Records!CountFindings
<1>4. PICK q \in Records!Request :
         /\ ct_req' = [ct_req EXCEPT ![w] = q] /\ q.copy = r.copy
         /\ q.pc \in {"count", "save_count"}
         /\ q.pc = "save_count" => q.n = Findings(record)
  <2>1. CASE Records!EndItems(w)
    <3>1. PICK q \in Records!Request : q = [r EXCEPT !.pc = "count"]
      BY DEF Records!Request
    <3>2. ct_req' = [ct_req EXCEPT ![w] = q]
      BY <1>1, <2>1, <3>1, RecordTypes DEF Records!EndItems
    <3>3. q.pc = "count" /\ q.copy = r.copy
      BY <3>1 DEF Records!Request
    <3> QED BY <3>2, <3>3
  <2>2. CASE Records!CountFindings(w)
    <3>1. PICK n \in Nat : n = Findings(record)
      BY CountIsNumber
    <3>2. PICK q \in Records!Request : q = [r EXCEPT !.pc = "save_count", !.n = n]
      BY DEF Records!Request
    <3>3. ct_req' = [ct_req EXCEPT ![w].pc = "save_count", ![w].n = n]
      BY <2>2, <3>1, SameCount DEF Records!CountFindings, Findings
    <3>4. ct_req' = [ct_req EXCEPT ![w] = q]
      BY <1>1, <3>2, <3>3, RecordTypes
    <3>5. q.pc = "save_count" /\ q.copy = r.copy /\ q.n = n
      BY <3>2 DEF Records!Request
    <3> QED BY <3>1, <3>4, <3>5
  <2> QED BY <2>1, <2>2
<1>5. RequestFits(q, record', ct_lagging')
  BY <1>1, <1>2, <1>3, <1>4 DEF RequestFits
<1> QED BY <1>1, <1>2, <1>3, <1>4, <1>5, RecordTypes, RecordQuiet, RecordFrame

LEMMA StepSaveFindings ==
    ASSUME RecordInv, NEW w \in Workers, Records!SaveFindings(w)
    PROVE  RecordInv'
<1>1. PICK r \in Records!Request :
         /\ r = ct_req[w] /\ RequestFits(r, record, ct_lagging) /\ r.copy \in Records!Row
         /\ r.todo \in SUBSET ReviewItems /\ r.n \in Nat
         /\ r.pc # "idle" /\ record.kind = "review" =>
               \A v \in Workers \ {w} : ~Records!Busy(v)
  BY RecordRequest
<1>2. r.pc = "save_count" /\ r.n = Findings(record)
  BY <1>1 DEF Records!SaveFindings, Records!At, RequestFits
<1>3. /\ record' = [record EXCEPT !.findings = r.n]
      /\ ct_req' = [ct_req EXCEPT ![w] = Records!Idle]
      /\ ct_lagging' = FALSE /\ ct_aborts' = ct_aborts
  BY <1>1 DEF Records!SaveFindings, Records!Finish
<1>4. /\ record' \in Records!Record
      /\ record'.row = record.row /\ record'.overruled = record.overruled
      /\ record'.kind = record.kind /\ record'.item = record.item
      /\ record'.findings = r.n
  BY <1>1, <1>3, RecordTypes DEF Records!Record
<1>5. RecordGoesOn
  BY <1>2, <1>3, <1>4, RecordTypes DEF RecordGoesOn, RecordInv, Findings
<1>6. RequestFits(Records!Idle, record', ct_lagging')
  BY <1>4, RecordTypes, IdleFits
<1> QED BY <1>1, <1>2, <1>3, <1>5, <1>6, IdleRequest, RecordFrame

\* A change is marked as implemented where it was found approved: the button that approved
\* it left its stamp, or a form did, which overrules.
LEMMA StepDecide ==
    ASSUME RecordInv, NEW w \in Workers, Records!Decide(w)
    PROVE  RecordInv'
<1>1. PICK move \in Records!Moves(record.kind) :
         /\ record.row.status \in move.from
         /\ ct_req' = [ct_req EXCEPT ![w] = [Records!Idle EXCEPT !.pc = "decide", !.move = move,
                                                                 !.copy = record.row]]
  BY Zenon DEF Records!Decide
<1>2. PICK row \in Records!Row : row = record.row /\ RowHolds(record.kind, record.overruled, row)
  BY RecordTypes DEF RecordInv
<1>3. PICK q \in Records!Request :
         q = [Records!Idle EXCEPT !.pc = "decide", !.move = move, !.copy = row]
  <2>1. move \in UNION {Records!Moves(k) : k \in Kinds}
    BY <1>1, RecordTypes
  <2> QED BY <2>1, IdleRequest DEF Records!Request, Kinds
<1>4. q.pc = "decide" /\ q.move = move /\ q.copy = row
  BY <1>3 DEF Records!Idle
<1>5. /\ ct_req' = [ct_req EXCEPT ![w] = q]
      /\ record' = record /\ ct_lagging' = ct_lagging /\ ct_aborts' = ct_aborts
  BY <1>1, <1>2, <1>3 DEF Records!Decide
<1>6. record.kind # "review"
  <2>1. record.kind = "review" => Records!Moves(record.kind) = {}
    BY DEF Records!Moves
  <2> QED BY <2>1
<1>7. ASSUME move = Records!Implement, ~record.overruled
      PROVE  "approved" \in row.stamps
  <2>1. record.kind = "change" /\ row.status = "approved"
    BY <1>1, <1>2, <1>7, RecordTypes, MovesApart, MoveFields
  <2>2. Records!Approve \in Records!Moves(record.kind)
    BY <2>1 DEF Records!Moves
  <2>3. row.chosen \in BOOLEAN
    BY DEF Records!Row
  <2> QED BY <1>2, <1>7, <2>1, <2>2, <2>3, MoveFields DEF RowHolds
<1>8. RequestFits(q, record', ct_lagging')
  BY <1>1, <1>2, <1>4, <1>5, <1>7 DEF RequestFits
<1> QED BY <1>5, <1>6, <1>8, RecordTypes, RecordQuiet, RecordFrame

LEMMA StepCrashRecord ==
    ASSUME RecordInv, NEW w \in Workers, Records!Crash(w)
    PROVE  RecordInv'
<1>1. PICK r \in Records!Request :
         /\ r = ct_req[w] /\ RequestFits(r, record, ct_lagging) /\ r.copy \in Records!Row
         /\ r.todo \in SUBSET ReviewItems /\ r.n \in Nat
         /\ r.pc # "idle" /\ record.kind = "review" =>
               \A v \in Workers \ {w} : ~Records!Busy(v)
  BY RecordRequest
<1>2. r.pc # "idle"
  BY <1>1 DEF Records!Crash, Records!Busy, Records!At
<1>3. /\ ct_req' = [ct_req EXCEPT ![w] = Records!Idle]
      /\ record' = record /\ ct_lagging' = ct_lagging /\ ct_aborts' = ct_aborts + 1
  BY DEF Records!Crash, Records!Finish
<1>4. RequestFits(Records!Idle, record', ct_lagging')
  BY <1>3, RecordTypes, IdleFits
<1>5. ct_aborts' \in Nat
  BY <1>3, RecordTypes
<1>6. RecordGoesOn
  BY <1>3, <1>5, RecordQuiet
<1>7. record.kind = "review" => \A v \in Workers \ {w} : ~Records!Busy(v)
  BY <1>1, <1>2
<1> QED BY <1>3, <1>4, <1>6, <1>7, IdleRequest, RecordFrame

\* In audit a decision adds its stamp to those of the row, in reporting to those it loaded.
LEMMA StepSaveDecision ==
    ASSUME RecordInv, NEW w \in Workers, Records!SaveDecision(w)
    PROVE  RecordInv'
<1>1. PICK r \in Records!Request :
         /\ r = ct_req[w] /\ RequestFits(r, record, ct_lagging) /\ r.copy \in Records!Row
         /\ r.todo \in SUBSET ReviewItems /\ r.n \in Nat
         /\ r.pc # "idle" /\ record.kind = "review" =>
               \A v \in Workers \ {w} : ~Records!Busy(v)
  BY RecordRequest
<1>2. r.pc = "decide" /\ r.move \in Records!Moves(record.kind)
      /\ (r.move = Records!Implement /\ ~record.overruled => "approved" \in record.row.stamps)
  BY <1>1 DEF Records!SaveDecision, Records!At, RequestFits
<1>3. PICK move \in Records!Moves(record.kind) : move = r.move
  BY <1>2
<1>4. PICK kept \in SUBSET Records!Stamps :
         /\ kept = IF record.kind \in Records!InAudit THEN record.row.stamps ELSE r.copy.stamps
  BY <1>1, RecordTypes DEF Records!Row
<1>5. PICK stamps \in SUBSET Records!Stamps : stamps = kept \cup move.stamp
  BY <1>3, RecordTypes, MovesApart
<1>6. PICK row \in Records!Row :
         row = [status |-> move.to, stamps |-> stamps, chosen |-> FALSE]
  <2>1. move.to \in UNION {Records!Statuses(k) : k \in Kinds}
    BY RecordTypes, MovesApart
  <2> QED BY <2>1 DEF Records!Row, Kinds
<1>7. record' = [record EXCEPT !.row = row]
  BY <1>1, <1>3, <1>4, <1>5, <1>6 DEF Records!SaveDecision
<1>8. row.status = move.to /\ row.stamps = stamps /\ row.chosen = FALSE
  BY <1>6
<1>9. /\ record' \in Records!Record
      /\ record'.row = row /\ record'.overruled = record.overruled
      /\ record'.kind = record.kind /\ record'.item = record.item
      /\ record'.findings = record.findings
  BY <1>7, RecordTypes DEF Records!Record
<1>10. /\ ct_req' = [ct_req EXCEPT ![w] = Records!Idle]
       /\ ct_lagging' = ct_lagging /\ ct_aborts' = ct_aborts
  BY DEF Records!SaveDecision, Records!Finish
<1>11. ~record.overruled /\ "implemented" \in stamps => "approved" \in stamps
  <2>1. ~record.overruled /\ "implemented" \in kept => "approved" \in kept
    BY <1>1, <1>4 DEF RecordInv, RowHolds, RequestFits
  <2>2. ASSUME "implemented" \in move.stamp, ~record.overruled
        PROVE  "approved" \in kept
    <3>1. move = Records!Implement /\ record.kind = "change"
      BY <2>2, RecordTypes, MovesApart
    <3> QED BY <1>2, <1>3, <1>4, <2>2, <3>1 DEF Records!InAudit
  <2> QED BY <1>5, <2>1, <2>2
<1>12. RowHolds(record.kind, record.overruled, row)
  BY <1>5, <1>8, <1>11, RecordTypes, MovesApart DEF RowHolds
<1>13. RecordGoesOn
  <2>1. record.kind = "change" /\ "approved" \in record.row.stamps => "approved" \in row.stamps
    BY <1>4, <1>5, <1>8 DEF Records!InAudit
  <2>2. ~ct_lagging' => record'.findings = Findings(record')
    BY <1>9, <1>10 DEF RecordInv, Findings
  <2>3. /\ ct_lagging' \in BOOLEAN /\ ct_aborts' \in Nat
        /\ ct_lagging' => record.kind = "review"
    BY <1>10, RecordTypes DEF RecordInv
  <2> QED BY <1>9, <1>12, <2>1, <2>2, <2>3 DEF RecordGoesOn
<1>14. RequestFits(Records!Idle, record', ct_lagging')
  BY <1>9, RecordTypes, IdleFits
<1> QED BY <1>1, <1>2, <1>10, <1>13, <1>14, IdleRequest, RecordFrame

LEMMA RecordInvHolds ==
    ASSUME IsFiniteSet(ReviewItems)
    PROVE  Records!Spec => []RecordInv
<1>1. RecordInv /\ [Records!Next]_(Records!vars) => RecordInv'
  <2> SUFFICES ASSUME RecordInv, [Records!Next]_(Records!vars)
               PROVE  RecordInv'
    OBVIOUS
  <2>1. CASE UNCHANGED Records!vars
    <3>1. /\ record' = record /\ ct_lagging' = ct_lagging /\ ct_req' = ct_req
          /\ ct_aborts' = ct_aborts
      BY <2>1 DEF Records!vars
    <3>2. Records!TypeOK' /\ ReviewAlone'
      BY <3>1 DEF RecordInv, Records!TypeOK, ReviewAlone, Records!Busy, Records!At
    <3> QED BY <3>1, <3>2 DEF RecordInv, RowHolds, RequestFits, Findings
  <2>2. ASSUME NEW w \in Workers,
               Records!EditRecord(w) \/ Records!Decide(w) \/ Records!Continue(w)
                  \/ Records!Crash(w)
        PROVE  RecordInv'
    BY <2>2, StepEditRecord, StepDecide, StepCrashRecord, StepSaveRecord, StepSaveItem,
       StepCountItems, StepSaveFindings, StepSaveDecision DEF Records!Continue
  <2> QED BY <2>1, <2>2 DEF Records!Next
<1> QED BY <1>1, RecordInit, PTL DEF Records!Spec

\* SaveRecord, SaveDecision and SaveFindings of audit and reporting: however edits and
\* decisions overlap and wherever a request dies, a status that a button led to has its
\* stamp, a change that was implemented had been approved unless a form overruled that, and
\* the findings of a review are those of its items.
THEOREM RecordsStayStamped ==
    ASSUME IsFiniteSet(ReviewItems)
    PROVE  Operations => []RecordsAreStamped
<1>1. RecordInv => RecordsAreStamped
  <2> SUFFICES ASSUME RecordInv PROVE Records!RecordsAreStamped
    BY DEF RecordsAreStamped
  <2>1. Records!StatusIsStamped /\ Records!ImplementedWasApproved
    BY DEF RecordInv, RowHolds, Records!StatusIsStamped, Records!ImplementedWasApproved
  <2>2. Records!FindingsAreItems
    BY SameCount DEF RecordInv, Findings, Records!FindingsAreItems
  <2> QED BY <2>1, <2>2 DEF Records!RecordsAreStamped
<1> QED BY <1>1, RecordsBehave, RecordInvHolds, PTL

-----------------------------------------------------------------------------
(* Access: people, organizations, memberships and invitations.  No table loses a   *)
(* row, so that what a request has seen stays true; what has been done in part and *)
(* is not finished has a request that goes on with it.                             *)

KeyOf(q) == <<q.u, q.t>>

\* What a request relies on, at the statement it has come to.
AccessFits(q, owners, members, invitations) ==
    /\ q.pc # "idle" => q.u \in Persons
    /\ q.pc \notin {"idle", "user", "slug"} => q.t \in People!Tenants
    /\ q.pc \in {"membership", "profile", "accepted"} /\ q.op = "accept" =>
          invitations[KeyOf(q)].status # "none" /\ invitations[KeyOf(q)].role = q.role
    /\ q.pc \in {"membership", "profile"} /\ q.op # "accept" => owners[q.t] = q.u
    /\ q.pc \in {"profile", "accepted"} => KeyOf(q) \in members
    /\ q.pc = "accepted" => q.op = "accept"
    /\ q.pc \in {"user", "slug", "tenant"} => q.op # "accept"
    /\ q.pc = "role" => q.role \in RoleNames

\* What a request goes on with.
Does(q, label, u, t) == q.pc = label /\ q.u = u /\ q.t = t

\* What is not finished is being done, unless a request has died half-way.
Underway ==
    \A u \in Persons : \A t \in People!Tenants :
        /\ invitation[<<u, t>>].status = "accepted" /\ invitation[<<u, t>>].role # "none" =>
              \/ <<u, t, invitation[<<u, t>>].role>> \in holds
              \/ \E w \in Workers : /\ Does(ac_req[w], "role", u, t)
                                    /\ ac_req[w].role = invitation[<<u, t>>].role
        /\ <<u, t>> \in member =>
              \/ <<u, t>> \in user_profile
              \/ \E w \in Workers : Does(ac_req[w], "profile", u, t)
        /\ owner[t] = u =>
              \/ <<u, t>> \in member
              \/ \E w \in Workers : Does(ac_req[w], "membership", u, t)

AcceptedAreMembers ==
    \A u \in Persons : \A t \in People!Tenants :
        invitation[<<u, t>>].status = "accepted" => <<u, t>> \in member

PeopleInv ==
    /\ People!TypeOK
    /\ People!MembersWereInvited
    /\ AcceptedAreMembers
    /\ ac_aborts = 0 => Underway
    /\ \A w \in Workers : AccessFits(ac_req[w], owner, member, invitation)

\* No table loses a row; an owner and what an invitation gives do not change.
Grows ==
    /\ member \subseteq member' /\ user_profile \subseteq user_profile'
    /\ holds \subseteq holds'
    /\ \A t \in People!Tenants : owner[t] # "none" => owner'[t] = owner[t]
    /\ \A x \in Persons \X People!Tenants : invitation[x].status # "none" =>
          invitation'[x].status # "none" /\ invitation'[x].role = invitation[x].role

LEMMA AccessStays ==
    ASSUME Grows, "none" \notin Persons, NEW q, AccessFits(q, owner, member, invitation)
    PROVE  AccessFits(q, owner', member', invitation')
<1>1. ASSUME q.pc \in {"membership", "profile", "accepted"}
      PROVE  KeyOf(q) \in Persons \X People!Tenants /\ q.u \in Persons /\ q.t \in People!Tenants
  BY <1>1 DEF AccessFits, KeyOf
<1>2. ASSUME q.pc \in {"membership", "profile", "accepted"}, q.op = "accept"
      PROVE  invitation'[KeyOf(q)].status # "none" /\ invitation'[KeyOf(q)].role = q.role
  BY <1>1, <1>2 DEF AccessFits, Grows
<1>3. ASSUME q.pc \in {"membership", "profile"}, q.op # "accept"
      PROVE  owner'[q.t] = q.u
  <2>1. owner[q.t] = q.u /\ q.u # "none"
    BY <1>1, <1>3 DEF AccessFits
  <2> QED BY <1>1, <1>3, <2>1 DEF Grows
<1>4. q.pc \in {"profile", "accepted"} => KeyOf(q) \in member'
  BY DEF AccessFits, Grows
<1> QED BY <1>2, <1>3, <1>4 DEF AccessFits

\* The statement of a request keeps the invariant: it changes its own request alone, no
\* table loses a row, and what it leaves unfinished the request itself goes on with.
LEMMA PeopleStep ==
    ASSUME PeopleInv, "none" \notin Persons, Grows,
           NEW w \in Workers, NEW q \in People!Request,
           ac_req' = [ac_req EXCEPT ![w] = q],
           People!TypeOK',
           AccessFits(q, owner', member', invitation'),
           \A x \in member' \ member : owner'[x[2]] = x[1] \/ invitation'[x].status # "none",
           \A x \in Persons \X People!Tenants : invitation'[x].status = "accepted" =>
              invitation[x].status = "accepted" \/ x \in member',
           ac_aborts' = 0 =>
              /\ ac_aborts = 0
              /\ ac_req[w].pc = "role" =>
                    <<ac_req[w].u, ac_req[w].t, ac_req[w].role>> \in holds'
              /\ ac_req[w].pc = "profile" => KeyOf(ac_req[w]) \in user_profile'
              /\ ac_req[w].pc = "membership" => KeyOf(ac_req[w]) \in member'
              /\ \A u \in Persons : \A t \in People!Tenants :
                    /\ /\ invitation'[<<u, t>>].status = "accepted"
                       /\ invitation[<<u, t>>].status # "accepted"
                       /\ invitation'[<<u, t>>].role # "none"
                       => Does(q, "role", u, t) /\ q.role = invitation'[<<u, t>>].role
                    /\ <<u, t>> \in member' \ member => Does(q, "profile", u, t)
                    /\ owner'[t] = u /\ owner[t] # u => Does(q, "membership", u, t)
    PROVE  PeopleInv'
<1>t. ac_req \in [Workers -> People!Request] /\ member \subseteq Persons \X People!Tenants
  BY DEF PeopleInv, People!TypeOK
<1>r. ac_req'[w] = q /\ \A v \in Workers \ {w} : ac_req'[v] = ac_req[v]
  BY <1>t
<1>1. \A v \in Workers : AccessFits(ac_req'[v], owner', member', invitation')
  BY <1>r, AccessStays DEF PeopleInv
<1>2. AcceptedAreMembers'
  BY DEF PeopleInv, AcceptedAreMembers, Grows
<1>3. People!MembersWereInvited'
  <2> SUFFICES ASSUME NEW x \in member'
               PROVE  owner'[x[2]] = x[1] \/ invitation'[x].status # "none"
    BY DEF People!MembersWereInvited, People!None
  <2>1. CASE x \in member
    <3>1. x \in Persons \X People!Tenants /\ x[1] \in Persons /\ x[2] \in People!Tenants
      BY <1>t, <2>1
    <3>2. owner[x[2]] = x[1] \/ invitation[x].status # "none"
      BY <2>1 DEF PeopleInv, People!MembersWereInvited, People!None
    <3> QED BY <3>1, <3>2 DEF Grows
  <2> QED BY <2>1
<1>4. ac_aborts' = 0 => Underway'
  <2> SUFFICES ASSUME ac_aborts' = 0, NEW u \in Persons, NEW t \in People!Tenants
               PROVE  /\ /\ invitation'[<<u, t>>].status = "accepted"
                         /\ invitation'[<<u, t>>].role # "none"
                         => \/ <<u, t, invitation'[<<u, t>>].role>> \in holds'
                            \/ \E v \in Workers : /\ Does(ac_req'[v], "role", u, t)
                                                  /\ ac_req'[v].role = invitation'[<<u, t>>].role
                      /\ <<u, t>> \in member' =>
                            \/ <<u, t>> \in user_profile'
                            \/ \E v \in Workers : Does(ac_req'[v], "profile", u, t)
                      /\ owner'[t] = u =>
                            \/ <<u, t>> \in member'
                            \/ \E v \in Workers : Does(ac_req'[v], "membership", u, t)
    BY Zenon DEF Underway, Does
  <2>x. <<u, t>> \in Persons \X People!Tenants /\ Underway
    BY DEF PeopleInv
  <2>1. ASSUME invitation'[<<u, t>>].status = "accepted", invitation'[<<u, t>>].role # "none"
        PROVE  \/ <<u, t, invitation'[<<u, t>>].role>> \in holds'
               \/ \E v \in Workers : /\ Does(ac_req'[v], "role", u, t)
                                     /\ ac_req'[v].role = invitation'[<<u, t>>].role
    <3>1. CASE invitation[<<u, t>>].status # "accepted"
      BY <1>r, <2>1, <3>1
    <3>2. CASE invitation[<<u, t>>].status = "accepted"
      <4>1. PICK role : role = invitation[<<u, t>>].role
        OBVIOUS
      <4>2. invitation'[<<u, t>>].role = role
        BY <2>x, <3>2, <4>1 DEF Grows
      <4>3. \/ <<u, t, role>> \in holds
            \/ \E v \in Workers : Does(ac_req[v], "role", u, t) /\ ac_req[v].role = role
        BY <2>x, <2>1, <3>2, <4>1, <4>2 DEF Underway
      <4>4. ASSUME NEW v \in Workers, Does(ac_req[v], "role", u, t), ac_req[v].role = role
            PROVE  \/ <<u, t, role>> \in holds'
                   \/ \E z \in Workers : Does(ac_req'[z], "role", u, t) /\ ac_req'[z].role = role
        <5>1. CASE v = w
          BY <4>4, <5>1 DEF Does
        <5>2. CASE v # w
          BY <1>r, <4>4, <5>2
        <5> QED BY <5>1, <5>2
      <4> QED BY <4>2, <4>3, <4>4 DEF Grows
    <3> QED BY <3>1, <3>2
  <2>2. ASSUME <<u, t>> \in member'
        PROVE  \/ <<u, t>> \in user_profile'
               \/ \E v \in Workers : Does(ac_req'[v], "profile", u, t)
    <3>1. CASE <<u, t>> \notin member
      BY <1>r, <2>2, <3>1
    <3>2. CASE <<u, t>> \in member
      <4>1. ASSUME NEW v \in Workers, Does(ac_req[v], "profile", u, t)
            PROVE  \/ <<u, t>> \in user_profile'
                   \/ \E z \in Workers : Does(ac_req'[z], "profile", u, t)
        <5>1. CASE v = w
          BY <4>1, <5>1 DEF Does, KeyOf
        <5>2. CASE v # w
          BY <1>r, <4>1, <5>2
        <5> QED BY <5>1, <5>2
      <4> QED BY <2>x, <3>2, <4>1 DEF Underway, Grows
    <3> QED BY <3>1, <3>2
  <2>3. ASSUME owner'[t] = u
        PROVE  \/ <<u, t>> \in member'
               \/ \E v \in Workers : Does(ac_req'[v], "membership", u, t)
    <3>1. CASE owner[t] # u
      BY <1>r, <2>3, <3>1
    <3>2. CASE owner[t] = u
      <4>1. ASSUME NEW v \in Workers, Does(ac_req[v], "membership", u, t)
            PROVE  \/ <<u, t>> \in member'
                   \/ \E z \in Workers : Does(ac_req'[z], "membership", u, t)
        <5>1. CASE v = w
          BY <4>1, <5>1 DEF Does, KeyOf
        <5>2. CASE v # w
          BY <1>r, <4>1, <5>2
        <5> QED BY <5>1, <5>2
      <4> QED BY <2>x, <3>2, <4>1 DEF Underway, Grows
    <3> QED BY <3>1, <3>2
  <2> QED BY <2>1, <2>2, <2>3
<1> QED BY <1>1, <1>2, <1>3, <1>4 DEF PeopleInv

LEMMA PeopleTypes ==
    ASSUME People!TypeOK, NEW w \in Workers, NEW q \in People!Request,
           ac_req' = [ac_req EXCEPT ![w] = q],
           account' \subseteq Persons,
           owner' \in [People!Tenants -> Persons \cup {People!None}],
           member' \subseteq Persons \X People!Tenants,
           user_profile' \subseteq Persons \X People!Tenants,
           invitation' \in [Persons \X People!Tenants -> People!Invitation],
           holds' \subseteq Persons \X People!Tenants \X RoleNames,
           ac_aborts' \in Nat
    PROVE  People!TypeOK'
<1>1. ac_req' \in [Workers -> People!Request]
  BY DEF People!TypeOK
<1> QED BY <1>1 DEF People!TypeOK

LEMMA IdlePerson ==
    /\ People!Idle \in People!Request /\ People!Idle.pc = "idle"
    /\ \A o, m, i : AccessFits(People!Idle, o, m, i)
<1>1. People!Idle.pc = "idle"
  BY DEF People!Idle
<1>2. People!Idle \in People!Request
  BY DEF People!Idle, People!Request
<1>3. \A o, m, i : AccessFits(People!Idle, o, m, i)
  BY <1>1 DEF AccessFits
<1> QED BY <1>1, <1>2, <1>3

\* A statement that adds to no table but perhaps the accounts.
LEMMA PeopleQuiet ==
    ASSUME PeopleInv, "none" \notin Persons,
           NEW w \in Workers, NEW q \in People!Request,
           ac_req' = [ac_req EXCEPT ![w] = q],
           account' \subseteq Persons,
           owner' = owner, member' = member, user_profile' = user_profile,
           invitation' = invitation, holds' = holds,
           ac_aborts' \in Nat, ac_aborts' = 0 => ac_aborts = 0,
           ac_aborts' = 0 => ac_req[w].pc \notin {"role", "profile", "membership"},
           AccessFits(q, owner, member, invitation)
    PROVE  PeopleInv'
<1>1. Grows
  BY DEF Grows
<1>2. People!TypeOK'
  BY PeopleTypes DEF PeopleInv, People!TypeOK
<1>3. AccessFits(q, owner', member', invitation')
  OBVIOUS
<1> QED BY <1>1, <1>2, <1>3, PeopleStep

LEMMA StepBegin ==
    ASSUME PeopleInv, "none" \notin Persons, NEW w \in Workers,
           NEW op, NEW label, NEW u, NEW t, NEW role,
           People!Begin(w, op, label, u, t, role),
           [op |-> op, pc |-> label, u |-> u, t |-> t, role |-> role] \in People!Request,
           AccessFits([op |-> op, pc |-> label, u |-> u, t |-> t, role |-> role],
                      owner, member, invitation)
    PROVE  PeopleInv'
<1>1. PICK q \in People!Request :
         q = [op |-> op, pc |-> label, u |-> u, t |-> t, role |-> role]
  OBVIOUS
<1>2. ac_req' = [ac_req EXCEPT ![w] = q]
  BY <1>1 DEF People!Begin
<1>3. /\ account' = account /\ owner' = owner /\ member' = member
      /\ user_profile' = user_profile /\ invitation' = invitation /\ holds' = holds
      /\ ac_aborts' = ac_aborts
  BY DEF People!Begin, People!tables
<1>4. ac_req[w].pc = "idle"
  BY DEF People!Begin, People!Busy, People!At
<1>5. account \subseteq Persons /\ ac_aborts \in Nat
  BY DEF PeopleInv, People!TypeOK
<1> QED BY <1>1, <1>2, <1>3, <1>4, <1>5, PeopleQuiet

LEMMA StepsBegin ==
    ASSUME PeopleInv, "none" \notin Persons, NEW w \in Workers, NEW u \in Persons,
           \/ People!SignUp(w, u) \/ People!CreateTenant(w, u)
           \/ \E t \in People!Tenants :
                 \/ People!Accept(w, u, t)
                 \/ \E role \in RoleNames \cup {People!None} : People!Invite(w, u, t, role)
                 \/ \E role \in RoleNames : People!AssignRole(w, u, t, role)
    PROVE  PeopleInv'
<1>1. CASE People!SignUp(w, u)
  <2>1. [op |-> "sign_up", pc |-> "user", u |-> u, t |-> 0, role |-> People!None]
           \in People!Request
    BY DEF People!Request
  <2> QED BY <1>1, <2>1, StepBegin DEF People!SignUp, AccessFits
<1>2. CASE People!CreateTenant(w, u)
  <2>1. [op |-> "create", pc |-> "slug", u |-> u, t |-> 0, role |-> People!None]
           \in People!Request
    BY DEF People!Request
  <2> QED BY <1>2, <2>1, StepBegin DEF People!CreateTenant, AccessFits
<1>3. ASSUME NEW t \in People!Tenants, People!Accept(w, u, t)
      PROVE  PeopleInv'
  <2>1. PICK role \in RoleNames \cup {People!None} : role = invitation[<<u, t>>].role
    BY DEF PeopleInv, People!TypeOK, People!Invitation
  <2>2. PICK q : q = [op |-> "accept", pc |-> "membership", u |-> u, t |-> t, role |-> role]
    OBVIOUS
  <2>3. q \in People!Request
    BY <2>2 DEF People!Request
  <2>4. invitation[<<u, t>>].status = "pending" /\ People!Begin(w, "accept", "membership", u, t, role)
    BY <1>3, <2>1 DEF People!Accept
  <2>5. AccessFits(q, owner, member, invitation)
    BY <2>1, <2>2, <2>4 DEF AccessFits, KeyOf
  <2> QED BY <2>2, <2>3, <2>4, <2>5, StepBegin
<1>4. ASSUME NEW t \in People!Tenants, NEW role \in RoleNames \cup {People!None},
             People!Invite(w, u, t, role)
      PROVE  PeopleInv'
  <2>1. PICK q : q = [op |-> "invite", pc |-> "pending", u |-> u, t |-> t, role |-> role]
    OBVIOUS
  <2>2. q \in People!Request /\ AccessFits(q, owner, member, invitation)
    BY <2>1 DEF People!Request, AccessFits
  <2> QED BY <1>4, <2>1, <2>2, StepBegin DEF People!Invite
<1>5. ASSUME NEW t \in People!Tenants, NEW role \in RoleNames, People!AssignRole(w, u, t, role)
      PROVE  PeopleInv'
  <2>1. PICK q : q = [op |-> "assign", pc |-> "role", u |-> u, t |-> t, role |-> role]
    OBVIOUS
  <2>2. q \in People!Request /\ AccessFits(q, owner, member, invitation)
    BY <2>1 DEF People!Request, AccessFits
  <2> QED BY <1>5, <2>1, <2>2, StepBegin DEF People!AssignRole
<1> QED BY <1>1, <1>2, <1>3, <1>4, <1>5

PeopleLabels == {"user", "slug", "tenant", "membership", "profile", "pending", "insert",
                 "accepted", "role"}

LEMMA GotoRequest ==
    ASSUME People!TypeOK, NEW w \in Workers, NEW label \in PeopleLabels, People!Goto(w, label)
    PROVE  \E q \in People!Request :
              /\ ac_req' = [ac_req EXCEPT ![w] = q]
              /\ q.pc = label /\ q.op = ac_req[w].op /\ q.u = ac_req[w].u
              /\ q.t = ac_req[w].t /\ q.role = ac_req[w].role
<1>t. ac_req \in [Workers -> People!Request] /\ ac_req[w] \in People!Request
  BY DEF People!TypeOK
<1>1. PICK q \in People!Request : q = [ac_req[w] EXCEPT !.pc = label]
  BY <1>t DEF People!Request, PeopleLabels
<1>2. ac_req' = [ac_req EXCEPT ![w] = q]
  BY <1>t, <1>1 DEF People!Goto
<1>3. /\ q.pc = label /\ q.op = ac_req[w].op /\ q.u = ac_req[w].u
      /\ q.t = ac_req[w].t /\ q.role = ac_req[w].role
  BY <1>t, <1>1 DEF People!Request
<1> QED BY <1>2, <1>3

LEMMA StepInsertUser ==
    ASSUME PeopleInv, "none" \notin Persons, NEW w \in Workers, People!InsertUser(w)
    PROVE  PeopleInv'
<1>t. People!TypeOK /\ AccessFits(ac_req[w], owner, member, invitation) /\ ac_aborts \in Nat
  BY DEF PeopleInv, People!TypeOK
<1>1. ac_req[w].pc = "user" /\ ac_req[w].u \in Persons /\ ac_req[w].op # "accept"
  BY <1>t DEF People!InsertUser, People!At, AccessFits
<1>2. /\ owner' = owner /\ member' = member /\ user_profile' = user_profile
      /\ invitation' = invitation /\ holds' = holds /\ ac_aborts' = ac_aborts
      /\ account' \subseteq Persons
  BY <1>t, <1>1 DEF People!InsertUser, People!TypeOK
<1>3. CASE People!Finish(w)
  BY <1>t, <1>1, <1>2, <1>3, IdlePerson, PeopleQuiet DEF People!Finish
<1>4. CASE People!Goto(w, "slug")
  <2>1. PICK q \in People!Request : /\ ac_req' = [ac_req EXCEPT ![w] = q]
                                    /\ q.pc = "slug" /\ q.u = ac_req[w].u
                                    /\ q.op = ac_req[w].op
    BY <1>t, <1>4, GotoRequest DEF PeopleLabels
  <2>2. AccessFits(q, owner, member, invitation)
    BY <1>1, <2>1 DEF AccessFits
  <2> QED BY <1>t, <1>1, <1>2, <2>1, <2>2, PeopleQuiet
<1> QED BY <1>3, <1>4 DEF People!InsertUser

LEMMA StepFindSlug ==
    ASSUME PeopleInv, "none" \notin Persons, NEW w \in Workers, People!FindSlug(w)
    PROVE  PeopleInv'
<1>t. /\ People!TypeOK /\ AccessFits(ac_req[w], owner, member, invitation) /\ ac_aborts \in Nat
      /\ ac_req \in [Workers -> People!Request] /\ ac_req[w] \in People!Request
      /\ account \subseteq Persons
  BY DEF PeopleInv, People!TypeOK
<1>1. ac_req[w].pc = "slug" /\ ac_req[w].u \in Persons /\ ac_req[w].op # "accept"
  BY <1>t DEF People!FindSlug, People!At, AccessFits
<1>2. /\ account' = account /\ owner' = owner /\ member' = member
      /\ user_profile' = user_profile /\ invitation' = invitation /\ holds' = holds
      /\ ac_aborts' = ac_aborts
  BY DEF People!FindSlug, People!tables
<1>3. CASE People!Finish(w)
  BY <1>t, <1>1, <1>2, <1>3, IdlePerson, PeopleQuiet DEF People!Finish
<1>4. ASSUME NEW t \in People!Tenants, ac_req' = [ac_req EXCEPT ![w].pc = "tenant", ![w].t = t]
      PROVE  PeopleInv'
  <2>1. PICK q \in People!Request : q = [ac_req[w] EXCEPT !.pc = "tenant", !.t = t]
    BY <1>t DEF People!Request
  <2>2. ac_req' = [ac_req EXCEPT ![w] = q]
    BY <1>t, <1>4, <2>1
  <2>3. q.pc = "tenant" /\ q.u = ac_req[w].u /\ q.t = t /\ q.op = ac_req[w].op
    BY <1>t, <2>1 DEF People!Request
  <2>4. AccessFits(q, owner, member, invitation)
    BY <1>1, <2>3 DEF AccessFits
  <2> QED BY <1>t, <1>1, <1>2, <2>2, <2>4, PeopleQuiet
<1> QED BY <1>3, <1>4, Zenon DEF People!FindSlug

LEMMA StepCheckPending ==
    ASSUME PeopleInv, "none" \notin Persons, NEW w \in Workers, People!CheckPending(w)
    PROVE  PeopleInv'
<1>t. /\ People!TypeOK /\ AccessFits(ac_req[w], owner, member, invitation) /\ ac_aborts \in Nat
      /\ account \subseteq Persons
  BY DEF PeopleInv, People!TypeOK
<1>1. ac_req[w].pc = "pending" /\ ac_req[w].u \in Persons /\ ac_req[w].t \in People!Tenants
  BY <1>t DEF People!CheckPending, People!At, AccessFits
<1>2. /\ account' = account /\ owner' = owner /\ member' = member
      /\ user_profile' = user_profile /\ invitation' = invitation /\ holds' = holds
      /\ ac_aborts' = ac_aborts
  BY DEF People!CheckPending, People!tables
<1>3. CASE People!Finish(w)
  BY <1>t, <1>1, <1>2, <1>3, IdlePerson, PeopleQuiet DEF People!Finish
<1>4. CASE People!Goto(w, "insert")
  <2>1. PICK q \in People!Request :
           /\ ac_req' = [ac_req EXCEPT ![w] = q]
           /\ q.pc = "insert" /\ q.u = ac_req[w].u /\ q.t = ac_req[w].t
    BY <1>t, <1>4, GotoRequest DEF PeopleLabels
  <2>2. AccessFits(q, owner, member, invitation)
    BY <1>1, <2>1 DEF AccessFits
  <2> QED BY <1>t, <1>1, <1>2, <2>1, <2>2, PeopleQuiet
<1> QED BY <1>3, <1>4 DEF People!CheckPending

LEMMA StepCrashPerson ==
    ASSUME PeopleInv, "none" \notin Persons, NEW w \in Workers, People!Crash(w)
    PROVE  PeopleInv'
<1>t. People!TypeOK /\ ac_aborts \in Nat /\ account \subseteq Persons
  BY DEF PeopleInv, People!TypeOK
<1>1. /\ account' = account /\ owner' = owner /\ member' = member
      /\ user_profile' = user_profile /\ invitation' = invitation /\ holds' = holds
      /\ ac_aborts' = ac_aborts + 1 /\ ac_req' = [ac_req EXCEPT ![w] = People!Idle]
  BY DEF People!Crash, People!Abort, People!Finish, People!tables
<1>2. ac_aborts' \in Nat /\ ac_aborts' # 0
  BY <1>t, <1>1
<1>3. People!Idle \in People!Request /\ AccessFits(People!Idle, owner, member, invitation)
  BY IdlePerson
<1> QED BY <1>t, <1>1, <1>2, <1>3, PeopleQuiet

LEMMA StepInsertTenant ==
    ASSUME PeopleInv, "none" \notin Persons, NEW w \in Workers, People!InsertTenant(w)
    PROVE  PeopleInv'
<1> DEFINE u == ac_req[w].u
           t == ac_req[w].t
<1>t. /\ People!TypeOK /\ AccessFits(ac_req[w], owner, member, invitation) /\ ac_aborts \in Nat
      /\ account \subseteq Persons /\ owner \in [People!Tenants -> Persons \cup {People!None}]
  BY DEF PeopleInv, People!TypeOK
<1>1. /\ ac_req[w].pc = "tenant" /\ u \in Persons /\ t \in People!Tenants
      /\ ac_req[w].op # "accept"
  BY <1>t DEF People!InsertTenant, People!At, AccessFits
<1>2. /\ account' = account /\ member' = member /\ user_profile' = user_profile
      /\ invitation' = invitation /\ holds' = holds
  BY DEF People!InsertTenant
<1>3. CASE owner[t] # "none"
  <2>1. /\ ac_req' = [ac_req EXCEPT ![w] = People!Idle]
        /\ owner' = owner /\ ac_aborts' = ac_aborts + 1
    BY <1>3 DEF People!InsertTenant, People!None, People!Abort, People!Finish
  <2>2. ac_aborts' \in Nat /\ ac_aborts' # 0
    BY <1>t, <2>1
  <2>3. People!Idle \in People!Request /\ AccessFits(People!Idle, owner, member, invitation)
    BY IdlePerson
  <2> QED BY <1>t, <1>2, <2>1, <2>2, <2>3, PeopleQuiet
<1>4. CASE owner[t] = "none"
  <2>1. /\ owner' = [owner EXCEPT ![t] = u] /\ People!Goto(w, "membership")
        /\ ac_aborts' = ac_aborts
    BY <1>4 DEF People!InsertTenant, People!None
  <2>2. /\ owner'[t] = u /\ \A s \in People!Tenants \ {t} : owner'[s] = owner[s]
        /\ owner' \in [People!Tenants -> Persons \cup {People!None}]
    BY <1>t, <1>1, <2>1
  <2>3. PICK q \in People!Request :
           /\ ac_req' = [ac_req EXCEPT ![w] = q]
           /\ q.pc = "membership" /\ q.u = u /\ q.t = t /\ q.op = ac_req[w].op
    BY <1>t, <2>1, GotoRequest DEF PeopleLabels
  <2>4. Grows
    BY <1>2, <1>4, <2>2 DEF Grows
  <2>5. People!TypeOK'
    BY <1>t, <1>2, <2>1, <2>2, <2>3, PeopleTypes DEF People!TypeOK
  <2>6. AccessFits(q, owner', member', invitation')
    BY <1>1, <2>2, <2>3 DEF AccessFits
  <2> QED BY <1>1, <1>2, <2>1, <2>2, <2>3, <2>4, <2>5, <2>6, PeopleStep DEF Does
<1> QED BY <1>3, <1>4

\* Where a request goes from its membership.
LEMMA AfterMembershipFits ==
    ASSUME PeopleInv, NEW w \in Workers, ac_req[w].pc \in {"membership", "profile"},
           People!AfterMembership(w)
    PROVE  \E q \in People!Request :
              /\ ac_req' = [ac_req EXCEPT ![w] = q]
              /\ \A members : KeyOf(ac_req[w]) \in members =>
                    AccessFits(q, owner, members, invitation)
<1>t. People!TypeOK /\ AccessFits(ac_req[w], owner, member, invitation)
  BY DEF PeopleInv
<1>1. CASE ac_req[w].op = "accept"
  <2>1. PICK q \in People!Request :
           /\ ac_req' = [ac_req EXCEPT ![w] = q]
           /\ q.pc = "accepted" /\ q.op = ac_req[w].op /\ q.u = ac_req[w].u
           /\ q.t = ac_req[w].t /\ q.role = ac_req[w].role
    BY <1>t, <1>1, GotoRequest DEF People!AfterMembership, PeopleLabels
  <2>2. ASSUME NEW members, KeyOf(ac_req[w]) \in members
        PROVE  AccessFits(q, owner, members, invitation)
    BY <1>t, <1>1, <2>1, <2>2 DEF AccessFits, KeyOf
  <2> QED BY <2>1, <2>2
<1>2. CASE ac_req[w].op # "accept"
  BY <1>2, IdlePerson DEF People!AfterMembership, People!Finish
<1> QED BY <1>1, <1>2

LEMMA StepInsertMembership ==
    ASSUME PeopleInv, "none" \notin Persons, NEW w \in Workers, People!InsertMembership(w)
    PROVE  PeopleInv'
<1> DEFINE k == KeyOf(ac_req[w])
<1>t. /\ People!TypeOK /\ AccessFits(ac_req[w], owner, member, invitation)
      /\ member \subseteq Persons \X People!Tenants /\ ac_aborts \in Nat
  BY DEF PeopleInv, People!TypeOK
<1>1. /\ ac_req[w].pc = "membership" /\ ac_req[w].u \in Persons /\ ac_req[w].t \in People!Tenants
      /\ k \in Persons \X People!Tenants
  BY <1>t DEF People!InsertMembership, People!At, AccessFits, KeyOf
<1>2. /\ account' = account /\ owner' = owner /\ user_profile' = user_profile
      /\ invitation' = invitation /\ holds' = holds /\ ac_aborts' = ac_aborts
      /\ member' = member \cup {k} /\ k \in member'
  BY DEF People!InsertMembership, People!Key, KeyOf
<1>3. PICK q \in People!Request :
         /\ ac_req' = [ac_req EXCEPT ![w] = q]
         /\ AccessFits(q, owner, member', invitation)
         /\ k \notin member => Does(q, "profile", ac_req[w].u, ac_req[w].t)
  <2>1. CASE k \in member
    BY <1>1, <1>2, <2>1, AfterMembershipFits DEF People!InsertMembership, People!Key, KeyOf
  <2>2. CASE k \notin member
    <3>1. People!Goto(w, "profile")
      BY <2>2 DEF People!InsertMembership, People!Key, KeyOf
    <3>2. PICK q \in People!Request :
             /\ ac_req' = [ac_req EXCEPT ![w] = q]
             /\ q.pc = "profile" /\ q.op = ac_req[w].op /\ q.u = ac_req[w].u
             /\ q.t = ac_req[w].t /\ q.role = ac_req[w].role
      BY <1>t, <3>1, GotoRequest DEF PeopleLabels
    <3>3. AccessFits(q, owner, member', invitation)
      BY <1>t, <1>1, <1>2, <3>2 DEF AccessFits, KeyOf
    <3> QED BY <3>2, <3>3 DEF Does
  <2> QED BY <2>1, <2>2
<1>4. Grows
  BY <1>2 DEF Grows
<1>5. People!TypeOK'
  <2>1. member' \subseteq Persons \X People!Tenants
    BY <1>t, <1>1, <1>2
  <2> QED BY <1>t, <1>2, <1>3, <2>1, PeopleTypes DEF People!TypeOK
<1>6. \A x \in member' \ member : owner'[x[2]] = x[1] \/ invitation'[x].status # "none"
  <2>1. owner[k[2]] = k[1] \/ invitation[k].status # "none"
    BY <1>t, <1>1 DEF AccessFits, KeyOf
  <2> QED BY <1>2, <2>1
<1>7. \A u \in Persons : \A t \in People!Tenants :
         <<u, t>> \in member' \ member => Does(q, "profile", u, t)
  BY <1>2, <1>3 DEF KeyOf
<1> HIDE DEF k
<1>8. ac_req[w].pc = "membership" => KeyOf(ac_req[w]) \in member'
  BY <1>2 DEF k
<1> QED BY <1>1, <1>2, <1>3, <1>4, <1>5, <1>6, <1>7, <1>8, PeopleStep

LEMMA StepCreateProfile ==
    ASSUME PeopleInv, "none" \notin Persons, NEW w \in Workers, People!CreateProfile(w)
    PROVE  PeopleInv'
<1> DEFINE k == KeyOf(ac_req[w])
<1>t. /\ People!TypeOK /\ AccessFits(ac_req[w], owner, member, invitation)
      /\ user_profile \subseteq Persons \X People!Tenants
  BY DEF PeopleInv, People!TypeOK
<1>1. ac_req[w].pc = "profile" /\ k \in Persons \X People!Tenants /\ k \in member
  BY <1>t DEF People!CreateProfile, People!At, AccessFits, KeyOf
<1>2. /\ account' = account /\ owner' = owner /\ member' = member
      /\ invitation' = invitation /\ holds' = holds /\ ac_aborts' = ac_aborts
      /\ user_profile' = user_profile \cup {k} /\ k \in user_profile'
  BY DEF People!CreateProfile, People!Key, KeyOf
<1>3. PICK q \in People!Request : /\ ac_req' = [ac_req EXCEPT ![w] = q]
                                  /\ AccessFits(q, owner, member, invitation)
  BY <1>1, AfterMembershipFits DEF People!CreateProfile
<1>4. Grows
  BY <1>2 DEF Grows
<1>5. People!TypeOK'
  <2>1. user_profile' \subseteq Persons \X People!Tenants
    BY <1>t, <1>1, <1>2
  <2> QED BY <1>t, <1>2, <1>3, <2>1, PeopleTypes DEF People!TypeOK
<1>6. AccessFits(q, owner', member', invitation') /\ KeyOf(ac_req[w]) \in user_profile'
  BY <1>2, <1>3
<1> QED BY <1>1, <1>2, <1>3, <1>4, <1>5, <1>6, PeopleStep

LEMMA StepGrantRole ==
    ASSUME PeopleInv, "none" \notin Persons, NEW w \in Workers, People!GrantRole(w)
    PROVE  PeopleInv'
<1> DEFINE x == <<ac_req[w].u, ac_req[w].t, ac_req[w].role>>
<1>t. /\ People!TypeOK /\ AccessFits(ac_req[w], owner, member, invitation)
      /\ holds \subseteq Persons \X People!Tenants \X RoleNames
  BY DEF PeopleInv, People!TypeOK
<1>1. ac_req[w].pc = "role" /\ x \in Persons \X People!Tenants \X RoleNames
  BY <1>t DEF People!GrantRole, People!At, AccessFits
<1>2. /\ account' = account /\ owner' = owner /\ member' = member
      /\ invitation' = invitation /\ user_profile' = user_profile /\ ac_aborts' = ac_aborts
      /\ holds' = holds \cup {x} /\ x \in holds'
      /\ ac_req' = [ac_req EXCEPT ![w] = People!Idle]
  BY DEF People!GrantRole, People!Finish
<1>3. Grows
  BY <1>2 DEF Grows
<1>4. People!Idle \in People!Request /\ AccessFits(People!Idle, owner', member', invitation')
  BY IdlePerson
<1>5. People!TypeOK'
  <2>1. holds' \subseteq Persons \X People!Tenants \X RoleNames
    BY <1>t, <1>1, <1>2
  <2> QED BY <1>t, <1>2, <1>4, <2>1, PeopleTypes DEF People!TypeOK
<1> QED BY <1>1, <1>2, <1>3, <1>4, <1>5, PeopleStep

LEMMA StepInsertInvitation ==
    ASSUME PeopleInv, "none" \notin Persons, NEW w \in Workers, People!InsertInvitation(w)
    PROVE  PeopleInv'
<1> DEFINE k == KeyOf(ac_req[w])
<1>t. /\ People!TypeOK /\ AccessFits(ac_req[w], owner, member, invitation)
      /\ invitation \in [Persons \X People!Tenants -> People!Invitation]
      /\ ac_req[w] \in People!Request
  BY DEF PeopleInv, People!TypeOK
<1>1. ac_req[w].pc = "insert" /\ k \in Persons \X People!Tenants
  BY <1>t DEF People!InsertInvitation, People!At, AccessFits, KeyOf
<1>2. /\ account' = account /\ owner' = owner /\ member' = member /\ holds' = holds
      /\ user_profile' = user_profile /\ ac_aborts' = ac_aborts
      /\ ac_req' = [ac_req EXCEPT ![w] = People!Idle]
  BY DEF People!InsertInvitation, People!Finish
<1>3. PICK row \in People!Invitation : row = [status |-> "pending", role |-> ac_req[w].role]
  BY <1>t DEF People!Invitation, People!Request
<1>4. invitation' = IF invitation[k].status = "none" THEN [invitation EXCEPT ![k] = row]
                    ELSE invitation
  BY <1>3 DEF People!InsertInvitation, People!Key, KeyOf, People!None
<1>5. /\ invitation' \in [Persons \X People!Tenants -> People!Invitation]
      /\ \A x \in Persons \X People!Tenants :
            \/ invitation'[x] = invitation[x]
            \/ invitation[x].status = "none" /\ invitation'[x].status = "pending"
  BY <1>t, <1>1, <1>3, <1>4
<1>6. Grows
  BY <1>2, <1>5 DEF Grows
<1>7. People!Idle \in People!Request /\ AccessFits(People!Idle, owner', member', invitation')
  BY IdlePerson
<1>8. People!TypeOK'
  BY <1>t, <1>2, <1>5, <1>7, PeopleTypes DEF People!TypeOK
<1>9. \A u \in Persons : \A t \in People!Tenants :
         invitation'[<<u, t>>].status = "accepted" => invitation[<<u, t>>].status = "accepted"
  BY <1>5
<1> QED BY <1>1, <1>2, <1>5, <1>6, <1>7, <1>8, <1>9, PeopleStep

LEMMA StepSaveAccepted ==
    ASSUME PeopleInv, "none" \notin Persons, NEW w \in Workers, People!SaveAccepted(w)
    PROVE  PeopleInv'
<1> DEFINE k == KeyOf(ac_req[w])
<1>t. /\ People!TypeOK /\ AccessFits(ac_req[w], owner, member, invitation)
      /\ invitation \in [Persons \X People!Tenants -> People!Invitation]
      /\ ac_req[w] \in People!Request
  BY DEF PeopleInv, People!TypeOK
<1>1. /\ ac_req[w].pc = "accepted" /\ k \in Persons \X People!Tenants /\ k \in member
      /\ invitation[k].status # "none" /\ invitation[k].role = ac_req[w].role
      /\ ac_req[w].u \in Persons /\ ac_req[w].t \in People!Tenants
  BY <1>t DEF People!SaveAccepted, People!At, AccessFits, KeyOf
<1>2. /\ account' = account /\ owner' = owner /\ member' = member /\ holds' = holds
      /\ user_profile' = user_profile /\ ac_aborts' = ac_aborts
  BY DEF People!SaveAccepted
<1>3. PICK row \in People!Invitation : row = [invitation[k] EXCEPT !.status = "accepted"]
  BY <1>t, <1>1 DEF People!Invitation
<1>4. row.status = "accepted" /\ row.role = invitation[k].role
  BY <1>t, <1>1, <1>3 DEF People!Invitation
<1>5. invitation' = [invitation EXCEPT ![k] = row]
  BY <1>t, <1>1, <1>3 DEF People!SaveAccepted, People!Key, KeyOf
<1>6. /\ invitation' \in [Persons \X People!Tenants -> People!Invitation]
      /\ invitation'[k] = row
      /\ \A x \in (Persons \X People!Tenants) \ {k} : invitation'[x] = invitation[x]
  BY <1>t, <1>1, <1>5
<1>7. Grows
  BY <1>1, <1>2, <1>4, <1>6 DEF Grows
<1>8. PICK q \in People!Request :
         /\ ac_req' = [ac_req EXCEPT ![w] = q]
         /\ AccessFits(q, owner', member', invitation')
         /\ ac_req[w].role # "none" =>
               Does(q, "role", ac_req[w].u, ac_req[w].t) /\ q.role = ac_req[w].role
  <2>1. CASE ac_req[w].role = "none"
    BY <2>1, IdlePerson DEF People!SaveAccepted, People!Finish, People!None
  <2>2. CASE ac_req[w].role # "none"
    <3>1. People!Goto(w, "role")
      BY <2>2 DEF People!SaveAccepted, People!None
    <3>2. PICK q \in People!Request :
             /\ ac_req' = [ac_req EXCEPT ![w] = q]
             /\ q.pc = "role" /\ q.op = ac_req[w].op /\ q.u = ac_req[w].u
             /\ q.t = ac_req[w].t /\ q.role = ac_req[w].role
      BY <1>t, <3>1, GotoRequest DEF PeopleLabels
    <3>3. q.role \in RoleNames
      BY <1>t, <2>2, <3>2 DEF People!Request, People!None
    <3>4. AccessFits(q, owner', member', invitation')
      BY <1>1, <3>2, <3>3 DEF AccessFits
    <3> QED BY <3>2, <3>4 DEF Does
  <2> QED BY <2>1, <2>2
<1>9. People!TypeOK'
  BY <1>t, <1>2, <1>6, <1>8, PeopleTypes DEF People!TypeOK
<1>10. \A x \in Persons \X People!Tenants : invitation'[x].status = "accepted" =>
          invitation[x].status = "accepted" \/ x \in member'
  BY <1>1, <1>2, <1>6
<1>11. ASSUME NEW u \in Persons, NEW t \in People!Tenants,
              invitation'[<<u, t>>].status = "accepted",
              invitation[<<u, t>>].status # "accepted", invitation'[<<u, t>>].role # "none"
       PROVE  Does(q, "role", u, t) /\ q.role = invitation'[<<u, t>>].role
  <2>1. <<u, t>> = k
    BY <1>6, <1>11
  <2>2. u = ac_req[w].u /\ t = ac_req[w].t
    BY <2>1 DEF KeyOf
  <2> QED BY <1>1, <1>4, <1>6, <1>8, <1>11, <2>1, <2>2
<1> QED BY <1>1, <1>2, <1>7, <1>8, <1>9, <1>10, <1>11, PeopleStep

LEMMA UnderwayStays ==
    ASSUME Underway, owner' = owner, member' = member, user_profile' = user_profile,
           holds' = holds, ac_req' = ac_req,
           \A x \in Persons \X People!Tenants : invitation'[x].status = "accepted" =>
              invitation'[x] = invitation[x]
    PROVE  Underway'
<1>1. ASSUME NEW u \in Persons, NEW t \in People!Tenants
      PROVE  /\ /\ invitation'[<<u, t>>].status = "accepted"
                /\ invitation'[<<u, t>>].role # "none"
                => \/ <<u, t, invitation'[<<u, t>>].role>> \in holds'
                   \/ \E w \in Workers : /\ Does(ac_req'[w], "role", u, t)
                                         /\ ac_req'[w].role = invitation'[<<u, t>>].role
             /\ <<u, t>> \in member' =>
                   \/ <<u, t>> \in user_profile'
                   \/ \E w \in Workers : Does(ac_req'[w], "profile", u, t)
             /\ owner'[t] = u =>
                   \/ <<u, t>> \in member'
                   \/ \E w \in Workers : Does(ac_req'[w], "membership", u, t)
  BY DEF Underway
<1> QED BY <1>1, Zenon DEF Underway, Does

LEMMA StepExpire ==
    ASSUME PeopleInv, "none" \notin Persons, NEW u \in Persons, NEW t \in People!Tenants,
           People!Expire(u, t)
    PROVE  PeopleInv'
<1>t. /\ People!TypeOK /\ invitation \in [Persons \X People!Tenants -> People!Invitation]
      /\ <<u, t>> \in Persons \X People!Tenants
  BY DEF PeopleInv, People!TypeOK
<1>1. /\ account' = account /\ owner' = owner /\ member' = member /\ holds' = holds
      /\ user_profile' = user_profile /\ ac_aborts' = ac_aborts /\ ac_req' = ac_req
      /\ invitation[<<u, t>>].status = "pending"
      /\ invitation' = [invitation EXCEPT ![<<u, t>>].status = "expired"]
  BY DEF People!Expire
<1>2. PICK row \in People!Invitation : row = [invitation[<<u, t>>] EXCEPT !.status = "expired"]
  BY <1>t DEF People!Invitation
<1>3. row.status = "expired" /\ row.role = invitation[<<u, t>>].role
  BY <1>t, <1>2 DEF People!Invitation
<1>4. /\ invitation' \in [Persons \X People!Tenants -> People!Invitation]
      /\ invitation'[<<u, t>>] = row
      /\ \A x \in (Persons \X People!Tenants) \ {<<u, t>>} : invitation'[x] = invitation[x]
  BY <1>t, <1>1, <1>2
<1>5. Grows
  BY <1>1, <1>3, <1>4 DEF Grows
<1>6. People!TypeOK'
  BY <1>t, <1>1, <1>4 DEF People!TypeOK
<1>7. \A x \in Persons \X People!Tenants : invitation'[x].status = "accepted" =>
         invitation'[x] = invitation[x]
  BY <1>3, <1>4
<1>8. People!MembersWereInvited'
  <2> SUFFICES ASSUME NEW x \in member
               PROVE  owner'[x[2]] = x[1] \/ invitation'[x].status # "none"
    BY <1>1 DEF People!MembersWereInvited, People!None
  <2>1. x \in Persons \X People!Tenants
    BY <1>t DEF People!TypeOK
  <2>2. owner[x[2]] = x[1] \/ invitation[x].status # "none"
    BY DEF PeopleInv, People!MembersWereInvited, People!None
  <2> QED BY <1>1, <1>5, <2>1, <2>2 DEF Grows
<1>9. AcceptedAreMembers'
  <2> SUFFICES ASSUME NEW y \in Persons, NEW s \in People!Tenants,
                      invitation'[<<y, s>>].status = "accepted"
               PROVE  <<y, s>> \in member'
    BY DEF AcceptedAreMembers
  <2>1. invitation[<<y, s>>].status = "accepted"
    BY <1>7
  <2> QED BY <1>1, <2>1 DEF PeopleInv, AcceptedAreMembers
<1>10. ac_aborts' = 0 => Underway'
  <2>1. ac_aborts' = 0 => Underway
    BY <1>1 DEF PeopleInv
  <2>2. Underway => Underway'
    BY <1>1, <1>7, UnderwayStays
  <2> QED BY <2>1, <2>2
<1>11. \A w \in Workers : AccessFits(ac_req'[w], owner', member', invitation')
  BY <1>1, <1>5, AccessStays DEF PeopleInv
<1> QED BY <1>6, <1>8, <1>9, <1>10, <1>11 DEF PeopleInv

LEMMA PeopleStart ==
    ASSUME People!Init, "none" \notin Persons
    PROVE  PeopleInv
<1>1. /\ account = {} /\ member = {} /\ user_profile = {} /\ holds = {} /\ ac_aborts = 0
      /\ owner = [t \in People!Tenants |-> "none"]
      /\ invitation = [x \in Persons \X People!Tenants |-> People!NoInvitation]
      /\ ac_req = [w \in Workers |-> People!Idle]
  BY DEF People!Init, People!None
<1>2. People!NoInvitation \in People!Invitation /\ People!NoInvitation.status = "none"
  BY DEF People!NoInvitation, People!Invitation, People!None
<1>3. People!TypeOK
  <2>1. ac_req \in [Workers -> People!Request]
    BY <1>1, IdlePerson
  <2>2. /\ owner \in [People!Tenants -> Persons \cup {People!None}]
        /\ invitation \in [Persons \X People!Tenants -> People!Invitation]
    BY <1>1, <1>2 DEF People!None
  <2> QED BY <1>1, <2>1, <2>2 DEF People!TypeOK
<1>4. \A u \in Persons : \A t \in People!Tenants :
         invitation[<<u, t>>].status = "none" /\ owner[t] # u
  BY <1>1, <1>2
<1>5. People!MembersWereInvited /\ AcceptedAreMembers /\ Underway
  BY <1>1, <1>4 DEF People!MembersWereInvited, AcceptedAreMembers, Underway
<1>6. ASSUME NEW w \in Workers
      PROVE  AccessFits(ac_req[w], owner, member, invitation)
  <2>1. ac_req[w] = People!Idle
    BY <1>1
  <2> QED BY <2>1, IdlePerson
<1> QED BY <1>3, <1>5, <1>6 DEF PeopleInv

LEMMA PeopleInvHolds ==
    ASSUME "none" \notin Persons
    PROVE  People!Spec => []PeopleInv
<1>1. PeopleInv /\ [People!Next]_(People!vars) => PeopleInv'
  <2> SUFFICES ASSUME PeopleInv, [People!Next]_(People!vars)
               PROVE  PeopleInv'
    OBVIOUS
  <2>1. CASE UNCHANGED People!vars
    <3>1. /\ account' = account /\ owner' = owner /\ member' = member /\ holds' = holds
          /\ user_profile' = user_profile /\ invitation' = invitation
          /\ ac_aborts' = ac_aborts /\ ac_req' = ac_req
      BY <2>1 DEF People!vars, People!tables
    <3>2. People!TypeOK'
      BY <3>1 DEF PeopleInv, People!TypeOK
    <3>3. People!MembersWereInvited' /\ AcceptedAreMembers'
      BY <3>1 DEF PeopleInv, People!MembersWereInvited, AcceptedAreMembers
    <3>4. ac_aborts' = 0 => Underway'
      <4>1. ac_aborts' = 0 => Underway
        BY <3>1 DEF PeopleInv
      <4>2. Underway => Underway'
        BY <3>1, UnderwayStays
      <4> QED BY <4>1, <4>2
    <3> QED BY <3>1, <3>2, <3>3, <3>4 DEF PeopleInv
  <2>2. ASSUME NEW u \in Persons, NEW t \in People!Tenants, People!Expire(u, t)
        PROVE  PeopleInv'
    BY <2>2, StepExpire
  <2>3. ASSUME NEW w \in Workers, NEW u \in Persons,
               \/ People!SignUp(w, u) \/ People!CreateTenant(w, u)
               \/ \E t \in People!Tenants :
                     \/ People!Accept(w, u, t)
                     \/ \E role \in RoleNames \cup {People!None} : People!Invite(w, u, t, role)
                     \/ \E role \in RoleNames : People!AssignRole(w, u, t, role)
        PROVE  PeopleInv'
    BY <2>3, StepsBegin
  <2>4. ASSUME NEW w \in Workers, People!Continue(w) \/ People!Crash(w)
        PROVE  PeopleInv'
    BY <2>4, StepInsertUser, StepFindSlug, StepInsertTenant, StepInsertMembership,
       StepCreateProfile, StepCheckPending, StepInsertInvitation, StepSaveAccepted,
       StepGrantRole, StepCrashPerson DEF People!Continue
  <2> QED BY <2>1, <2>2, <2>3, <2>4 DEF People!Next
<1>2. People!Init => PeopleInv
  BY PeopleStart
<1> QED BY <1>1, <1>2, PTL DEF People!Spec

\* What is underway has a request for the same person and organization.
LEMMA PeopleInvImplies == PeopleInv => People!AccessIsComplete
<1> SUFFICES ASSUME PeopleInv, NEW u \in Persons, NEW t \in People!Tenants
             PROVE  /\ invitation[<<u, t>>].status = "accepted" => <<u, t>> \in member
                    /\ ac_aborts = 0 /\ People!For(u, t) = {} =>
                          /\ /\ invitation[<<u, t>>].status = "accepted"
                             /\ invitation[<<u, t>>].role # "none"
                             => <<u, t, invitation[<<u, t>>].role>> \in holds
                          /\ <<u, t>> \in member => <<u, t>> \in user_profile
                          /\ owner[t] = u => <<u, t>> \in member
  BY Zenon DEF PeopleInv, People!AccessIsComplete, People!InvitationsAreKept, People!None
<1>1. invitation[<<u, t>>].status = "accepted" => <<u, t>> \in member
  BY DEF PeopleInv, AcceptedAreMembers
<1>2. ASSUME ac_aborts = 0, People!For(u, t) = {}
      PROVE  /\ /\ invitation[<<u, t>>].status = "accepted"
                /\ invitation[<<u, t>>].role # "none"
                => <<u, t, invitation[<<u, t>>].role>> \in holds
             /\ <<u, t>> \in member => <<u, t>> \in user_profile
             /\ owner[t] = u => <<u, t>> \in member
  <2>1. \A w \in Workers : \A label : ~Does(ac_req[w], label, u, t)
    BY <1>2 DEF People!For, Does
  <2>2. Underway
    BY <1>2 DEF PeopleInv
  <2> QED BY <2>1, <2>2 DEF Underway
<1> QED BY <1>1, <1>2

\* Sign-up, tenant_create, user_invite, accept_invitation and role_assign: nobody becomes a
\* member who neither owns the organization nor was invited, and an invitation that was
\* accepted has made its membership and, unless a request died half-way, the profile and
\* the role that go with it.
THEOREM AccessStaysComplete ==
    ASSUME "none" \notin Persons
    PROVE  Operations => []AccessIsComplete
<1>1. PeopleInv => AccessIsComplete
  BY PeopleInvImplies DEF AccessIsComplete
<1> QED BY <1>1, PeopleBehave, PeopleInvHolds, PTL

-----------------------------------------------------------------------------
(* Fixed assets: the schedule.  The loop computes equal months and a last one that *)
(* takes what is left, which the rounding may have made less than nothing.         *)

\* What the loop that generates a schedule computes, and that in closed form.
Accumulates(f, cost, life) ==
    f = [k \in 0..life |->
            IF k = 0 THEN 0
            ELSE f[k - 1] + (IF k = life THEN cost - f[k - 1] ELSE Register!Monthly(cost, life))]
Accumulated(cost, life) ==
    [k \in 0..life |-> IF k = life THEN cost ELSE k * Register!Monthly(cost, life)]

LEMMA MonthlyBound ==
    ASSUME NEW cost \in Nat \ {0}, NEW life \in Nat \ {0}
    PROVE  /\ Register!Monthly(cost, life) \in Nat
           /\ 2 * (life * Register!Monthly(cost, life)) <= 2 * cost + life
<1>1. PICK a \in Nat, b \in Nat : a = 2 * cost + life /\ b = 2 * life /\ b > 0
  OBVIOUS
<1>2. a \div b \in Nat /\ b * (a \div b) <= a
  BY <1>1
<1>3. PICK m \in Nat : m = a \div b /\ b * m <= a /\ m = Register!Monthly(cost, life)
  BY <1>1, <1>2 DEF Register!Monthly
<1>4. b * m = 2 * (life * m)
  BY <1>1
<1> QED BY <1>1, <1>3, <1>4

LEMMA MonthsAdd ==
    ASSUME NEW m \in Nat, NEW k \in Nat
    PROVE  /\ k * m \in Nat /\ (k + 1) * m = k * m + m
           /\ 0 * m = 0
  OBVIOUS

\* The loop computes the closed form, for it has one solution.
LEMMA LoopIsClosed ==
    ASSUME NEW cost \in Nat \ {0}, NEW life \in Nat \ {0}, NEW f, Accumulates(f, cost, life)
    PROVE  \A k \in 0..life : f[k] = IF k = life THEN cost ELSE k * Register!Monthly(cost, life)
<1>1. PICK m \in Nat : m = Register!Monthly(cost, life)
  BY MonthlyBound
<1>2. \A k \in 0..life :
         f[k] = IF k = 0 THEN 0 ELSE f[k - 1] + (IF k = life THEN cost - f[k - 1] ELSE m)
  BY <1>1 DEF Accumulates
<1> DEFINE Bad == {k \in 0..life : k # life /\ f[k] # k * m}
<1>3. Bad = {}
  <2>1. SUFFICES ASSUME Bad # {} PROVE FALSE
    OBVIOUS
  <2>2. PICK n \in Bad : \A k \in Bad : n <= k
    <3>1. Bad \in SUBSET Nat
      OBVIOUS
    <3> HIDE DEF Bad
    <3> QED BY <3>1, <2>1, Least
  <2>3. n \in 0..life /\ n # life /\ f[n] # n * m
    OBVIOUS
  <2>4. n # 0
    BY <2>3, <1>2, MonthsAdd
  <2>5. n - 1 \in 0..life /\ n - 1 # life /\ n - 1 \in Nat
    BY <2>3, <2>4
  <2>6. n - 1 \notin Bad
    <3>1. ~(n <= n - 1)
      BY <2>3
    <3> HIDE DEF Bad
    <3> QED BY <2>2, <3>1
  <2>7. f[n - 1] = (n - 1) * m
    BY <2>5, <2>6
  <2>8. f[n] = f[n - 1] + m
    BY <1>2, <2>3, <2>4
  <2>9. ((n - 1) + 1) * m = (n - 1) * m + m /\ (n - 1) + 1 = n
    BY <2>3, <2>5, MonthsAdd
  <2> QED BY <2>3, <2>7, <2>8, <2>9
<1>4. ASSUME NEW k \in 0..life, k # life PROVE f[k] = k * m /\ f[k] \in Nat
  <2>1. f[k] = k * m
    BY <1>3, <1>4
  <2> QED BY <2>1, MonthsAdd
<1>5. f[life] = cost
  <2>1. f[life] = f[life - 1] + (cost - f[life - 1])
    BY <1>2
  <2>2. f[life - 1] \in Nat
    BY <1>4
  <2> QED BY <2>1, <2>2
<1> QED BY <1>1, <1>4, <1>5

\* The closed form is a solution.
LEMMA ClosedIsLoop ==
    ASSUME NEW cost \in Nat \ {0}, NEW life \in Nat \ {0}
    PROVE  Accumulates(Accumulated(cost, life), cost, life)
<1>1. PICK m \in Nat : m = Register!Monthly(cost, life)
  BY MonthlyBound
<1> DEFINE f == Accumulated(cost, life)
<1>2. f = [k \in 0..life |-> IF k = life THEN cost ELSE k * m]
  BY <1>1 DEF Accumulated
<1> HIDE DEF f
<1>3. ASSUME NEW k \in 0..life
      PROVE  f[k] = IF k = 0 THEN 0
                    ELSE f[k - 1] + (IF k = life THEN cost - f[k - 1] ELSE m)
  <2>1. CASE k = 0
    BY <2>1, <1>2, MonthsAdd
  <2>2. CASE k # 0
    <3>1. k - 1 \in 0..life /\ k - 1 # life /\ k - 1 \in Nat
      BY <2>2
    <3>2. f[k - 1] = (k - 1) * m /\ f[k - 1] \in Nat
      BY <3>1, <1>2, MonthsAdd
    <3>3. CASE k = life
      BY <3>2, <3>3, <2>2, <1>2
    <3>4. CASE k # life
      <4>1. ((k - 1) + 1) * m = (k - 1) * m + m /\ (k - 1) + 1 = k
        BY <3>1, MonthsAdd
      <4>2. f[k] = k * m
        BY <3>4, <1>2
      <4> QED BY <4>1, <4>2, <3>2, <3>4, <2>2
    <3> QED BY <3>3, <3>4
  <2> QED BY <2>1, <2>2
<1>4. f = [k \in 0..life |-> f[k]]
  BY <1>2
<1>5. f = [k \in 0..life |-> IF k = 0 THEN 0
                            ELSE f[k - 1] + (IF k = life THEN cost - f[k - 1] ELSE m)]
  BY <1>3, <1>4
<1> QED BY <1>1, <1>5 DEF Accumulates, f

\* The rows of a schedule.
LEMMA ScheduleRows ==
    ASSUME NEW cost \in Nat \ {0}, NEW life \in Nat \ {0}
    PROVE  Register!Schedule(cost, life) =
              [k \in 1..life |-> [acc |-> Accumulated(cost, life)[k],
                                  left |-> cost - Accumulated(cost, life)[k]]]
<1> DEFINE f == CHOOSE f : Accumulates(f, cost, life)
<1>1. Register!Schedule(cost, life) = [k \in 1..life |-> [acc |-> f[k], left |-> cost - f[k]]]
  BY Zenon DEF Register!Schedule, Accumulates
<1>2. Accumulates(f, cost, life)
  BY ClosedIsLoop
<1> HIDE DEF f
<1>3. \A k \in 1..life : f[k] = Accumulated(cost, life)[k]
  <2>1. \A k \in 0..life : f[k] = IF k = life THEN cost ELSE k * Register!Monthly(cost, life)
    BY <1>2, LoopIsClosed
  <2> QED BY <2>1 DEF Accumulated
<1> QED BY <1>1, <1>3

-----------------------------------------------------------------------------
\* The equal months take at most half a cent a month more than there is.
LEMMA MonthsLeave ==
    ASSUME NEW cost \in Nat \ {0}, NEW life \in Nat \ {0}
    PROVE  2 * ((life - 1) * Register!Monthly(cost, life) - cost) <= life
<1>1. PICK m \in Nat : m = Register!Monthly(cost, life) /\ 2 * (life * m) <= 2 * cost + life
  BY MonthlyBound
<1>2. PICK r \in Nat : r = life - 1
  OBVIOUS
<1>3. PICK p \in Nat : p = r * m
  BY <1>2, MonthsAdd
<1>4. life * m = p + m
  BY <1>2, <1>3, MonthsAdd
<1> QED BY <1>1, <1>2, <1>3, <1>4

\* What costs and lives are, and what the other constants.
RegisterConstants ==
    /\ Costs \subseteq Nat \ {0} /\ Lives \subseteq Nat \ {0}
    /\ "nowhere" \notin RegisterAssets

\* A schedule as it is generated for some asset.
Generated(rows) == \E cost \in Costs, life \in Lives : rows = Register!Schedule(cost, life)

\* A generated schedule ends at the salvage value, and goes down but for the last month.
EndsAtSalvage(rows) ==
    LET n == Len(rows) IN
    /\ n > 0 /\ rows[n].left = 0
    /\ \A k \in 2..(n - 1) : rows[k - 1].left >= rows[k].left
    /\ 2 * (rows[n].left - rows[IF n > 1 THEN n - 1 ELSE n].left) <= n
    /\ \A k \in DOMAIN rows : rows[k] \in Register!Row

LEMMA GeneratedEnds ==
    ASSUME RegisterConstants, NEW rows, Generated(rows)
    PROVE  EndsAtSalvage(rows) /\ rows # <<>> /\ rows \in Seq(Register!Row)
<1>1. PICK cost \in Nat \ {0}, life \in Nat \ {0} : rows = Register!Schedule(cost, life)
  BY DEF Generated, RegisterConstants
<1>2. PICK m \in Nat : m = Register!Monthly(cost, life)
  BY MonthlyBound
<1> DEFINE acc(k) == IF k = life THEN cost ELSE k * m
<1>3. \A k \in 1..life : acc(k) \in Nat
  BY MonthsAdd
<1>4. rows = [k \in 1..life |-> [acc |-> acc(k), left |-> cost - acc(k)]]
  <2>1. \A k \in 1..life : Accumulated(cost, life)[k] = acc(k)
    BY <1>2 DEF Accumulated
  <2>2. rows = [k \in 1..life |-> [acc |-> Accumulated(cost, life)[k],
                                   left |-> cost - Accumulated(cost, life)[k]]]
    BY <1>1, ScheduleRows
  <2> HIDE DEF acc
  <2> QED BY <2>1, <2>2
<1>5. \A k \in 1..life : rows[k].acc = acc(k) /\ rows[k].left = cost - acc(k)
  <2> HIDE DEF acc
  <2> QED BY <1>4
<1>6. \A k \in DOMAIN rows : rows[k] \in Register!Row
  <2>1. \A k \in 1..life : rows[k] = [acc |-> acc(k), left |-> cost - acc(k)] /\ cost - acc(k) \in Int
    <3> HIDE DEF acc
    <3> QED BY <1>3, <1>4
  <2>2. DOMAIN rows = 1..life
    BY <1>4
  <2> HIDE DEF acc
  <2> QED BY <1>3, <2>1, <2>2 DEF Register!Row
<1>7. rows \in Seq(Register!Row) /\ Len(rows) = life
  <2>1. rows \in [1..life -> Register!Row]
    <3>1. DOMAIN rows = 1..life /\ rows = [k \in 1..life |-> rows[k]]
      BY <1>4
    <3> QED BY <3>1, <1>6
  <2> QED BY <2>1
<1>8. rows[life].left = 0 /\ rows[life].acc = cost
  BY <1>5
<1>9. ASSUME NEW k \in 2..(life - 1) PROVE rows[k - 1].left >= rows[k].left
  <2>1. k - 1 \in 1..life /\ k - 1 # life /\ k \in 1..life /\ k # life /\ k - 1 \in Nat
    OBVIOUS
  <2>2. acc(k - 1) = (k - 1) * m /\ acc(k) = k * m
    BY <2>1
  <2>3. ((k - 1) + 1) * m = (k - 1) * m + m /\ (k - 1) * m \in Nat /\ (k - 1) + 1 = k
    BY <2>1, MonthsAdd
  <2>4. acc(k - 1) <= acc(k)
    BY <2>2, <2>3
  <2>5. acc(k) \in Nat /\ acc(k - 1) \in Nat
    BY <1>3, <2>1
  <2> HIDE DEF acc
  <2> QED BY <2>1, <2>4, <2>5, <1>5
<1>10. 2 * (rows[life].left - rows[IF life > 1 THEN life - 1 ELSE life].left) <= life
  <2>1. CASE life = 1
    <3>1. (IF life > 1 THEN life - 1 ELSE life) = life
      BY <2>1
    <3> QED BY <3>1, <1>8
  <2>2. CASE life # 1
    <3>1. life - 1 \in 1..life /\ life - 1 # life /\ (IF life > 1 THEN life - 1 ELSE life) = life - 1
      BY <2>2
    <3>2. PICK p \in Nat : p = (life - 1) * m
      BY <3>1, MonthsAdd
    <3>3. rows[life - 1].left = cost - p
      BY <3>1, <3>2, <1>5
    <3>4. 2 * (p - cost) <= life
      BY <3>2, <1>2, MonthsLeave
    <3> HIDE DEF acc
    <3> QED BY <3>1, <3>3, <3>4, <1>8
  <2> QED BY <2>1, <2>2
<1>11. rows # <<>>
  BY <1>7
<1> HIDE DEF acc
<1> QED BY <1>6, <1>7, <1>8, <1>9, <1>10, <1>11 DEF EndsAtSalvage

\* It has a row for each month, and the last one has written off the whole cost.
LEMMA ScheduleWritesOff ==
    ASSUME NEW cost \in Nat \ {0}, NEW life \in Nat \ {0}
    PROVE  LET rows == Register!Schedule(cost, life) IN Len(rows) = life /\ rows[life].acc = cost
<1>1. PICK f : f = Accumulated(cost, life)
  OBVIOUS
<1>2. PICK rows : rows = [k \in 1..life |-> [acc |-> f[k], left |-> cost - f[k]]]
  OBVIOUS
<1>3. rows = Register!Schedule(cost, life)
  BY <1>1, <1>2, ScheduleRows
<1>4. f[life] = cost
  BY <1>1 DEF Accumulated
<1>5. rows[life].acc = cost
  BY <1>2, <1>4
<1>6. Len(rows) = life
  <2>1. rows \in Seq({rows[k] : k \in 1..life}) /\ DOMAIN rows = 1..life
    <3>1. rows \in [1..life -> {rows[k] : k \in 1..life}]
      BY <1>2
    <3> QED BY <3>1
  <2> QED BY <2>1
<1> QED BY <1>3, <1>5, <1>6

-----------------------------------------------------------------------------
(* Fixed assets: the register.  The request that creates an asset is on it until   *)
(* its schedule is there, and no other request changes the schedule.               *)

RegisterPlaced(q) ==
    /\ q.pc \in {"idle", "profile", "schedule", "edit"}
    /\ q.pc = "idle" <=> q.d = "nowhere"
    /\ q.pc # "idle" => /\ q.d \in RegisterAssets
                        /\ q.copy.made /\ q.copy.cost \in Costs /\ q.copy.life \in Lives

RegisterTypeInv ==
    /\ Register!TypeOK /\ schedule \in [RegisterAssets -> Seq(Register!Row)]
    /\ \A w \in Workers : RegisterPlaced(fa_req[w])

\* Two requests are never on one document.
AssetsApart == \A v, w \in Workers : v # w /\ fa_req[v].pc # "idle" => fa_req[w].d # fa_req[v].d

\* A request that creates an asset has the figures that were entered.
RegisterHeld(q) ==
    /\ q.pc # "idle" => asset[q.d].made
    /\ q.pc \in {"profile", "schedule"} =>
          q.copy.cost = asset[q.d].cost /\ q.copy.life = asset[q.d].life

\* What is entered has a cost and a life, and a schedule if no request died, which is that of
\* the cost and the life unless they were edited.
Entered(row) ==
    IF row.made THEN row.cost \in Costs /\ row.life \in Lives ELSE row.cost = 0
Working(q, a) == q.d = a /\ q.pc \in {"profile", "schedule"}
Scheduled(a) ==
    /\ schedule[a] = <<>> \/ Generated(schedule[a])
    /\ Entered(asset[a])
    /\ schedule[a] # <<>> => asset[a].made
    /\ schedule[a] # <<>> /\ a \notin edited =>
          schedule[a] = Register!Schedule(asset[a].cost, asset[a].life)
    /\ asset[a].made /\ fa_aborts = 0 /\ schedule[a] = <<>> => \E w \in Workers : Working(fa_req[w], a)

RegisterInv ==
    /\ RegisterTypeInv /\ AssetsApart
    /\ \A w \in Workers : RegisterHeld(fa_req[w])
    /\ \A a \in RegisterAssets : Scheduled(a)

-----------------------------------------------------------------------------
(* What a step leaves alone. *)

LEMMA RegisterTypes ==
    ASSUME RegisterTypeInv
    PROVE  /\ asset \in [RegisterAssets -> Register!Asset] /\ profile \in SUBSET RegisterAssets
           /\ schedule \in [RegisterAssets -> Seq(Register!Row)]
           /\ transfer \in [{} -> Register!Transfer] /\ count \in [{} -> Register!Count]
           /\ edited \in SUBSET RegisterAssets /\ moved \in [{} -> SUBSET RegisterAssets]
           /\ fa_offered = {"create", "edit"} /\ fa_aborts \in Nat
           /\ fa_req \in [Workers -> Register!Request]
  BY DEF RegisterTypeInv, Register!TypeOK

LEMMA RegisterIdle ==
    /\ Register!Idle \in Register!Request
    /\ Register!Idle.pc = "idle" /\ Register!Idle.d = "nowhere"
    /\ Register!NoAsset \in Register!Asset
<1>1. Register!NoAsset \in Register!Asset
  BY DEF Register!NoAsset, Register!Asset, Register!Places, Register!Nowhere
<1>2. Register!NoItem \in Register!Item
  BY DEF Register!NoItem, Register!Item, Register!Places, Register!Nowhere
<1>3. Register!NoCount.item \in [RegisterAssets -> Register!Item]
  BY <1>2 DEF Register!NoCount
<1>4. PICK x \in [RegisterAssets -> Register!Item], z \in Register!Asset :
         x = Register!NoCount.item /\ z = Register!NoAsset
  BY <1>1, <1>3
<1>5. Register!Idle = [op |-> "none", pc |-> "idle", d |-> "nowhere", copy |-> z, item |-> x]
  BY <1>4, Zenon DEF Register!Idle, Register!Nowhere
<1>6. PICK q : q = [op |-> "none", pc |-> "idle", d |-> "nowhere", copy |-> z, item |-> x]
  OBVIOUS
<1>7. q \in Register!Request /\ q.pc = "idle" /\ q.d = "nowhere"
  BY <1>4, <1>6 DEF Register!Request, Register!Nowhere
<1> QED BY <1>1, <1>5, <1>6, <1>7

\* The request of a worker, with what the invariant says of it.
LEMMA RegisterRequest ==
    ASSUME RegisterInv, NEW w \in Workers
    PROVE  \E r \in Register!Request :
              /\ r = fa_req[w] /\ RegisterPlaced(r) /\ RegisterHeld(r) /\ r.copy \in Register!Asset
              /\ r.pc # "idle" => \A v \in Workers \ {w} : fa_req[v].d # r.d
<1>1. PICK r \in Register!Request : r = fa_req[w]
  BY RegisterTypes DEF RegisterInv
<1>2. RegisterPlaced(r) /\ RegisterHeld(r)
  BY <1>1 DEF RegisterInv, RegisterTypeInv
<1>3. r.copy \in Register!Asset
  BY DEF Register!Request
<1>4. ASSUME r.pc # "idle", NEW v \in Workers \ {w} PROVE fa_req[v].d # r.d
  BY <1>1, <1>4 DEF RegisterInv, AssetsApart
<1> QED BY <1>1, <1>2, <1>3, <1>4

\* Which requests a step of one worker may leave behind it.
AssetTakes(w, q) ==
    /\ fa_req' = [fa_req EXCEPT ![w] = q]
    /\ q.pc # "idle" => \A v \in Workers \ {w} : fa_req[v].d # q.d

RegisterTables ==
    /\ asset' \in [RegisterAssets -> Register!Asset] /\ profile' \subseteq RegisterAssets
    /\ schedule' \in [RegisterAssets -> Seq(Register!Row)]
    /\ UNCHANGED <<transfer, count, fa_offered>> /\ moved' \in [{} -> SUBSET RegisterAssets]
    /\ edited' \in SUBSET RegisterAssets /\ edited \subseteq edited'
    /\ fa_aborts' \in Nat /\ (fa_aborts' = 0 => fa_aborts = 0)
    /\ \A a \in RegisterAssets : asset[a].made => asset'[a].made

\* A step changes the asset and the schedule of one asset at most.
OnlyAsset(e) ==
    \A a \in RegisterAssets \ {e} : asset'[a] = asset[a] /\ schedule'[a] = schedule[a]

OwnAsset(e, q) ==
    e \in RegisterAssets =>
        /\ schedule'[e] = <<>> \/ Generated(schedule'[e])
        /\ Entered(asset'[e])
        /\ schedule'[e] # <<>> => asset'[e].made
        /\ schedule'[e] # <<>> /\ e \notin edited' =>
              schedule'[e] = Register!Schedule(asset'[e].cost, asset'[e].life)
        /\ asset'[e].made /\ fa_aborts' = 0 /\ schedule'[e] = <<>> => Working(q, e)

LEMMA RegisterFrame ==
    ASSUME RegisterConstants, RegisterInv, NEW w \in Workers, NEW q \in Register!Request, NEW e,
           fa_req[w].d \in {e, "nowhere"}, AssetTakes(w, q), RegisterTables, RegisterPlaced(q),
           OnlyAsset(e), OwnAsset(e, q), RegisterHeld(q)',
           \A v \in Workers \ {w} : fa_req[v].pc # "idle" => fa_req[v].d # e
    PROVE  RegisterInv'
<1>1. /\ fa_req' \in [Workers -> Register!Request] /\ fa_req'[w] = q
      /\ \A v \in Workers \ {w} : fa_req'[v] = fa_req[v]
  BY RegisterTypes DEF RegisterInv, AssetTakes
<1>2. RegisterTypeInv'
  <2>1. Register!TypeOK'
    <3>1. \A a \in RegisterAssets : \A k \in DOMAIN schedule'[a] : schedule'[a][k] \in Register!Row
      BY ElementOfSeq DEF RegisterTables
    <3> QED BY <1>1, <3>1 DEF RegisterTables, Register!TypeOK, RegisterInv, RegisterTypeInv
  <2>2. ASSUME NEW v \in Workers PROVE RegisterPlaced(fa_req'[v])
    BY <1>1 DEF RegisterInv, RegisterTypeInv
  <2> QED BY <2>1, <2>2 DEF RegisterTypeInv, RegisterPlaced, RegisterTables
<1>3. AssetsApart'
  <2>1. ASSUME NEW v \in Workers, NEW x \in Workers, v # x, fa_req'[v].pc # "idle"
        PROVE  fa_req'[x].d # fa_req'[v].d
    <3>1. CASE v = w
      BY <3>1, <2>1, <1>1 DEF AssetTakes
    <3>2. CASE x = w
      <4>1. q.d = "nowhere" \/ q.pc # "idle"
        BY DEF RegisterPlaced
      <4>2. fa_req[v].d # "nowhere" /\ fa_req'[v] = fa_req[v]
        BY <3>2, <2>1, <1>1 DEF RegisterInv, RegisterTypeInv, RegisterPlaced
      <4> QED BY <4>1, <4>2, <3>2, <2>1, <1>1 DEF AssetTakes
    <3>3. CASE v # w /\ x # w
      BY <3>3, <2>1, <1>1 DEF RegisterInv, AssetsApart
    <3> QED BY <3>1, <3>2, <3>3
  <2> QED BY <2>1 DEF AssetsApart
<1>4. ASSUME NEW v \in Workers PROVE RegisterHeld(fa_req[v])'
  <2>1. CASE v = w
    <3>1. fa_req[v]' = q
      BY <2>1, <1>1
    <3> QED BY <3>1
  <2>2. CASE v # w
    <3>1. PICK r \in Register!Request :
             /\ r = fa_req[v] /\ RegisterPlaced(r) /\ RegisterHeld(r) /\ r.copy \in Register!Asset
             /\ r.pc # "idle" => \A x \in Workers \ {v} : fa_req[x].d # r.d
      BY RegisterRequest
    <3>2. fa_req[v]' = r
      BY <2>2, <3>1, <1>1
    <3>3. r.pc # "idle" => r.d # e /\ r.d \in RegisterAssets
      BY <2>2, <3>1 DEF RegisterPlaced
    <3>4. RegisterHeld(r)'
      BY <3>1, <3>3 DEF RegisterHeld, OnlyAsset
    <3> QED BY <3>2, <3>4
  <2> QED BY <2>1, <2>2
<1>5. ASSUME NEW a \in RegisterAssets PROVE Scheduled(a)'
  <2>1. CASE a = e
    <3>1. Working(q, e) => \E x \in Workers : Working(fa_req'[x], e)
      BY <1>1
    <3> QED BY <2>1, <3>1 DEF OwnAsset, Scheduled
  <2>2. CASE a # e
    <3>1. asset'[a] = asset[a] /\ schedule'[a] = schedule[a] /\ Scheduled(a)
      BY <2>2 DEF OnlyAsset, RegisterInv
    <3>2. ASSUME NEW x \in Workers, Working(fa_req[x], a) PROVE Working(fa_req'[x], a)
      <4>1. x # w
        BY <2>2, <3>2 DEF Working, RegisterConstants
      <4> QED BY <4>1, <3>2, <1>1
    <3>3. asset'[a].made /\ fa_aborts' = 0 /\ schedule'[a] = <<>> =>
             \E x \in Workers : Working(fa_req'[x], a)
      BY <3>1, <3>2 DEF Scheduled, RegisterTables
    <3>4. a \notin edited' => a \notin edited
      BY DEF RegisterTables
    <3> QED BY <3>1, <3>3, <3>4 DEF Scheduled
  <2> QED BY <2>1, <2>2
<1> QED BY <1>2, <1>3, <1>4, <1>5 DEF RegisterInv

\* A request that ends, and one that dies, leave nothing to be held.
LEMMA RegisterEnds ==
    ASSUME NEW w \in Workers, Register!Finish(w)
    PROVE  \E q \in Register!Request :
              q.pc = "idle" /\ AssetTakes(w, q) /\ RegisterPlaced(q) /\ RegisterHeld(q)'
<1>1. PICK q : q = Register!Idle
  OBVIOUS
<1>2. q \in Register!Request /\ q.pc = "idle" /\ q.d = "nowhere" /\ fa_req' = [fa_req EXCEPT ![w] = q]
  BY <1>1, RegisterIdle DEF Register!Finish
<1> QED BY <1>2 DEF AssetTakes, RegisterPlaced, RegisterHeld

-----------------------------------------------------------------------------
(* The steps. *)

LEMMA CreateAssetSchedules ==
    ASSUME RegisterConstants, RegisterInv, NEW w \in Workers, NEW a \in RegisterAssets,
           NEW loc \in Register!Places, NEW cost \in Costs, NEW life \in Lives,
           Register!CreateAsset(w, a, loc, cost, life), UNCHANGED fa_offered
    PROVE  RegisterInv'
<1>1. PICK row : row = [made |-> TRUE, loc |-> loc, cost |-> cost, life |-> life]
  OBVIOUS
<1>2. /\ asset' = [asset EXCEPT ![a] = row]
      /\ fa_req' = [fa_req EXCEPT ![w] = [Register!Idle EXCEPT !.op = "create", !.pc = "profile",
                                                               !.d = a, !.copy = row]]
      /\ UNCHANGED <<profile, schedule, transfer, count, edited, moved, fa_aborts>>
      /\ Register!MayStart(w, "create", a) /\ ~asset[a].made
  BY <1>1, Zenon DEF Register!CreateAsset, Register!history
<1>3. row \in Register!Asset /\ row.made /\ row.cost = cost /\ row.life = life
  BY <1>1 DEF Register!Asset
<1> DEFINE q == [Register!Idle EXCEPT !.op = "create", !.pc = "profile", !.d = a, !.copy = row]
<1>4. q \in Register!Request /\ q.pc = "profile" /\ q.d = a /\ q.copy = row
  BY <1>3, RegisterIdle DEF Register!Request
<1>5. fa_req' = [fa_req EXCEPT ![w] = q]
  BY <1>2
<1> HIDE DEF q
<1>6. PICK o \in Register!Request : o = fa_req[w] /\ RegisterPlaced(o)
  BY RegisterRequest
<1>7. o.d = "nowhere" /\ \A v \in Workers : fa_req[v].d # a
  BY <1>2, <1>6 DEF Register!MayStart, Register!Busy, Register!At, RegisterPlaced
<1>8. AssetTakes(w, q) /\ RegisterPlaced(q)
  BY <1>3, <1>4, <1>5, <1>7 DEF AssetTakes, RegisterPlaced, RegisterConstants
<1>9. asset' \in [RegisterAssets -> Register!Asset] /\ asset'[a] = row
      /\ \A b \in RegisterAssets \ {a} : asset'[b] = asset[b]
  BY <1>2, <1>3, RegisterTypes DEF RegisterInv
<1>10. RegisterTables
  BY <1>2, <1>3, <1>9, RegisterTypes DEF RegisterTables, RegisterInv
<1>11. OnlyAsset(a)
  BY <1>2, <1>9 DEF OnlyAsset
<1>12. OwnAsset(a, q)
  <2>1. schedule[a] = <<>>
    BY <1>2 DEF RegisterInv, Scheduled
  <2>2. Entered(asset'[a])
    BY <1>3, <1>9 DEF Entered
  <2>3. Working(q, a)
    BY <1>4 DEF Working
  <2> QED BY <2>1, <2>2, <2>3, <1>2 DEF OwnAsset
<1>13. RegisterHeld(q)'
  BY <1>3, <1>4, <1>9 DEF RegisterHeld
<1>14. fa_req[w].d \in {a, "nowhere"}
  BY <1>6, <1>7
<1> QED BY <1>4, <1>7, <1>8, <1>10, <1>11, <1>12, <1>13, <1>14, RegisterFrame

LEMMA EditAssetSchedules ==
    ASSUME RegisterConstants, RegisterInv, NEW w \in Workers, NEW a \in RegisterAssets,
           Register!EditAsset(w, a), UNCHANGED fa_offered
    PROVE  RegisterInv'
<1>1. PICK row \in Register!Asset : row = asset[a]
  BY RegisterTypes DEF RegisterInv
<1>2. /\ fa_req' = [fa_req EXCEPT ![w] = [Register!Idle EXCEPT !.op = "edit", !.pc = "edit",
                                                               !.d = a, !.copy = asset[a]]]
      /\ UNCHANGED <<asset, profile, schedule, transfer, count, edited, moved, fa_aborts>>
      /\ Register!MayStart(w, "edit", a) /\ asset[a].made
  BY Zenon DEF Register!EditAsset, Register!register, Register!history
<1> DEFINE q == [Register!Idle EXCEPT !.op = "edit", !.pc = "edit", !.d = a, !.copy = row]
<1>3. q \in Register!Request /\ q.pc = "edit" /\ q.d = a /\ q.copy = row
  BY RegisterIdle DEF Register!Request
<1>4. fa_req' = [fa_req EXCEPT ![w] = q]
  BY <1>1, <1>2, Zenon
<1> HIDE DEF q
<1>5. PICK o \in Register!Request : o = fa_req[w] /\ RegisterPlaced(o)
  BY RegisterRequest
<1>6. o.d = "nowhere" /\ \A v \in Workers : fa_req[v].d # a
  BY <1>2, <1>5 DEF Register!MayStart, Register!Busy, Register!At, RegisterPlaced
<1>7. Scheduled(a) /\ row.made
  BY <1>1, <1>2 DEF RegisterInv
<1>8. AssetTakes(w, q) /\ RegisterPlaced(q)
  BY <1>1, <1>3, <1>4, <1>6, <1>7 DEF AssetTakes, RegisterPlaced, RegisterConstants, Scheduled, Entered
<1>9. RegisterTables /\ OnlyAsset(a)
  BY <1>2, RegisterTypes DEF RegisterTables, OnlyAsset, RegisterInv
<1>10. OwnAsset(a, q)
  <2>1. ~\E x \in Workers : Working(fa_req[x], a)
    BY <1>6 DEF Working
  <2> QED BY <2>1, <1>2, <1>7 DEF OwnAsset, Scheduled
<1>11. RegisterHeld(q)'
  BY <1>2, <1>3 DEF RegisterHeld
<1>12. fa_req[w].d \in {a, "nowhere"}
  BY <1>5, <1>6
<1> QED BY <1>3, <1>6, <1>8, <1>9, <1>10, <1>11, <1>12, RegisterFrame

LEMMA SaveProfileSchedules ==
    ASSUME RegisterConstants, RegisterInv, NEW w \in Workers,
           Register!SaveProfile(w), UNCHANGED fa_offered
    PROVE  RegisterInv'
<1>1. PICK r \in Register!Request :
         /\ r = fa_req[w] /\ RegisterPlaced(r) /\ RegisterHeld(r) /\ r.copy \in Register!Asset
         /\ r.pc # "idle" => \A v \in Workers \ {w} : fa_req[v].d # r.d
  BY RegisterRequest
<1>2. /\ r.pc = "profile" /\ r.d \in RegisterAssets
      /\ profile' = profile \cup {r.d} /\ fa_req' = [fa_req EXCEPT ![w].pc = "schedule"]
      /\ UNCHANGED <<asset, schedule, transfer, count, edited, moved, fa_aborts>>
  BY <1>1 DEF Register!SaveProfile, Register!At, RegisterPlaced, Register!history
<1> DEFINE q == [r EXCEPT !.pc = "schedule"]
<1>3. q \in Register!Request /\ q.pc = "schedule" /\ q.d = r.d /\ q.copy = r.copy
  BY DEF Register!Request
<1>4. fa_req' = [fa_req EXCEPT ![w] = q]
  BY <1>1, <1>2, RegisterTypes DEF RegisterInv
<1> HIDE DEF q
<1>5. AssetTakes(w, q) /\ RegisterPlaced(q)
  BY <1>1, <1>2, <1>3, <1>4 DEF AssetTakes, RegisterPlaced, RegisterConstants
<1>6. RegisterTables /\ OnlyAsset(r.d)
  BY <1>2, RegisterTypes DEF RegisterTables, OnlyAsset, RegisterInv
<1>7. OwnAsset(r.d, q)
  BY <1>2, <1>3 DEF OwnAsset, RegisterInv, Scheduled, Working
<1>8. RegisterHeld(q)'
  BY <1>1, <1>2, <1>3 DEF RegisterHeld
<1>9. fa_req[w].d \in {r.d, "nowhere"}
  BY <1>1
<1> QED BY <1>1, <1>2, <1>3, <1>5, <1>6, <1>7, <1>8, <1>9, RegisterFrame

LEMMA SaveScheduleSchedules ==
    ASSUME RegisterConstants, RegisterInv, NEW w \in Workers,
           Register!SaveSchedule(w), UNCHANGED fa_offered
    PROVE  RegisterInv'
<1>1. PICK r \in Register!Request :
         /\ r = fa_req[w] /\ RegisterPlaced(r) /\ RegisterHeld(r) /\ r.copy \in Register!Asset
         /\ r.pc # "idle" => \A v \in Workers \ {w} : fa_req[v].d # r.d
  BY RegisterRequest
<1>2. r.pc = "schedule" /\ r.d \in RegisterAssets /\ r.copy.cost \in Costs /\ r.copy.life \in Lives
  BY <1>1 DEF Register!SaveSchedule, Register!At, RegisterPlaced
<1>3. PICK rows \in Seq(Register!Row) :
         rows = Register!Schedule(r.copy.cost, r.copy.life) /\ rows # <<>> /\ Generated(rows)
  BY <1>2, GeneratedEnds DEF Generated
<1>4. /\ schedule' = [schedule EXCEPT ![r.d] = rows] /\ Register!Finish(w)
      /\ UNCHANGED <<asset, profile, transfer, count, edited, moved, fa_aborts>>
  BY <1>1, <1>3 DEF Register!SaveSchedule, Register!history
<1>5. PICK q \in Register!Request :
         q.pc = "idle" /\ AssetTakes(w, q) /\ RegisterPlaced(q) /\ RegisterHeld(q)'
  BY <1>4, RegisterEnds
<1>6. schedule' \in [RegisterAssets -> Seq(Register!Row)] /\ schedule'[r.d] = rows
      /\ \A b \in RegisterAssets \ {r.d} : schedule'[b] = schedule[b]
  BY <1>2, <1>4, RegisterTypes DEF RegisterInv
<1>7. RegisterTables /\ OnlyAsset(r.d)
  BY <1>4, <1>6, RegisterTypes DEF RegisterTables, OnlyAsset, RegisterInv
<1>8. OwnAsset(r.d, q)
  <2>1. r.copy.cost = asset[r.d].cost /\ r.copy.life = asset[r.d].life /\ asset[r.d].made
    BY <1>1, <1>2 DEF RegisterHeld
  <2> QED BY <2>1, <1>2, <1>3, <1>4, <1>6 DEF OwnAsset, RegisterInv, Scheduled
<1>9. fa_req[w].d \in {r.d, "nowhere"}
  BY <1>1
<1> QED BY <1>1, <1>2, <1>5, <1>7, <1>8, <1>9, RegisterFrame

LEMMA SaveEditSchedules ==
    ASSUME RegisterConstants, RegisterInv, NEW w \in Workers,
           Register!SaveEdit(w), UNCHANGED fa_offered
    PROVE  RegisterInv'
<1>1. PICK r \in Register!Request :
         /\ r = fa_req[w] /\ RegisterPlaced(r) /\ RegisterHeld(r) /\ r.copy \in Register!Asset
         /\ r.pc # "idle" => \A v \in Workers \ {w} : fa_req[v].d # r.d
  BY RegisterRequest
<1>2. r.pc = "edit" /\ r.d \in RegisterAssets /\ r.copy.made /\ asset[r.d].made
  BY <1>1 DEF Register!SaveEdit, Register!At, RegisterPlaced, RegisterHeld
<1>3. PICK loc \in Register!Places, cost \in Costs, life \in Lives :
         Register!Write(w, fa_req[w].d, [fa_req[w].copy EXCEPT !.loc = loc, !.cost = cost, !.life = life])
  BY Zenon DEF Register!SaveEdit
<1>4. PICK c \in Register!Asset : c = r.copy
  BY <1>1
<1> DEFINE row == [c EXCEPT !.loc = loc, !.cost = cost, !.life = life]
<1>5. row \in Register!Asset /\ row.made /\ row.cost = cost /\ row.life = life
  BY <1>2, <1>4 DEF Register!Asset
<1>6. /\ asset' = [asset EXCEPT ![r.d] = row] /\ Register!Finish(w)
      /\ UNCHANGED <<profile, schedule, transfer, count, fa_aborts>>
      /\ moved' \in [{} -> SUBSET RegisterAssets]
      /\ edited' = IF row.cost = asset[r.d].cost /\ row.life = asset[r.d].life
                   THEN edited ELSE edited \cup {r.d}
  <2>1. Register!Write(w, r.d, row)
    BY <1>1, <1>3, <1>4, Zenon
  <2>2. /\ asset' = [asset EXCEPT ![r.d] = row] /\ moved' \in [{} -> SUBSET RegisterAssets]
        /\ edited' = IF row.cost = asset[r.d].cost /\ row.life = asset[r.d].life
                     THEN edited ELSE edited \cup {r.d}
    <3> HIDE DEF row
    <3> QED BY <2>1 DEF Register!Write
  <2> QED BY <2>2 DEF Register!SaveEdit
<1> HIDE DEF row
<1>7. PICK q \in Register!Request :
         q.pc = "idle" /\ AssetTakes(w, q) /\ RegisterPlaced(q) /\ RegisterHeld(q)'
  BY <1>6, RegisterEnds
<1>8. asset' \in [RegisterAssets -> Register!Asset] /\ asset'[r.d] = row
      /\ \A b \in RegisterAssets \ {r.d} : asset'[b] = asset[b]
  BY <1>2, <1>5, <1>6, RegisterTypes DEF RegisterInv
<1>9. RegisterTables /\ OnlyAsset(r.d)
  <2>1. edited' \in SUBSET RegisterAssets /\ edited \subseteq edited'
    BY <1>2, <1>6, RegisterTypes DEF RegisterInv
  <2> QED BY <2>1, <1>5, <1>6, <1>8, RegisterTypes DEF RegisterTables, OnlyAsset, RegisterInv
<1>10. OwnAsset(r.d, q)
  <2>1. Scheduled(r.d)
    BY <1>2 DEF RegisterInv
  <2>2. ~\E x \in Workers : Working(fa_req[x], r.d)
    BY <1>1, <1>2 DEF Working
  <2>3. fa_aborts = 0 => schedule[r.d] # <<>>
    BY <2>1, <2>2, <1>2 DEF Scheduled
  <2>4. Entered(asset'[r.d])
    BY <1>5, <1>8 DEF Entered
  <2>5. schedule'[r.d] # <<>> /\ r.d \notin edited' =>
           schedule'[r.d] = Register!Schedule(asset'[r.d].cost, asset'[r.d].life)
    BY <2>1, <1>5, <1>6, <1>8 DEF Scheduled
  <2> QED BY <2>1, <2>3, <2>4, <2>5, <1>5, <1>6, <1>8 DEF OwnAsset, Scheduled
<1>11. fa_req[w].d \in {r.d, "nowhere"}
  BY <1>1
<1> QED BY <1>1, <1>2, <1>7, <1>9, <1>10, <1>11, RegisterFrame

\* A request that dies leaves an asset without a schedule.
LEMMA CrashSchedules ==
    ASSUME RegisterConstants, RegisterInv, NEW w \in Workers, Register!Crash(w), UNCHANGED fa_offered
    PROVE  RegisterInv'
<1>1. PICK r \in Register!Request :
         /\ r = fa_req[w] /\ RegisterPlaced(r) /\ RegisterHeld(r) /\ r.copy \in Register!Asset
         /\ r.pc # "idle" => \A v \in Workers \ {w} : fa_req[v].d # r.d
  BY RegisterRequest
<1>2. /\ r.pc # "idle" /\ fa_aborts' = fa_aborts + 1 /\ Register!Finish(w)
      /\ UNCHANGED <<asset, profile, schedule, transfer, count, edited, moved>>
  BY <1>1 DEF Register!Crash, Register!register, Register!history, Register!Busy, Register!At
<1>3. PICK q \in Register!Request :
         q.pc = "idle" /\ AssetTakes(w, q) /\ RegisterPlaced(q) /\ RegisterHeld(q)'
  BY <1>2, RegisterEnds
<1>4. fa_aborts' \in Nat /\ fa_aborts' # 0
  BY <1>2, RegisterTypes DEF RegisterInv
<1>5. RegisterTables /\ OnlyAsset(r.d)
  BY <1>2, <1>4, RegisterTypes DEF RegisterTables, OnlyAsset, RegisterInv
<1>6. OwnAsset(r.d, q)
  BY <1>2, <1>4 DEF OwnAsset, RegisterInv, Scheduled
<1>7. fa_req[w].d \in {r.d, "nowhere"}
  BY <1>1
<1> QED BY <1>1, <1>2, <1>3, <1>5, <1>6, <1>7, RegisterFrame

-----------------------------------------------------------------------------
LEMMA RegisterStutter ==
    ASSUME RegisterInv, UNCHANGED Register!vars
    PROVE  RegisterInv'
<1>1. UNCHANGED <<asset, profile, schedule, transfer, count, edited, moved, fa_req, fa_offered, fa_aborts>>
  BY DEF Register!vars, Register!register, Register!history
<1>2. RegisterTypeInv'
  <2>1. Register!TypeOK'
    BY <1>1 DEF RegisterInv, RegisterTypeInv, Register!TypeOK
  <2>2. \A w \in Workers : RegisterPlaced(fa_req[w])'
    BY <1>1 DEF RegisterInv, RegisterTypeInv
  <2> QED BY <1>1, <2>1, <2>2 DEF RegisterTypeInv, RegisterInv
<1>3. AssetsApart'
  BY <1>1 DEF RegisterInv, AssetsApart
<1>4. \A w \in Workers : RegisterHeld(fa_req[w])'
  BY <1>1 DEF RegisterInv, RegisterHeld
<1>5. \A a \in RegisterAssets : Scheduled(a)'
  BY <1>1 DEF RegisterInv, Scheduled
<1> QED BY <1>2, <1>3, <1>4, <1>5 DEF RegisterInv

LEMMA RegisterInit ==
    ASSUME RegisterConstants, Register!Init
    PROVE  RegisterInv
<1>1. /\ asset = [a \in RegisterAssets |-> Register!NoAsset] /\ profile = {}
      /\ schedule = [a \in RegisterAssets |-> <<>>]
      /\ transfer = [t \in {} |-> Register!NoTransfer]
      /\ count = [c \in {} |-> Register!NoCount] /\ edited = {} /\ moved = [c \in {} |-> {}]
      /\ fa_req = [w \in Workers |-> Register!Idle]
      /\ fa_offered \in {{"create", "edit"}} /\ fa_aborts = 0
  BY DEF Register!Init
<1>2. PICK row \in Register!Asset : row = Register!NoAsset /\ ~row.made /\ row.cost = 0
  <2>1. ~Register!NoAsset.made /\ Register!NoAsset.cost = 0
    BY DEF Register!NoAsset
  <2> QED BY <2>1, RegisterIdle
<1>3. PICK q \in Register!Request : q = Register!Idle /\ q.pc = "idle" /\ q.d = "nowhere"
  BY RegisterIdle
<1>4. \A w \in Workers : fa_req[w] = q
  BY <1>1, <1>3
<1>5. \A a \in RegisterAssets : asset[a] = row /\ schedule[a] = <<>>
  BY <1>1, <1>2
<1>6. RegisterTypeInv
  <2>1. schedule \in [RegisterAssets -> Seq(Register!Row)]
    BY <1>1, EmptySeq
  <2>2. asset \in [RegisterAssets -> Register!Asset] /\ fa_req \in [Workers -> Register!Request]
    BY <1>1, <1>2, <1>3
  <2>3. /\ transfer \in [{} -> Register!Transfer] /\ count \in [{} -> Register!Count]
        /\ moved \in [{} -> SUBSET RegisterAssets]
    BY <1>1
  <2>4. profile \subseteq RegisterAssets /\ edited \subseteq RegisterAssets /\ fa_offered \in {{"create", "edit"}}
    BY <1>1
  <2>5. fa_aborts \in Nat
    <3>1. fa_aborts = 0
      BY <1>1
    <3> QED BY <3>1
  <2>6. \A a \in RegisterAssets : \A k \in DOMAIN schedule[a] : schedule[a][k] \in Register!Row
    BY <2>1, ElementOfSeq
  <2>7. Register!TypeOK
    BY <2>2, <2>3, <2>4, <2>5, <2>6 DEF Register!TypeOK
  <2>8. \A w \in Workers : RegisterPlaced(fa_req[w])
    BY <1>3, <1>4 DEF RegisterPlaced
  <2> QED BY <2>1, <2>7, <2>8 DEF RegisterTypeInv
<1>7. AssetsApart
  BY <1>3, <1>4 DEF AssetsApart
<1>8. \A w \in Workers : RegisterHeld(fa_req[w])
  BY <1>3, <1>4 DEF RegisterHeld
<1>9. \A a \in RegisterAssets : Scheduled(a)
  BY <1>2, <1>5 DEF Scheduled, Entered
<1> QED BY <1>6, <1>7, <1>8, <1>9 DEF RegisterInv

\* One case for each disjunct of Step; there are no transfers and no counts.
LEMMA RegisterStep ==
    ASSUME RegisterConstants, RegisterInv, [Register!Next]_(Register!vars)
    PROVE  RegisterInv'
<1>1. CASE UNCHANGED Register!vars
  BY <1>1, RegisterStutter
<1>2. CASE Register!Next
  <2>1. UNCHANGED fa_offered /\ Register!Step
    BY <1>2 DEF Register!Next
  <2>2. ASSUME NEW w \in Workers, NEW a \in RegisterAssets, NEW l \in Register!Places,
               NEW cost \in Costs, NEW life \in Lives, Register!CreateAsset(w, a, l, cost, life)
        PROVE  RegisterInv'
    BY <2>1, <2>2, CreateAssetSchedules
  <2>3. ASSUME NEW w \in Workers, NEW a \in RegisterAssets, Register!EditAsset(w, a)
        PROVE  RegisterInv'
    BY <2>1, <2>3, EditAssetSchedules
  <2>4. ASSUME NEW w \in Workers, Register!Continue(w) PROVE RegisterInv'
    <3>1. fa_req[w].pc \in {"idle", "profile", "schedule", "edit"}
      BY DEF RegisterInv, RegisterTypeInv, RegisterPlaced
    <3>2. Register!SaveProfile(w) \/ Register!SaveSchedule(w) \/ Register!SaveEdit(w)
      BY <2>4, <3>1 DEF Register!Continue, Register!SaveMove, Register!SaveTransfer,
         Register!ListAssets, Register!InsertItems, Register!BeginCount, Register!LoadItems,
         Register!Relocate, Register!EndReconcile, Register!At
    <3> QED BY <2>1, <3>2, SaveProfileSchedules, SaveScheduleSchedules, SaveEditSchedules
  <2>5. ASSUME NEW w \in Workers, Register!Crash(w) PROVE RegisterInv'
    BY <2>1, <2>5, CrashSchedules
  <2> QED BY <2>1, <2>2, <2>3, <2>4, <2>5 DEF Register!Step
<1> QED BY <1>1, <1>2

LEMMA RegisterScheduled ==
    ASSUME RegisterConstants, RegisterInv
    PROVE  Register!ScheduleEndsAtSalvage
<1>1. ASSUME NEW a \in RegisterAssets
      PROVE  LET rows == schedule[a]
                 n == Len(rows) IN
             /\ fa_aborts = 0 /\ asset[a].made /\ (\A w \in Workers : fa_req[w].d # a) => n > 0
             /\ n > 0 =>
                   /\ a \notin edited => n = asset[a].life /\ rows[n].acc = asset[a].cost
                   /\ rows[n].left = 0
                   /\ \A k \in 2..(n - 1) : rows[k - 1].left >= rows[k].left
                   /\ 2 * (rows[n].left - rows[IF n > 1 THEN n - 1 ELSE n].left) <= n
  <2>1. Scheduled(a)
    BY DEF RegisterInv
  <2>2. CASE Generated(schedule[a])
    <3>1. EndsAtSalvage(schedule[a]) /\ schedule[a] # <<>>
      BY <2>2, GeneratedEnds
    <3>2. ASSUME a \notin edited
          PROVE  Len(schedule[a]) = asset[a].life /\ schedule[a][asset[a].life].acc = asset[a].cost
      <4>1. asset[a].cost \in Nat \ {0} /\ asset[a].life \in Nat \ {0}
        BY <2>1, <3>1 DEF Scheduled, Entered, RegisterConstants
      <4>2. schedule[a] = Register!Schedule(asset[a].cost, asset[a].life)
        BY <2>1, <3>1, <3>2 DEF Scheduled
      <4> QED BY <4>1, <4>2, ScheduleWritesOff
    <3> QED BY <3>1, <3>2 DEF EndsAtSalvage
  <2>3. CASE schedule[a] = <<>>
    <3>1. fa_aborts = 0 /\ asset[a].made => \E w \in Workers : fa_req[w].d = a
      BY <2>1, <2>3 DEF Scheduled, Working
    <3>2. Len(schedule[a]) = 0
      BY <2>3
    <3> QED BY <3>1, <3>2
  <2> QED BY <2>1, <2>2, <2>3 DEF Scheduled
<1> QED BY <1>1 DEF Register!ScheduleEndsAtSalvage

-----------------------------------------------------------------------------
(* Fixed assets: counts.  What a reconciliation has gone through is where it was     *)
(* found, unless it knows that it was elsewhere or that somebody else moved it.     *)

\* The documents have names of their own.
CountConstants ==
    /\ "nowhere" \notin CountedAssets \cup AssetTransfers \cup PhysicalCounts
    /\ PhysicalCounts \cap (CountedAssets \cup AssetTransfers) = {}

CountLabels == {"list", "items", "status", "load", "relocate"}

CountPlaced(q) ==
    /\ q.pc = "idle" <=> q.d = "nowhere"
    /\ q.pc \in {"profile", "schedule", "edit"} => q.d \in CountedAssets
    /\ q.pc \in {"move", "transferred"} => q.d \in AssetTransfers
    /\ q.pc \in CountLabels => q.d \in PhysicalCounts

CountTypeInv ==
    /\ asset \in [CountedAssets -> Places!Asset] /\ transfer \in [AssetTransfers -> Places!Transfer]
    /\ count \in [PhysicalCounts -> Places!Count] /\ moved \in [PhysicalCounts -> SUBSET CountedAssets]
    /\ edited \subseteq CountedAssets
    /\ fa_req \in [Workers -> Places!Request] /\ fa_aborts \in Nat
    /\ \A w \in Workers : CountPlaced(fa_req[w])

Goes(t) == transfer[t].asset \in CountedAssets

\* An asset is entered, and where it should be unless the reconciliation knows of its move.
IsAt(c, a, place) == asset[a].made /\ (a \in moved[c] \/ asset[a].loc = place)
Stays(c, a, i) == i.listed => IsAt(c, a, i.expected)

FoundAt(i) == i.is_found /\ i.found # "nowhere"

\* What a request that reconciles a count has done with one of its items, and has yet to do.
Relocated(q, a) ==
    LET i == count[q.d].item[a] IN
    \/ FoundAt(i) /\ q.item[a] = i /\ Stays(q.d, a, i)
    \/ /\ q.item[a] = Places!NoItem
       /\ FoundAt(i) => IsAt(q.d, a, i.found)

CountHeld(q) ==
    /\ q.pc = "edit" => q.copy.made
    /\ q.pc \in {"move", "transferred"} => Goes(q.d)
    /\ q.pc = "items" => \A a \in CountedAssets :
          ~q.item[a].is_found /\ (q.item[a].listed => asset[a].made)
    /\ q.pc = "load" => \A a \in CountedAssets : Stays(q.d, a, count[q.d].item[a])
    /\ q.pc = "relocate" => \A a \in CountedAssets : Relocated(q, a)

CountStands(c) ==
    \A a \in CountedAssets :
        LET i == count[c].item[a] IN (i.is_found => i.listed) /\ (i.listed => asset[a].made)

CountInv ==
    /\ CountTypeInv /\ AssetsApart
    /\ \A w \in Workers : CountHeld(fa_req[w])
    /\ \A c \in PhysicalCounts : CountStands(c)
    /\ \A t \in AssetTransfers : transfer[t].status # "none" => Goes(t)

-----------------------------------------------------------------------------
(* What a step leaves alone. *)

LEMMA CountIdle ==
    /\ Places!Idle \in Places!Request
    /\ Places!Idle.pc = "idle" /\ Places!Idle.d = "nowhere"
    /\ Places!NoAsset \in Places!Asset
    /\ Places!NoItem \in Places!Item /\ ~Places!NoItem.is_found /\ ~Places!NoItem.listed
    /\ Places!NoItem.found = "nowhere" /\ Places!NoItem.expected = "nowhere"
    /\ Places!NoCount \in Places!Count /\ Places!NoCount.status = "none"
    /\ Places!NoCount.item = [a \in CountedAssets |-> Places!NoItem]
    /\ Places!NoTransfer \in Places!Transfer /\ Places!NoTransfer.status = "none"
<1>1. Places!NoAsset \in Places!Asset
  BY DEF Places!NoAsset, Places!Asset, Places!Places, Places!Nowhere
<1>2. Places!NoItem \in Places!Item /\ ~Places!NoItem.is_found /\ ~Places!NoItem.listed
      /\ Places!NoItem.found = "nowhere" /\ Places!NoItem.expected = "nowhere"
  BY DEF Places!NoItem, Places!Item, Places!Places, Places!Nowhere
<1>3. /\ Places!NoCount.item = [a \in CountedAssets |-> Places!NoItem]
      /\ Places!NoCount \in Places!Count /\ Places!NoCount.status = "none"
  <2>1. PICK x \in [CountedAssets -> Places!Item] : x = [a \in CountedAssets |-> Places!NoItem]
    BY <1>2
  <2>2. Places!NoCount = [status |-> "none", where |-> "nowhere", item |-> x]
    BY <2>1, Zenon DEF Places!NoCount, Places!Nowhere
  <2>3. PICK z : z = [status |-> "none", where |-> "nowhere", item |-> x]
    OBVIOUS
  <2>4. z \in Places!Count /\ z.status = "none" /\ z.item = x
    BY <2>1, <2>3 DEF Places!Count, Places!Places, Places!Nowhere
  <2> QED BY <2>1, <2>2, <2>3, <2>4
<1>4. PICK x \in [CountedAssets -> Places!Item], z \in Places!Asset :
         x = Places!NoCount.item /\ z = Places!NoAsset
  BY <1>1, <1>2, <1>3
<1>5. Places!Idle = [op |-> "none", pc |-> "idle", d |-> "nowhere", copy |-> z, item |-> x]
  BY <1>4, Zenon DEF Places!Idle, Places!Nowhere
<1>6. PICK q : q = [op |-> "none", pc |-> "idle", d |-> "nowhere", copy |-> z, item |-> x]
  OBVIOUS
<1>7. q \in Places!Request /\ q.pc = "idle" /\ q.d = "nowhere"
  BY <1>4, <1>6 DEF Places!Request, Places!Nowhere
<1>8. Places!NoTransfer \in Places!Transfer /\ Places!NoTransfer.status = "none"
  BY DEF Places!NoTransfer, Places!Transfer, Places!Places, Places!Nowhere
<1> QED BY <1>1, <1>2, <1>3, <1>5, <1>6, <1>7, <1>8

\* The request of a worker, with what the invariant says of it.
LEMMA CountRequest ==
    ASSUME CountInv, NEW w \in Workers
    PROVE  \E r \in Places!Request :
              /\ r = fa_req[w] /\ CountPlaced(r) /\ CountHeld(r) /\ r.copy \in Places!Asset
              /\ r.item \in [CountedAssets -> Places!Item]
              /\ r.pc # "idle" => \A v \in Workers \ {w} : fa_req[v].d # r.d
<1>1. PICK r \in Places!Request : r = fa_req[w]
  BY DEF CountInv, CountTypeInv
<1>2. CountPlaced(r) /\ CountHeld(r)
  BY <1>1 DEF CountInv, CountTypeInv
<1>3. r.copy \in Places!Asset /\ r.item \in [CountedAssets -> Places!Item]
  BY DEF Places!Request
<1>4. ASSUME r.pc # "idle", NEW v \in Workers \ {w} PROVE fa_req[v].d # r.d
  BY <1>1, <1>4 DEF CountInv, AssetsApart
<1> QED BY <1>1, <1>2, <1>3, <1>4

CountTables ==
    /\ asset' \in [CountedAssets -> Places!Asset] /\ transfer' \in [AssetTransfers -> Places!Transfer]
    /\ count' \in [PhysicalCounts -> Places!Count]
    /\ moved' \in [PhysicalCounts -> SUBSET CountedAssets] /\ edited' \subseteq CountedAssets
    /\ fa_aborts' \in Nat
    /\ \A t \in AssetTransfers : Goes(t) => Goes(t)'
    /\ \A t \in AssetTransfers : transfer'[t].status # "none" => Goes(t)'

\* A count that a step does not work on: it stays, and where an asset has not moved since
\* it was listed, it stays.
Steady(c) ==
    /\ count'[c] = count[c]
    /\ \A a \in CountedAssets : asset[a].made =>
          asset'[a].made /\ (a \in moved'[c] \/ (a \notin moved[c] /\ asset'[a].loc = asset[a].loc))

LEMMA SteadyStands ==
    ASSUME NEW c \in PhysicalCounts, Steady(c), CountStands(c)
    PROVE  CountStands(c)'
  BY DEF Steady, CountStands

LEMMA SteadyHeld ==
    ASSUME NEW q, CountHeld(q), CountPlaced(q), CountTables,
           q.d \in PhysicalCounts => Steady(q.d)
    PROVE  CountHeld(q)'
<1>1. CASE q.pc \in CountLabels
  <2>1. q.d \in PhysicalCounts /\ Steady(q.d) /\ q.pc \notin {"move", "transferred"}
    BY <1>1 DEF CountPlaced, CountLabels
  <2>2. \A a \in CountedAssets :
           /\ asset[a].made => asset'[a].made
           /\ \A i : Stays(q.d, a, i) => Stays(q.d, a, i)'
           /\ Relocated(q, a) => Relocated(q, a)'
    BY <2>1 DEF Steady, Stays, Relocated, IsAt
  <2>3. count'[q.d] = count[q.d]
    BY <2>1 DEF Steady
  <2> QED BY <2>1, <2>2, <2>3 DEF CountHeld, Stays
<1>2. CASE q.pc \notin CountLabels
  BY <1>2 DEF CountHeld, CountLabels, CountPlaced, CountTables
<1> QED BY <1>1, <1>2

-----------------------------------------------------------------------------
LEMMA CountFrame ==
    ASSUME CountConstants, CountInv, NEW w \in Workers, NEW q \in Places!Request, NEW e,
           e \in {fa_req[w].d, q.d}, AssetTakes(w, q), CountTables, CountPlaced(q), CountHeld(q)',
           \A c \in PhysicalCounts \ {e} : Steady(c),
           e \in PhysicalCounts => CountStands(e)'
    PROVE  CountInv'
<1>1. /\ fa_req' \in [Workers -> Places!Request] /\ fa_req'[w] = q
      /\ \A v \in Workers \ {w} : fa_req'[v] = fa_req[v]
  BY DEF CountInv, CountTypeInv, AssetTakes
<1>2. CountTypeInv'
  <2>1. ASSUME NEW v \in Workers PROVE CountPlaced(fa_req'[v])
    BY <1>1 DEF CountInv, CountTypeInv
  <2> QED BY <1>1, <2>1 DEF CountTypeInv, CountPlaced, CountTables
<1>3. AssetsApart'
  <2>1. ASSUME NEW v \in Workers, NEW x \in Workers, v # x, fa_req'[v].pc # "idle"
        PROVE  fa_req'[x].d # fa_req'[v].d
    <3>1. CASE v = w
      BY <3>1, <2>1, <1>1 DEF AssetTakes
    <3>2. CASE x = w
      <4>1. q.d = "nowhere" \/ q.pc # "idle"
        BY DEF CountPlaced
      <4>2. fa_req[v].d # "nowhere" /\ fa_req'[v] = fa_req[v]
        BY <3>2, <2>1, <1>1 DEF CountInv, CountTypeInv, CountPlaced
      <4> QED BY <4>1, <4>2, <3>2, <2>1, <1>1 DEF AssetTakes
    <3>3. CASE v # w /\ x # w
      BY <3>3, <2>1, <1>1 DEF CountInv, AssetsApart
    <3> QED BY <3>1, <3>2, <3>3
  <2> QED BY <2>1 DEF AssetsApart
<1>4. ASSUME NEW v \in Workers PROVE CountHeld(fa_req[v])'
  <2>1. CASE v = w
    <3>1. fa_req[v]' = q
      BY <2>1, <1>1
    <3> QED BY <3>1
  <2>2. CASE v # w
    <3>1. PICK r \in Places!Request :
             /\ r = fa_req[v] /\ CountPlaced(r) /\ CountHeld(r) /\ r.copy \in Places!Asset
             /\ r.item \in [CountedAssets -> Places!Item]
             /\ r.pc # "idle" => \A x \in Workers \ {v} : fa_req[x].d # r.d
      BY CountRequest
    <3>2. fa_req[v]' = r
      BY <2>2, <3>1, <1>1
    <3>3. r.d \in PhysicalCounts => Steady(r.d)
      <4>1. SUFFICES ASSUME r.d \in PhysicalCounts PROVE r.d # e
        OBVIOUS
      <4>2. r.pc # "idle" /\ r.d # "nowhere"
        BY <4>1, <3>1 DEF CountPlaced, CountConstants
      <4>3. r.d # fa_req[w].d
        BY <4>2, <3>1, <2>2
      <4>4. r.d # q.d
        <5>1. q.pc = "idle" => q.d = "nowhere"
          BY DEF CountPlaced
        <5> QED BY <5>1, <4>2, <3>1, <2>2 DEF AssetTakes
      <4> QED BY <4>3, <4>4
    <3>4. CountHeld(r)'
      BY <3>1, <3>3, SteadyHeld
    <3> QED BY <3>2, <3>4
  <2> QED BY <2>1, <2>2
<1>5. ASSUME NEW c \in PhysicalCounts PROVE CountStands(c)'
  <2>1. CASE c = e
    BY <2>1
  <2>2. CASE c # e
    BY <2>2, SteadyStands DEF CountInv
  <2> QED BY <2>1, <2>2
<1>6. (\A t \in AssetTransfers : transfer[t].status # "none" => Goes(t))'
  BY DEF CountTables
<1> QED BY <1>2, <1>3, <1>4, <1>5, <1>6 DEF CountInv

\* Where no asset moves.
LEMMA NobodyMoves ==
    ASSUME CountInv, UNCHANGED <<asset, transfer, edited, moved>>
    PROVE  /\ asset' \in [CountedAssets -> Places!Asset]
           /\ transfer' \in [AssetTransfers -> Places!Transfer]
           /\ moved' \in [PhysicalCounts -> SUBSET CountedAssets]
           /\ edited' \subseteq CountedAssets
           /\ \A t \in AssetTransfers : Goes(t) => Goes(t)'
           /\ \A t \in AssetTransfers : transfer'[t].status # "none" => Goes(t)'
           /\ \A c \in PhysicalCounts : count'[c] = count[c] => Steady(c)
  BY DEF CountInv, CountTypeInv, Goes, Steady

\* A request that works on no count yet, or no more.
LEMMA CountQuiet ==
    ASSUME CountConstants, CountInv, NEW w \in Workers, NEW q \in Places!Request,
           AssetTakes(w, q), UNCHANGED <<asset, transfer, count, edited, moved>>, fa_aborts' \in Nat,
           CountPlaced(q), CountHeld(q)'
    PROVE  CountInv'
<1>1. CountTables
  BY NobodyMoves DEF CountTables, CountInv, CountTypeInv
<1>2. \A c \in PhysicalCounts : Steady(c)
  BY NobodyMoves
<1>3. q.d \in PhysicalCounts => CountStands(q.d)'
  BY <1>2, SteadyStands DEF CountInv
<1> QED BY <1>1, <1>2, <1>3, CountFrame

\* A request that ends, and one that dies, leave nothing to be held.
LEMMA CountEnds ==
    ASSUME NEW w \in Workers, Places!Finish(w)
    PROVE  \E q \in Places!Request :
              q.pc = "idle" /\ AssetTakes(w, q) /\ CountPlaced(q) /\ CountHeld(q)'
<1>1. PICK q : q = Places!Idle
  OBVIOUS
<1>2. q \in Places!Request /\ q.pc = "idle" /\ q.d = "nowhere" /\ fa_req' = [fa_req EXCEPT ![w] = q]
  BY <1>1, CountIdle DEF Places!Finish
<1> QED BY <1>2 DEF AssetTakes, CountPlaced, CountLabels, CountHeld

\* Writing a row tells the other counts that the asset has moved.
LEMMA WriteMoves ==
    ASSUME CountInv, NEW w \in Workers, NEW a \in CountedAssets, NEW row \in Places!Asset,
           Places!Write(w, a, row), asset[a].made => row.made
    PROVE  /\ asset' \in [CountedAssets -> Places!Asset]
           /\ asset'[a] = row /\ \A b \in CountedAssets \ {a} : asset'[b] = asset[b]
           /\ moved' \in [PhysicalCounts -> SUBSET CountedAssets] /\ edited' \subseteq CountedAssets
           /\ \A c \in PhysicalCounts : fa_req[w].d = c => moved'[c] = moved[c]
           /\ \A c \in PhysicalCounts : fa_req[w].d # c /\ count'[c] = count[c] => Steady(c)
<1>1. /\ asset' = [asset EXCEPT ![a] = row]
      /\ moved' = [c \in PhysicalCounts |-> IF row.loc = asset[a].loc \/ fa_req[w].d = c
                                            THEN moved[c] ELSE moved[c] \cup {a}]
  BY DEF Places!Write
<1>2. /\ asset \in [CountedAssets -> Places!Asset]
      /\ moved \in [PhysicalCounts -> SUBSET CountedAssets]
  BY DEF CountInv, CountTypeInv
<1>3. /\ asset' \in [CountedAssets -> Places!Asset]
      /\ asset'[a] = row /\ \A b \in CountedAssets \ {a} : asset'[b] = asset[b]
  BY <1>1, <1>2
<1>4. moved' \in [PhysicalCounts -> SUBSET CountedAssets] /\ edited' \subseteq CountedAssets
  BY <1>1, <1>2 DEF Places!Write, CountInv, CountTypeInv
<1>5. \A c \in PhysicalCounts : fa_req[w].d = c => moved'[c] = moved[c]
  BY <1>1
<1>6. ASSUME NEW c \in PhysicalCounts, fa_req[w].d # c, count'[c] = count[c] PROVE Steady(c)
  <2>1. ASSUME NEW b \in CountedAssets, asset[b].made
        PROVE  /\ asset'[b].made
               /\ b \in moved'[c] \/ (b \notin moved[c] /\ asset'[b].loc = asset[b].loc)
    <3>1. moved'[c] = IF row.loc = asset[a].loc THEN moved[c] ELSE moved[c] \cup {a}
      BY <1>1, <1>6
    <3>2. CASE b = a
      BY <3>1, <3>2, <2>1, <1>3
    <3>3. CASE b # a
      BY <3>1, <3>3, <2>1, <1>3
    <3> QED BY <3>2, <3>3
  <2> QED BY <2>1, <1>6 DEF Steady
<1> QED BY <1>3, <1>4, <1>5, <1>6

-----------------------------------------------------------------------------
(* The steps of assets and transfers. *)

LEMMA CreateAssetCounts ==
    ASSUME CountConstants, CountInv, NEW w \in Workers, NEW a \in CountedAssets,
           NEW loc \in Places!Places, NEW cost \in {1}, NEW life \in {1},
           Places!CreateAsset(w, a, loc, cost, life)
    PROVE  CountInv'
<1>1. PICK r \in Places!Request :
         /\ r = fa_req[w] /\ CountPlaced(r) /\ CountHeld(r) /\ r.copy \in Places!Asset
         /\ r.item \in [CountedAssets -> Places!Item]
         /\ r.pc # "idle" => \A v \in Workers \ {w} : fa_req[v].d # r.d
  BY CountRequest
<1>2. PICK row : row = [made |-> TRUE, loc |-> loc, cost |-> cost, life |-> life]
  OBVIOUS
<1>3. /\ asset' = [asset EXCEPT ![a] = row]
      /\ fa_req' = [fa_req EXCEPT ![w] = [Places!Idle EXCEPT !.op = "create", !.pc = "profile",
                                                             !.d = a, !.copy = row]]
      /\ UNCHANGED <<transfer, count, edited, moved, fa_aborts>>
      /\ Places!MayStart(w, "create", a) /\ ~asset[a].made
  BY <1>2, Zenon DEF Places!CreateAsset, Places!history
<1>4. row \in Places!Asset /\ row.made
  BY <1>2 DEF Places!Asset
<1> DEFINE q == [Places!Idle EXCEPT !.op = "create", !.pc = "profile", !.d = a, !.copy = row]
<1>5. q \in Places!Request /\ q.pc = "profile" /\ q.d = a
  BY <1>4, CountIdle DEF Places!Request
<1>6. fa_req' = [fa_req EXCEPT ![w] = q]
  BY <1>3
<1> HIDE DEF q
<1>7. \A v \in Workers : fa_req[v].d # a
  BY <1>3 DEF Places!MayStart
<1>8. AssetTakes(w, q) /\ CountPlaced(q)
  BY <1>5, <1>6, <1>7 DEF AssetTakes, CountPlaced, CountLabels, CountConstants
<1>9. /\ asset' \in [CountedAssets -> Places!Asset]
      /\ \A b \in CountedAssets \ {a} : asset'[b] = asset[b]
  BY <1>3, <1>4 DEF CountInv, CountTypeInv
<1>10. CountTables
  BY <1>3, <1>9 DEF CountTables, CountInv, CountTypeInv, Goes
<1>11. \A c \in PhysicalCounts : Steady(c)
  BY <1>3, <1>9 DEF Steady
<1>12. CountHeld(q)'
  BY <1>5 DEF CountHeld
<1>13. a \notin PhysicalCounts
  BY DEF CountConstants
<1> QED BY <1>5, <1>8, <1>10, <1>11, <1>12, <1>13, CountFrame

LEMMA SaveProfileCounts ==
    ASSUME CountConstants, CountInv, NEW w \in Workers, Places!SaveProfile(w)
    PROVE  CountInv'
<1>1. PICK r \in Places!Request :
         /\ r = fa_req[w] /\ CountPlaced(r) /\ CountHeld(r) /\ r.copy \in Places!Asset
         /\ r.item \in [CountedAssets -> Places!Item]
         /\ r.pc # "idle" => \A v \in Workers \ {w} : fa_req[v].d # r.d
  BY CountRequest
<1>2. /\ r.pc = "profile" /\ r.d \in CountedAssets
      /\ fa_req' = [fa_req EXCEPT ![w].pc = "schedule"]
      /\ UNCHANGED <<asset, transfer, count, edited, moved, fa_aborts>>
  BY <1>1 DEF Places!SaveProfile, Places!At, CountPlaced, Places!history
<1> DEFINE q == [r EXCEPT !.pc = "schedule"]
<1>3. q \in Places!Request /\ q.pc = "schedule" /\ q.d = r.d
  BY DEF Places!Request
<1>4. fa_req' = [fa_req EXCEPT ![w] = q]
  BY <1>1, <1>2 DEF CountInv, CountTypeInv
<1> HIDE DEF q
<1>5. AssetTakes(w, q) /\ CountPlaced(q) /\ CountHeld(q)' /\ fa_aborts' \in Nat
  BY <1>1, <1>2, <1>3, <1>4
     DEF AssetTakes, CountPlaced, CountLabels, CountConstants, CountHeld, CountInv, CountTypeInv
<1> QED BY <1>2, <1>3, <1>5, CountQuiet

\* The steps after which a worker is idle, and that change nothing else of counts.
LEMMA CountIdles ==
    ASSUME CountConstants, CountInv, NEW w \in Workers,
           Places!SaveSchedule(w) \/ Places!EndReconcile(w) \/ Places!Crash(w)
    PROVE  CountInv'
<1>1. PICK r \in Places!Request :
         /\ r = fa_req[w] /\ CountPlaced(r) /\ CountHeld(r) /\ r.copy \in Places!Asset
         /\ r.item \in [CountedAssets -> Places!Item]
         /\ r.pc # "idle" => \A v \in Workers \ {w} : fa_req[v].d # r.d
  BY CountRequest
<1>2. Places!Finish(w) /\ UNCHANGED <<asset, transfer, count, edited, moved>> /\ fa_aborts' \in Nat
  BY DEF Places!SaveSchedule, Places!EndReconcile, Places!Crash, Places!register, Places!history, CountInv, CountTypeInv
<1>3. PICK q \in Places!Request :
         q.pc = "idle" /\ AssetTakes(w, q) /\ CountPlaced(q) /\ CountHeld(q)'
  BY <1>2, CountEnds
<1> QED BY <1>2, <1>3, CountQuiet

LEMMA EditAssetCounts ==
    ASSUME CountConstants, CountInv, NEW w \in Workers, NEW a \in CountedAssets, Places!EditAsset(w, a)
    PROVE  CountInv'
<1>1. PICK r \in Places!Request :
         /\ r = fa_req[w] /\ CountPlaced(r) /\ CountHeld(r) /\ r.copy \in Places!Asset
         /\ r.item \in [CountedAssets -> Places!Item]
         /\ r.pc # "idle" => \A v \in Workers \ {w} : fa_req[v].d # r.d
  BY CountRequest
<1>2. PICK row \in Places!Asset : row = asset[a]
  BY DEF CountInv, CountTypeInv
<1>3. /\ fa_req' = [fa_req EXCEPT ![w] = [Places!Idle EXCEPT !.op = "edit", !.pc = "edit",
                                                             !.d = a, !.copy = asset[a]]]
      /\ UNCHANGED <<asset, transfer, count, edited, moved, fa_aborts>>
      /\ Places!MayStart(w, "edit", a) /\ asset[a].made
  BY Zenon DEF Places!EditAsset, Places!register, Places!history
<1> DEFINE q == [Places!Idle EXCEPT !.op = "edit", !.pc = "edit", !.d = a, !.copy = row]
<1>4. q \in Places!Request /\ q.pc = "edit" /\ q.d = a /\ q.copy = row
  BY CountIdle DEF Places!Request
<1>5. fa_req' = [fa_req EXCEPT ![w] = q]
  BY <1>2, <1>3, Zenon
<1> HIDE DEF q
<1>6. \A v \in Workers : fa_req[v].d # a
  BY <1>3 DEF Places!MayStart
<1>7. AssetTakes(w, q) /\ CountPlaced(q) /\ CountHeld(q)' /\ fa_aborts' \in Nat
  BY <1>2, <1>3, <1>4, <1>5, <1>6
     DEF AssetTakes, CountPlaced, CountLabels, CountConstants, CountHeld, CountInv, CountTypeInv
<1> QED BY <1>3, <1>4, <1>7, CountQuiet

LEMMA SaveEditCounts ==
    ASSUME CountConstants, CountInv, NEW w \in Workers, Places!SaveEdit(w)
    PROVE  CountInv'
<1>1. PICK r \in Places!Request :
         /\ r = fa_req[w] /\ CountPlaced(r) /\ CountHeld(r) /\ r.copy \in Places!Asset
         /\ r.item \in [CountedAssets -> Places!Item]
         /\ r.pc # "idle" => \A v \in Workers \ {w} : fa_req[v].d # r.d
  BY CountRequest
<1>2. r.pc = "edit" /\ r.d \in CountedAssets /\ r.copy.made
  BY <1>1 DEF Places!SaveEdit, Places!At, CountPlaced, CountHeld
<1>3. PICK loc \in Places!Places, cost \in {1}, life \in {1} :
         Places!Write(w, fa_req[w].d, [fa_req[w].copy EXCEPT !.loc = loc, !.cost = cost, !.life = life])
  BY Zenon DEF Places!SaveEdit
<1>4. PICK z \in Places!Asset : z = r.copy
  BY <1>1
<1> DEFINE row == [z EXCEPT !.loc = loc, !.cost = cost, !.life = life]
<1>5. row \in Places!Asset /\ row.made
  BY <1>2, <1>4 DEF Places!Asset
<1>6. Places!Write(w, r.d, row)
  BY <1>1, <1>3, <1>4, Zenon
<1>7. Places!Finish(w) /\ UNCHANGED <<transfer, count, fa_aborts>>
  BY DEF Places!SaveEdit
<1> HIDE DEF row
<1>8. /\ asset' \in [CountedAssets -> Places!Asset]
      /\ moved' \in [PhysicalCounts -> SUBSET CountedAssets] /\ edited' \subseteq CountedAssets
      /\ \A c \in PhysicalCounts : fa_req[w].d # c /\ count'[c] = count[c] => Steady(c)
  BY <1>2, <1>5, <1>6, WriteMoves
<1>9. r.d \notin PhysicalCounts
  BY <1>2 DEF CountConstants
<1>10. CountTables
  BY <1>7, <1>8 DEF CountTables, CountInv, CountTypeInv, Goes
<1>11. \A c \in PhysicalCounts : Steady(c)
  BY <1>1, <1>7, <1>8, <1>9
<1>12. PICK q \in Places!Request :
         q.pc = "idle" /\ AssetTakes(w, q) /\ CountPlaced(q) /\ CountHeld(q)'
  BY <1>7, CountEnds
<1> QED BY <1>1, <1>9, <1>10, <1>11, <1>12, CountFrame

LEMMA CompleteTransferCounts ==
    ASSUME CountConstants, CountInv, NEW w \in Workers, NEW t \in AssetTransfers, Places!CompleteTransfer(w, t)
    PROVE  CountInv'
<1>1. PICK r \in Places!Request :
         /\ r = fa_req[w] /\ CountPlaced(r) /\ CountHeld(r) /\ r.copy \in Places!Asset
         /\ r.item \in [CountedAssets -> Places!Item]
         /\ r.pc # "idle" => \A v \in Workers \ {w} : fa_req[v].d # r.d
  BY CountRequest
<1>2. PICK z \in CountedAssets : z = transfer[t].asset
  BY DEF Places!CompleteTransfer, CountInv, Goes
<1>3. PICK row \in Places!Asset : row = asset[z]
  BY DEF CountInv, CountTypeInv
<1>4. /\ fa_req' = [fa_req EXCEPT ![w] = [Places!Idle EXCEPT !.op = "transfer", !.pc = "move",
                                              !.d = t, !.copy = asset[transfer[t].asset]]]
      /\ UNCHANGED <<asset, transfer, count, edited, moved, fa_aborts>>
      /\ Places!MayStart(w, "transfer", t)
  BY Zenon DEF Places!CompleteTransfer, Places!register, Places!history
<1> DEFINE q == [Places!Idle EXCEPT !.op = "transfer", !.pc = "move", !.d = t, !.copy = row]
<1>5. q \in Places!Request /\ q.pc = "move" /\ q.d = t
  BY CountIdle DEF Places!Request
<1>6. fa_req' = [fa_req EXCEPT ![w] = q]
  BY <1>2, <1>3, <1>4, Zenon
<1> HIDE DEF q
<1>7. \A v \in Workers : fa_req[v].d # t
  BY <1>4 DEF Places!MayStart
<1>8. CountHeld(q)'
  BY <1>2, <1>4, <1>5 DEF CountHeld, Goes
<1>9. AssetTakes(w, q) /\ CountPlaced(q) /\ fa_aborts' \in Nat
  BY <1>4, <1>5, <1>6, <1>7
     DEF AssetTakes, CountPlaced, CountLabels, CountConstants, CountInv, CountTypeInv
<1> QED BY <1>4, <1>5, <1>8, <1>9, CountQuiet

LEMMA SaveMoveCounts ==
    ASSUME CountConstants, CountInv, NEW w \in Workers, Places!SaveMove(w)
    PROVE  CountInv'
<1>1. PICK r \in Places!Request :
         /\ r = fa_req[w] /\ CountPlaced(r) /\ CountHeld(r) /\ r.copy \in Places!Asset
         /\ r.item \in [CountedAssets -> Places!Item]
         /\ r.pc # "idle" => \A v \in Workers \ {w} : fa_req[v].d # r.d
  BY CountRequest
<1>2. r.pc = "move" /\ r.d \in AssetTransfers /\ Goes(r.d)
  BY <1>1 DEF Places!SaveMove, Places!At, CountPlaced, CountHeld
<1>3. PICK t \in Places!Transfer : t = transfer[r.d] /\ t.asset \in CountedAssets
  BY <1>2 DEF CountInv, CountTypeInv, Goes
<1>4. PICK z \in Places!Asset : z = asset[t.asset]
  BY <1>3 DEF CountInv, CountTypeInv
<1>5. PICK loc \in Places!Places : loc = IF t.to = "nowhere" THEN r.copy.loc ELSE t.to
  <2>1. t.to \in Places!Places /\ r.copy.loc \in Places!Places
    BY <1>1 DEF Places!Transfer, Places!Asset
  <2> QED BY <2>1
<1> DEFINE row == [z EXCEPT !.loc = loc]
<1>6. row \in Places!Asset /\ row.made = z.made
  BY DEF Places!Asset
<1>7. Places!Write(w, t.asset, row)
  <2>1. LET x == transfer[fa_req[w].d] IN
           Places!Write(w, x.asset, [asset[x.asset] EXCEPT
                           !.loc = IF x.to = Places!Nowhere THEN fa_req[w].copy.loc ELSE x.to])
    BY Zenon DEF Places!SaveMove
  <2> QED BY <1>1, <1>3, <1>4, <1>5, <2>1, Zenon DEF Places!Nowhere
<1>8. fa_req' = [fa_req EXCEPT ![w].pc = "transferred"] /\ UNCHANGED <<transfer, count, fa_aborts>>
  BY DEF Places!SaveMove
<1> HIDE DEF row
<1> DEFINE q == [r EXCEPT !.pc = "transferred"]
<1>9. q \in Places!Request /\ q.pc = "transferred" /\ q.d = r.d
  BY DEF Places!Request
<1>10. fa_req' = [fa_req EXCEPT ![w] = q]
  BY <1>1, <1>8 DEF CountInv, CountTypeInv
<1> HIDE DEF q
<1>11. /\ asset' \in [CountedAssets -> Places!Asset]
       /\ moved' \in [PhysicalCounts -> SUBSET CountedAssets] /\ edited' \subseteq CountedAssets
       /\ \A c \in PhysicalCounts : fa_req[w].d # c /\ count'[c] = count[c] => Steady(c)
  BY <1>3, <1>4, <1>6, <1>7, WriteMoves
<1>12. r.d \notin PhysicalCounts
  BY <1>2 DEF CountConstants
<1>13. CountTables
  BY <1>8, <1>11 DEF CountTables, CountInv, CountTypeInv, Goes
<1>14. \A c \in PhysicalCounts : Steady(c)
  BY <1>1, <1>8, <1>11, <1>12
<1>15. CountHeld(q)'
  BY <1>2, <1>8, <1>9 DEF CountHeld, Goes
<1>16. AssetTakes(w, q) /\ CountPlaced(q)
  BY <1>1, <1>2, <1>9, <1>10 DEF AssetTakes, CountPlaced, CountLabels, CountConstants
<1> QED BY <1>1, <1>9, <1>12, <1>13, <1>14, <1>15, <1>16, CountFrame

LEMMA SaveTransferCounts ==
    ASSUME CountConstants, CountInv, NEW w \in Workers, Places!SaveTransfer(w)
    PROVE  CountInv'
<1>1. PICK r \in Places!Request :
         /\ r = fa_req[w] /\ CountPlaced(r) /\ CountHeld(r) /\ r.copy \in Places!Asset
         /\ r.item \in [CountedAssets -> Places!Item]
         /\ r.pc # "idle" => \A v \in Workers \ {w} : fa_req[v].d # r.d
  BY CountRequest
<1>2. r.pc = "transferred" /\ r.d \in AssetTransfers /\ Goes(r.d)
  BY <1>1 DEF Places!SaveTransfer, Places!At, CountPlaced, CountHeld
<1>3. /\ transfer' = [transfer EXCEPT ![r.d].status = "completed"] /\ Places!Finish(w)
      /\ UNCHANGED <<asset, count, edited, moved, fa_aborts>>
  BY <1>1 DEF Places!SaveTransfer, Places!register, Places!history
<1>4. PICK t \in Places!Transfer : t = transfer[r.d] /\ t.asset \in CountedAssets
  BY <1>2 DEF CountInv, CountTypeInv, Goes
<1>5. [t EXCEPT !.status = "completed"] \in Places!Transfer
      /\ [t EXCEPT !.status = "completed"].asset = t.asset
  BY DEF Places!Transfer
<1>6. transfer' = [transfer EXCEPT ![r.d] = [t EXCEPT !.status = "completed"]]
  BY <1>3, <1>4
<1>7. /\ transfer' \in [AssetTransfers -> Places!Transfer] /\ transfer'[r.d].asset = t.asset
      /\ \A x \in AssetTransfers \ {r.d} : transfer'[x] = transfer[x]
  BY <1>2, <1>5, <1>6 DEF CountInv, CountTypeInv
<1>8. /\ \A x \in AssetTransfers : Goes(x) => Goes(x)'
      /\ \A x \in AssetTransfers : transfer'[x].status # "none" => Goes(x)'
  BY <1>4, <1>7 DEF CountInv, Goes
<1>9. CountTables
  BY <1>3, <1>7, <1>8 DEF CountTables, CountInv, CountTypeInv
<1>10. \A c \in PhysicalCounts : Steady(c)
  BY <1>3 DEF Steady
<1>11. r.d \notin PhysicalCounts
  BY <1>2 DEF CountConstants
<1>12. PICK q \in Places!Request :
         q.pc = "idle" /\ AssetTakes(w, q) /\ CountPlaced(q) /\ CountHeld(q)'
  BY <1>3, CountEnds
<1> QED BY <1>1, <1>9, <1>10, <1>11, <1>12, CountFrame

-----------------------------------------------------------------------------
(* The steps that no request takes. *)

LEMMA CountTouched ==
    ASSUME CountInv, NEW e, CountTables, UNCHANGED fa_req,
           \A v \in Workers : fa_req[v].d # e,
           \A c \in PhysicalCounts \ {e} : Steady(c),
           e \in PhysicalCounts => CountStands(e)'
    PROVE  CountInv'
<1>1. CountTypeInv'
  BY DEF CountInv, CountTypeInv, CountPlaced, CountTables
<1>2. AssetsApart'
  BY DEF CountInv, AssetsApart
<1>3. ASSUME NEW v \in Workers PROVE CountHeld(fa_req[v])'
  <2>1. PICK r \in Places!Request :
           /\ r = fa_req[v] /\ CountPlaced(r) /\ CountHeld(r) /\ r.copy \in Places!Asset
           /\ r.item \in [CountedAssets -> Places!Item]
           /\ r.pc # "idle" => \A x \in Workers \ {v} : fa_req[x].d # r.d
    BY CountRequest
  <2>2. r.d # e /\ fa_req[v]' = r
    BY <2>1
  <2>3. CountHeld(r)'
    BY <2>1, <2>2, SteadyHeld
  <2> QED BY <2>2, <2>3
<1>4. ASSUME NEW c \in PhysicalCounts PROVE CountStands(c)'
  <2>1. CASE c = e
    BY <2>1
  <2>2. CASE c # e
    BY <2>2, SteadyStands DEF CountInv
  <2> QED BY <2>1, <2>2
<1>5. (\A t \in AssetTransfers : transfer[t].status # "none" => Goes(t))'
  BY DEF CountTables
<1> QED BY <1>1, <1>2, <1>3, <1>4, <1>5 DEF CountInv

\* A transfer is written; no asset and no count is.
LEMMA TransferWritten ==
    ASSUME CountConstants, CountInv, NEW t \in AssetTransfers, NEW row \in Places!Transfer,
           row.asset \in CountedAssets, transfer' = [transfer EXCEPT ![t] = row],
           UNCHANGED <<asset, count, edited, moved, fa_req, fa_aborts>>
    PROVE  CountInv'
<1>1. /\ transfer' \in [AssetTransfers -> Places!Transfer] /\ transfer'[t].asset = row.asset
      /\ \A x \in AssetTransfers \ {t} : transfer'[x] = transfer[x]
  BY DEF CountInv, CountTypeInv
<1>2. /\ \A x \in AssetTransfers : Goes(x) => Goes(x)'
      /\ \A x \in AssetTransfers : transfer'[x].status # "none" => Goes(x)'
  BY <1>1 DEF CountInv, Goes
<1>3. CountTables
  BY <1>1, <1>2 DEF CountTables, CountInv, CountTypeInv
<1>4. \A c \in PhysicalCounts : Steady(c)
  BY DEF Steady
<1>5. PICK e : e \notin PhysicalCounts /\ \A v \in Workers : fa_req[v].d # e
  <2>1. PICK e : e \notin PhysicalCounts \cup (CountedAssets \cup AssetTransfers \cup {"nowhere"})
    <3>1. PICK S : S = PhysicalCounts \cup (CountedAssets \cup AssetTransfers \cup {"nowhere"})
      OBVIOUS
    <3>2. \E e : e \notin S
      <4>1. PICK e : e = {x \in S : x \notin x}
        OBVIOUS
      <4>2. e \notin S
        BY <4>1
      <4> QED BY <4>2
    <3> QED BY <3>1, <3>2
  <2>2. ASSUME NEW v \in Workers PROVE fa_req[v].d # e
    <3>1. fa_req[v] \in Places!Request
      BY DEF CountInv, CountTypeInv
    <3>2. fa_req[v].d \in CountedAssets \cup AssetTransfers \cup PhysicalCounts \cup {"nowhere"}
      BY <3>1 DEF Places!Request, Places!Nowhere
    <3> QED BY <2>1, <3>2
  <2> QED BY <2>1, <2>2
<1> QED BY <1>3, <1>4, <1>5, CountTouched

LEMMA CreateTransferCounts ==
    ASSUME CountConstants, CountInv, NEW t \in AssetTransfers, NEW a \in CountedAssets,
           NEW to \in Places!Places, Places!CreateTransfer(t, a, to)
    PROVE  CountInv'
<1>1. PICK row : row = [status |-> "draft", asset |-> a, to |-> to]
  OBVIOUS
<1>2. row \in Places!Transfer /\ row.asset = a
  BY <1>1 DEF Places!Transfer
<1>3. /\ transfer' = [transfer EXCEPT ![t] = row]
      /\ UNCHANGED <<asset, count, edited, moved, fa_req, fa_aborts>>
  BY <1>1, Zenon DEF Places!CreateTransfer, Places!register, Places!history
<1> QED BY <1>2, <1>3, TransferWritten

LEMMA ApproveTransferCounts ==
    ASSUME CountConstants, CountInv, NEW t \in AssetTransfers, Places!ApproveTransfer(t)
    PROVE  CountInv'
<1>1. transfer[t].status # "none" /\ transfer' = [transfer EXCEPT ![t].status = "pending"]
      /\ UNCHANGED <<asset, count, edited, moved, fa_req, fa_aborts>>
  BY DEF Places!ApproveTransfer, Places!register, Places!history
<1>2. PICK z \in Places!Transfer : z = transfer[t] /\ z.asset \in CountedAssets
  BY <1>1 DEF CountInv, CountTypeInv, Goes
<1>3. [z EXCEPT !.status = "pending"] \in Places!Transfer
      /\ [z EXCEPT !.status = "pending"].asset = z.asset
  BY DEF Places!Transfer
<1>4. transfer' = [transfer EXCEPT ![t] = [z EXCEPT !.status = "pending"]]
  BY <1>1, <1>2
<1> QED BY <1>1, <1>2, <1>3, <1>4, TransferWritten

-----------------------------------------------------------------------------
(* The steps that write a count. *)

\* One count is written, no asset moves.
LEMMA CountWritten ==
    ASSUME CountInv, NEW c \in PhysicalCounts, NEW row \in Places!Count,
           count' = [count EXCEPT ![c] = row], UNCHANGED <<asset, transfer, edited, moved, fa_aborts>>
    PROVE  /\ CountTables /\ count'[c] = row
           /\ \A d \in PhysicalCounts \ {c} : Steady(d)
           /\ \A a \in CountedAssets : \A i : Stays(c, a, i) => Stays(c, a, i)'
<1>1. /\ count' \in [PhysicalCounts -> Places!Count] /\ count'[c] = row
      /\ \A d \in PhysicalCounts \ {c} : count'[d] = count[d]
  BY DEF CountInv, CountTypeInv
<1>2. CountTables
  BY <1>1, NobodyMoves DEF CountTables, CountInv, CountTypeInv
<1>3. \A d \in PhysicalCounts \ {c} : Steady(d)
  BY <1>1, NobodyMoves
<1>4. \A a \in CountedAssets : \A i : Stays(c, a, i) => Stays(c, a, i)'
  BY DEF Stays, IsAt
<1> QED BY <1>1, <1>2, <1>3, <1>4

LEMMA CountItemCounts ==
    ASSUME CountConstants, CountInv, NEW c \in PhysicalCounts, NEW a \in CountedAssets,
           NEW found \in Places!Places, Places!CountItem(c, a, found)
    PROVE  CountInv'
<1>1. /\ count[c].item[a].listed
      /\ \A w \in Workers : fa_req[w].d # c
      /\ UNCHANGED <<asset, transfer, edited, moved, fa_req, fa_aborts>>
      /\ count' = [count EXCEPT ![c].item[a].is_found = TRUE, ![c].item[a].found = found]
  BY DEF Places!CountItem, Places!register, Places!history
<1>2. PICK z \in Places!Count : z = count[c] /\ z.item \in [CountedAssets -> Places!Item]
  BY DEF CountInv, CountTypeInv, Places!Count
<1>3. PICK i \in Places!Item : i = z.item[a]
  BY <1>2
<1>4. PICK j \in Places!Item : /\ j = [i EXCEPT !.is_found = TRUE, !.found = found]
                               /\ j.listed = i.listed /\ j.expected = i.expected
  <2> DEFINE x == [i EXCEPT !.is_found = TRUE, !.found = found]
  <2>1. x \in Places!Item /\ x.listed = i.listed /\ x.expected = i.expected
    BY DEF Places!Item
  <2> QED BY <2>1
<1>5. PICK f \in [CountedAssets -> Places!Item] :
         f = [z.item EXCEPT ![a] = j] /\ f[a] = j /\ \A b \in CountedAssets \ {a} : f[b] = z.item[b]
  <2>1. [z.item EXCEPT ![a] = j] \in [CountedAssets -> Places!Item]
    BY <1>2, <1>4
  <2> QED BY <1>2, <1>4, <2>1
<1>6. PICK row \in Places!Count : row = [z EXCEPT !.item = f] /\ row.status = z.status /\ row.item = f
  <2> DEFINE x == [z EXCEPT !.item = f]
  <2>1. x \in Places!Count /\ x.status = z.status /\ x.item = f
    BY <1>2, <1>5 DEF Places!Count
  <2> QED BY <2>1
<1>7. count' = [count EXCEPT ![c] = row]
  <2>1. count \in [PhysicalCounts -> Places!Count]
    BY DEF CountInv, CountTypeInv
  <2>2. PICK h : h = [count EXCEPT ![c].item[a].is_found = TRUE]
    OBVIOUS
  <2>3. count' = [h EXCEPT ![c].item[a].found = found]
    BY <1>1, <2>2, Zenon
  <2>4. PICK i2 \in Places!Item : i2 = [i EXCEPT !.is_found = TRUE]
    <3>1. [i EXCEPT !.is_found = TRUE] \in Places!Item
      BY DEF Places!Item
    <3> QED BY <3>1
  <2>5. PICK f2 \in [CountedAssets -> Places!Item] : f2 = [z.item EXCEPT ![a] = i2]
    <3>1. [z.item EXCEPT ![a] = i2] \in [CountedAssets -> Places!Item]
      BY <1>2
    <3> QED BY <3>1
  <2>6. PICK z2 \in Places!Count : z2 = [z EXCEPT !.item = f2] /\ z2.item = f2
    <3>1. [z EXCEPT !.item = f2] \in Places!Count /\ [z EXCEPT !.item = f2].item = f2
      BY DEF Places!Count
    <3> QED BY <3>1
  <2>7. h = [count EXCEPT ![c] = z2] /\ h \in [PhysicalCounts -> Places!Count] /\ h[c] = z2
    BY <2>1, <2>2, <2>4, <2>5, <2>6, <1>2, <1>3
  <2>8. f2[a] = i2 /\ [f2 EXCEPT ![a] = j] = f
    <3>1. [f2 EXCEPT ![a] = j] = [z.item EXCEPT ![a] = j]
      BY <2>5, <1>2
    <3> QED BY <3>1, <2>5, <1>2, <1>5
  <2>9. [i2 EXCEPT !.found = found] = j
    BY <2>4, <1>4
  <2>10. [z2 EXCEPT !.item = f] = row
    BY <2>6, <1>6
  <2>11. count' = [h EXCEPT ![c] = [z2 EXCEPT !.item = [f2 EXCEPT ![a] = [i2 EXCEPT !.found = found]]]]
    BY <2>3, <2>6, <2>7, <2>8
  <2>12. count' = [h EXCEPT ![c] = row]
    BY <2>8, <2>9, <2>10, <2>11, Zenon
  <2> QED BY <2>1, <2>7, <2>12
<1>8. /\ CountTables /\ count'[c] = row /\ \A d \in PhysicalCounts \ {c} : Steady(d)
      /\ \A b \in CountedAssets : \A x : Stays(c, b, x) => Stays(c, b, x)'
  BY <1>1, <1>7, CountWritten
<1>9. CountStands(c)'
  <2>1. CountStands(c)
    BY DEF CountInv
  <2>2. ASSUME NEW b \in CountedAssets
        PROVE  f[b].listed = z.item[b].listed /\ (f[b].is_found => f[b].listed)
    BY <2>1, <1>1, <1>2, <1>3, <1>4, <1>5 DEF CountStands
  <2>3. count[c]' = row /\ row.item = f
    BY <1>6, <1>8
  <2> QED BY <2>1, <2>2, <2>3, <1>1, <1>2 DEF CountStands
<1> QED BY <1>1, <1>8, <1>9, CountTouched

LEMMA OpenCountCounts ==
    ASSUME CountConstants, CountInv, NEW w \in Workers, NEW c \in PhysicalCounts,
           NEW where \in Places!Places, Places!OpenCount(w, c, where)
    PROVE  CountInv'
<1>1. PICK r \in Places!Request :
         /\ r = fa_req[w] /\ CountPlaced(r) /\ CountHeld(r) /\ r.copy \in Places!Asset
         /\ r.item \in [CountedAssets -> Places!Item]
         /\ r.pc # "idle" => \A v \in Workers \ {w} : fa_req[v].d # r.d
  BY CountRequest
<1>2. /\ Places!MayStart(w, "open", c) /\ count[c].status = "none"
      /\ count' = [count EXCEPT ![c].status = "planned", ![c].where = where]
      /\ fa_req' = [fa_req EXCEPT ![w] = [Places!Idle EXCEPT !.op = "open", !.pc = "list", !.d = c]]
      /\ UNCHANGED <<asset, transfer, edited, moved, fa_aborts>>
  BY Zenon DEF Places!OpenCount, Places!register, Places!history
<1>3. PICK z \in Places!Count : z = count[c] /\ z.item \in [CountedAssets -> Places!Item]
  BY DEF CountInv, CountTypeInv, Places!Count
<1>4. PICK row \in Places!Count : /\ row = [z EXCEPT !.status = "planned", !.where = where]
                                  /\ row.status = "planned" /\ row.item = z.item
  <2> DEFINE x == [z EXCEPT !.status = "planned", !.where = where]
  <2>1. x \in Places!Count /\ x.status = "planned" /\ x.item = z.item
    BY DEF Places!Count
  <2> QED BY <2>1
<1>5. count' = [count EXCEPT ![c] = row]
  BY <1>2, <1>3, <1>4 DEF CountInv, CountTypeInv
<1>6. CountTables /\ count'[c] = row /\ \A d \in PhysicalCounts \ {c} : Steady(d)
  BY <1>2, <1>5, CountWritten
<1>7. CountStands(c)
  BY DEF CountInv
<1>8. CountStands(c)'
  BY <1>2, <1>3, <1>4, <1>6, <1>7 DEF CountStands
<1> DEFINE q == [Places!Idle EXCEPT !.op = "open", !.pc = "list", !.d = c]
<1>9. q \in Places!Request /\ q.pc = "list" /\ q.d = c
  BY CountIdle DEF Places!Request
<1>10. fa_req' = [fa_req EXCEPT ![w] = q]
  BY <1>2
<1> HIDE DEF q
<1>11. \A v \in Workers : fa_req[v].d # c
  BY <1>2 DEF Places!MayStart
<1>12. AssetTakes(w, q) /\ CountPlaced(q)
  BY <1>9, <1>10, <1>11 DEF AssetTakes, CountPlaced, CountLabels, CountConstants
<1>13. CountHeld(q)'
  BY <1>9 DEF CountHeld
<1> QED BY <1>6, <1>8, <1>9, <1>12, <1>13, CountFrame


LEMMA ListAssetsCounts ==
    ASSUME CountConstants, CountInv, NEW w \in Workers, Places!ListAssets(w)
    PROVE  CountInv'
<1>1. PICK r \in Places!Request :
         /\ r = fa_req[w] /\ CountPlaced(r) /\ CountHeld(r) /\ r.copy \in Places!Asset
         /\ r.item \in [CountedAssets -> Places!Item]
         /\ r.pc # "idle" => \A v \in Workers \ {w} : fa_req[v].d # r.d
  BY CountRequest
<1>2. r.pc = "list" /\ r.d \in PhysicalCounts
  BY <1>1 DEF Places!ListAssets, Places!At, CountPlaced, CountLabels
<1>3. PICK where : where = count[r.d].where
  OBVIOUS
<1>4. PICK f : f = [a \in CountedAssets |->
                       IF asset[a].made /\ where \in {"nowhere", asset[a].loc}
                       THEN [Places!NoItem EXCEPT !.listed = TRUE, !.expected = asset[a].loc]
                       ELSE Places!NoItem]
  OBVIOUS
<1>5. /\ fa_req' = [fa_req EXCEPT ![w].pc = "items", ![w].item = f]
      /\ UNCHANGED <<asset, transfer, count, edited, moved, fa_aborts>>
  BY <1>1, <1>3, <1>4, Zenon DEF Places!ListAssets, Places!register, Places!history, Places!Nowhere
<1>6. ASSUME NEW a \in CountedAssets
      PROVE  /\ f[a] \in Places!Item /\ ~f[a].is_found
             /\ f[a].listed => asset[a].made
  <2>1. PICK x \in Places!Asset : x = asset[a]
    BY DEF CountInv, CountTypeInv
  <2>2. PICK n \in Places!Item : n = Places!NoItem /\ ~n.listed /\ ~n.is_found
    BY CountIdle
  <2>3. x.loc \in Places!Places
    BY DEF Places!Asset
  <2>4. PICK m \in Places!Item : /\ m = [n EXCEPT !.listed = TRUE, !.expected = x.loc]
                                 /\ ~m.is_found
    <3> DEFINE y == [n EXCEPT !.listed = TRUE, !.expected = x.loc]
    <3>1. y \in Places!Item /\ ~y.is_found
      BY <2>2, <2>3 DEF Places!Item
    <3> QED BY <3>1
  <2>5. f[a] = IF x.made /\ where \in {"nowhere", x.loc} THEN m ELSE n
    BY <1>4, <2>1, <2>2, <2>4
  <2> QED BY <2>1, <2>2, <2>4, <2>5
<1>7. f \in [CountedAssets -> Places!Item]
  BY <1>4, <1>6
<1> DEFINE q == [r EXCEPT !.pc = "items", !.item = f]
<1>8. q \in Places!Request /\ q.pc = "items" /\ q.d = r.d /\ q.item = f
  BY <1>7 DEF Places!Request
<1>9. fa_req' = [fa_req EXCEPT ![w] = q]
  BY <1>1, <1>5 DEF CountInv, CountTypeInv
<1> HIDE DEF q
<1>10. CountHeld(q)'
  BY <1>5, <1>6, <1>8 DEF CountHeld
<1>11. AssetTakes(w, q) /\ CountPlaced(q) /\ fa_aborts' \in Nat
  BY <1>1, <1>2, <1>5, <1>8, <1>9
     DEF AssetTakes, CountPlaced, CountLabels, CountConstants, CountInv, CountTypeInv
<1> QED BY <1>5, <1>8, <1>10, <1>11, CountQuiet


LEMMA InsertItemsCounts ==
    ASSUME CountConstants, CountInv, NEW w \in Workers, Places!InsertItems(w)
    PROVE  CountInv'
<1>1. PICK r \in Places!Request :
         /\ r = fa_req[w] /\ CountPlaced(r) /\ CountHeld(r) /\ r.copy \in Places!Asset
         /\ r.item \in [CountedAssets -> Places!Item]
         /\ r.pc # "idle" => \A v \in Workers \ {w} : fa_req[v].d # r.d
  BY CountRequest
<1>2. r.pc = "items" /\ r.d \in PhysicalCounts
  BY <1>1 DEF Places!InsertItems, Places!At, CountPlaced, CountLabels
<1>3. /\ count' = [count EXCEPT ![r.d].item = r.item] /\ fa_req' = [fa_req EXCEPT ![w].pc = "status"]
      /\ UNCHANGED <<asset, transfer, edited, moved, fa_aborts>>
  BY <1>1 DEF Places!InsertItems, Places!register, Places!history
<1>4. PICK z \in Places!Count : z = count[r.d]
  BY <1>2 DEF CountInv, CountTypeInv
<1>5. PICK row \in Places!Count : row = [z EXCEPT !.item = r.item] /\ row.status = z.status /\ row.item = r.item
  <2> DEFINE x == [z EXCEPT !.item = r.item]
  <2>1. x \in Places!Count /\ x.status = z.status /\ x.item = r.item
    BY <1>1 DEF Places!Count
  <2> QED BY <2>1
<1>6. count' = [count EXCEPT ![r.d] = row]
  BY <1>3, <1>4, <1>5 DEF CountInv, CountTypeInv
<1>7. /\ CountTables /\ count'[r.d] = row /\ \A d \in PhysicalCounts \ {r.d} : Steady(d)
      /\ \A a \in CountedAssets : \A i : Stays(r.d, a, i) => Stays(r.d, a, i)'
  BY <1>2, <1>3, <1>6, CountWritten
<1>8. \A a \in CountedAssets : ~r.item[a].is_found /\ (r.item[a].listed => asset[a].made)
  BY <1>1, <1>2 DEF CountHeld
<1>9. \A a \in CountedAssets : asset'[a] = asset[a]
  BY <1>3
<1>10. CountStands(r.d)'
  BY <1>5, <1>7, <1>8, <1>9 DEF CountStands
<1> DEFINE q == [r EXCEPT !.pc = "status"]
<1>11. q \in Places!Request /\ q.pc = "status" /\ q.d = r.d
  BY DEF Places!Request
<1>12. fa_req' = [fa_req EXCEPT ![w] = q]
  BY <1>1, <1>3 DEF CountInv, CountTypeInv
<1> HIDE DEF q
<1>13. AssetTakes(w, q) /\ CountPlaced(q)
  BY <1>1, <1>2, <1>11, <1>12 DEF AssetTakes, CountPlaced, CountLabels, CountConstants
<1>14. CountHeld(q)'
  BY <1>11 DEF CountHeld
<1> QED BY <1>2, <1>7, <1>10, <1>11, <1>13, <1>14, CountFrame


LEMMA BeginCountCounts ==
    ASSUME CountConstants, CountInv, NEW w \in Workers, Places!BeginCount(w)
    PROVE  CountInv'
<1>1. PICK r \in Places!Request :
         /\ r = fa_req[w] /\ CountPlaced(r) /\ CountHeld(r) /\ r.copy \in Places!Asset
         /\ r.item \in [CountedAssets -> Places!Item]
         /\ r.pc # "idle" => \A v \in Workers \ {w} : fa_req[v].d # r.d
  BY CountRequest
<1>2. r.pc = "status" /\ r.d \in PhysicalCounts
  BY <1>1 DEF Places!BeginCount, Places!At, CountPlaced, CountLabels
<1>3. /\ count' = [count EXCEPT ![r.d].status = "in_progress"] /\ Places!Finish(w)
      /\ UNCHANGED <<asset, transfer, edited, moved, fa_aborts>>
  BY <1>1 DEF Places!BeginCount, Places!register, Places!history
<1>4. PICK z \in Places!Count : z = count[r.d]
  BY <1>2 DEF CountInv, CountTypeInv
<1>5. PICK row \in Places!Count : /\ row = [z EXCEPT !.status = "in_progress"]
                                  /\ row.status = "in_progress" /\ row.item = z.item
  <2> DEFINE x == [z EXCEPT !.status = "in_progress"]
  <2>1. x \in Places!Count /\ x.status = "in_progress" /\ x.item = z.item
    BY DEF Places!Count
  <2> QED BY <2>1
<1>6. count' = [count EXCEPT ![r.d] = row]
  BY <1>3, <1>4, <1>5 DEF CountInv, CountTypeInv
<1>7. /\ CountTables /\ count'[r.d] = row /\ \A d \in PhysicalCounts \ {r.d} : Steady(d)
      /\ \A a \in CountedAssets : \A i : Stays(r.d, a, i) => Stays(r.d, a, i)'
  BY <1>2, <1>3, <1>6, CountWritten
<1>8. CountStands(r.d)
  BY <1>2 DEF CountInv
<1>9. CountStands(r.d)'
  BY <1>3, <1>4, <1>5, <1>7, <1>8 DEF CountStands
<1>10. PICK q \in Places!Request :
         q.pc = "idle" /\ AssetTakes(w, q) /\ CountPlaced(q) /\ CountHeld(q)'
  BY <1>3, CountEnds
<1> QED BY <1>1, <1>2, <1>7, <1>9, <1>10, CountFrame

-----------------------------------------------------------------------------
(* The steps of a reconciliation. *)

LEMMA ReconcileCounts ==
    ASSUME CountConstants, CountInv, NEW w \in Workers, NEW c \in PhysicalCounts, Places!Reconcile(w, c)
    PROVE  CountInv'
<1>1. PICK r \in Places!Request :
         /\ r = fa_req[w] /\ CountPlaced(r) /\ CountHeld(r) /\ r.copy \in Places!Asset
         /\ r.item \in [CountedAssets -> Places!Item]
         /\ r.pc # "idle" => \A v \in Workers \ {w} : fa_req[v].d # r.d
  BY CountRequest
<1>2. /\ Places!MayStart(w, "reconcile", c)
      /\ count' = [count EXCEPT ![c].status = "reconciled"]
      /\ moved' = [moved EXCEPT ![c] =
                      {a \in CountedAssets : asset[a].loc # count[c].item[a].expected}]
      /\ fa_req' = [fa_req EXCEPT ![w] = [Places!Idle EXCEPT !.op = "reconcile", !.pc = "load", !.d = c]]
      /\ UNCHANGED <<asset, transfer, edited, fa_aborts>>
  BY Zenon DEF Places!Reconcile, Places!register
<1>3. PICK z \in Places!Count : z = count[c]
  BY DEF CountInv, CountTypeInv
<1>4. PICK row \in Places!Count : row = [z EXCEPT !.status = "reconciled"] /\ row.item = z.item
  <2> DEFINE x == [z EXCEPT !.status = "reconciled"]
  <2>1. x \in Places!Count /\ x.item = z.item
    BY DEF Places!Count
  <2> QED BY <2>1
<1>5. /\ count' \in [PhysicalCounts -> Places!Count] /\ count'[c] = row
      /\ \A d \in PhysicalCounts \ {c} : count'[d] = count[d]
  <2>1. count' = [count EXCEPT ![c] = row]
    BY <1>2, <1>3, <1>4 DEF CountInv, CountTypeInv
  <2> QED BY <2>1 DEF CountInv, CountTypeInv
<1>6. /\ moved' \in [PhysicalCounts -> SUBSET CountedAssets]
      /\ \A a \in CountedAssets : a \in moved'[c] \/ asset[a].loc = count[c].item[a].expected
      /\ \A d \in PhysicalCounts \ {c} : moved'[d] = moved[d]
  <2>1. PICK S \in SUBSET CountedAssets :
           S = {a \in CountedAssets : asset[a].loc # count[c].item[a].expected}
    OBVIOUS
  <2>2. moved' = [moved EXCEPT ![c] = S]
    BY <1>2, <2>1
  <2> QED BY <2>1, <2>2 DEF CountInv, CountTypeInv
<1>7. CountTables /\ \A d \in PhysicalCounts \ {c} : Steady(d)
  BY <1>2, <1>5, <1>6 DEF CountTables, Steady, CountInv, CountTypeInv, Goes
<1>8. CountStands(c) /\ CountStands(c)'
  BY <1>2, <1>3, <1>4, <1>5 DEF CountInv, CountStands
<1> DEFINE q == [Places!Idle EXCEPT !.op = "reconcile", !.pc = "load", !.d = c]
<1>9. q \in Places!Request /\ q.pc = "load" /\ q.d = c
  BY CountIdle DEF Places!Request
<1>10. fa_req' = [fa_req EXCEPT ![w] = q]
  BY <1>2
<1> HIDE DEF q
<1>11. \A v \in Workers : fa_req[v].d # c
  BY <1>2 DEF Places!MayStart
<1>12. AssetTakes(w, q) /\ CountPlaced(q)
  BY <1>9, <1>10, <1>11 DEF AssetTakes, CountPlaced, CountLabels, CountConstants
<1>13. \A a \in CountedAssets : Stays(c, a, count[c].item[a])'
  BY <1>2, <1>3, <1>4, <1>5, <1>6, <1>8 DEF Stays, IsAt, CountStands
<1>14. CountHeld(q)'
  BY <1>9, <1>13 DEF CountHeld
<1> QED BY <1>7, <1>8, <1>9, <1>12, <1>14, CountFrame


LEMMA LoadItemsCounts ==
    ASSUME CountConstants, CountInv, NEW w \in Workers, Places!LoadItems(w)
    PROVE  CountInv'
<1>1. PICK r \in Places!Request :
         /\ r = fa_req[w] /\ CountPlaced(r) /\ CountHeld(r) /\ r.copy \in Places!Asset
         /\ r.item \in [CountedAssets -> Places!Item]
         /\ r.pc # "idle" => \A v \in Workers \ {w} : fa_req[v].d # r.d
  BY CountRequest
<1>2. r.pc = "load" /\ r.d \in PhysicalCounts
  BY <1>1 DEF Places!LoadItems, Places!At, CountPlaced, CountLabels
<1>3. PICK g : g = count[r.d].item /\ g \in [CountedAssets -> Places!Item]
  BY <1>2 DEF CountInv, CountTypeInv, Places!Count
<1>4. PICK f : f = [a \in CountedAssets |->
                       IF g[a].is_found /\ g[a].found # "nowhere" THEN g[a] ELSE Places!NoItem]
  OBVIOUS
<1>5. /\ fa_req' = [fa_req EXCEPT ![w].pc = "relocate", ![w].item = f]
      /\ UNCHANGED <<asset, transfer, count, edited, moved, fa_aborts>>
  BY <1>1, <1>3, <1>4, Zenon DEF Places!LoadItems, Places!register, Places!history, Places!Nowhere
<1>6. f \in [CountedAssets -> Places!Item]
  BY <1>3, <1>4, CountIdle
<1> DEFINE q == [r EXCEPT !.pc = "relocate", !.item = f]
<1>7. q \in Places!Request /\ q.pc = "relocate" /\ q.d = r.d /\ q.item = f
  BY <1>6 DEF Places!Request
<1>8. fa_req' = [fa_req EXCEPT ![w] = q]
  BY <1>1, <1>5 DEF CountInv, CountTypeInv
<1> HIDE DEF q
<1>9. ASSUME NEW a \in CountedAssets PROVE Relocated(q, a)
  <2>1. Stays(r.d, a, g[a])
    BY <1>1, <1>2, <1>3 DEF CountHeld
  <2>2. f[a] = IF FoundAt(g[a]) THEN g[a] ELSE Places!NoItem
    BY <1>4 DEF FoundAt
  <2> QED BY <2>1, <2>2, <1>3, <1>7 DEF Relocated
<1>10. CountHeld(q)
  BY <1>1, <1>2, <1>7, <1>9 DEF CountHeld
<1>11. CountHeld(q)'
  <2>1. \A a \in CountedAssets : Relocated(q, a)'
    BY <1>5, <1>9 DEF Relocated, FoundAt, Stays, IsAt
  <2> QED BY <1>5, <1>7, <1>10, <2>1 DEF CountHeld
<1>12. AssetTakes(w, q) /\ CountPlaced(q) /\ fa_aborts' \in Nat
  BY <1>1, <1>2, <1>5, <1>7, <1>8
     DEF AssetTakes, CountPlaced, CountLabels, CountConstants, CountInv, CountTypeInv
<1> QED BY <1>5, <1>7, <1>11, <1>12, CountQuiet


LEMMA RelocateCounts ==
    ASSUME CountConstants, CountInv, NEW w \in Workers, Places!Relocate(w)
    PROVE  CountInv'
<1>1. PICK r \in Places!Request :
         /\ r = fa_req[w] /\ CountPlaced(r) /\ CountHeld(r) /\ r.copy \in Places!Asset
         /\ r.item \in [CountedAssets -> Places!Item]
         /\ r.pc # "idle" => \A v \in Workers \ {w} : fa_req[v].d # r.d
  BY CountRequest
<1>2. r.pc = "relocate" /\ r.d \in PhysicalCounts
  BY <1>1 DEF Places!Relocate, Places!At, CountPlaced, CountLabels
<1>3. PICK a \in CountedAssets :
         /\ r.item[a].found # r.item[a].expected
         /\ Places!Write(w, a, [asset[a] EXCEPT !.loc = r.item[a].found])
         /\ fa_req' = [fa_req EXCEPT ![w].item[a] = Places!NoItem]
  <2>1. \E a \in Places!ToMove(w) :
           /\ Places!Write(w, a, [asset[a] EXCEPT !.loc = fa_req[w].item[a].found])
           /\ fa_req' = [fa_req EXCEPT ![w].item[a] = Places!NoItem]
    BY Zenon DEF Places!Relocate
  <2>2. Places!ToMove(w) = {a \in CountedAssets : r.item[a].found # r.item[a].expected}
    BY <1>1 DEF Places!ToMove
  <2> QED BY <2>1, <2>2, <1>1, Zenon
<1>4. UNCHANGED <<transfer, count, fa_aborts>>
  BY DEF Places!Relocate
<1>5. PICK i \in Places!Item : i = r.item[a]
  BY <1>1
<1>6. count[r.d].item[a] = i /\ FoundAt(i) /\ Stays(r.d, a, i)
  <2>1. i # Places!NoItem
    BY <1>3, <1>5, CountIdle
  <2>2. Relocated(r, a)
    BY <1>1, <1>2 DEF CountHeld
  <2> QED BY <2>1, <2>2, <1>5 DEF Relocated
<1>7. CountStands(r.d)
  BY <1>2 DEF CountInv
<1>8. asset[a].made
  BY <1>6, <1>7 DEF CountStands, FoundAt
<1>9. PICK z \in Places!Asset : z = asset[a]
  BY DEF CountInv, CountTypeInv
<1> DEFINE row == [z EXCEPT !.loc = i.found]
<1>10. row \in Places!Asset /\ row.made = z.made /\ row.loc = i.found
  BY DEF Places!Asset, Places!Item
<1>11. Places!Write(w, a, row)
  BY <1>3, <1>5, <1>9, Zenon
<1> HIDE DEF row
<1>12. /\ asset' \in [CountedAssets -> Places!Asset]
       /\ asset'[a] = row /\ \A b \in CountedAssets \ {a} : asset'[b] = asset[b]
       /\ moved' \in [PhysicalCounts -> SUBSET CountedAssets] /\ edited' \subseteq CountedAssets
       /\ \A c \in PhysicalCounts : fa_req[w].d = c => moved'[c] = moved[c]
       /\ \A c \in PhysicalCounts : fa_req[w].d # c /\ count'[c] = count[c] => Steady(c)
  BY <1>8, <1>9, <1>10, <1>11, WriteMoves
<1>13. CountTables
  BY <1>4, <1>12 DEF CountTables, CountInv, CountTypeInv, Goes
<1>14. \A c \in PhysicalCounts \ {r.d} : Steady(c)
  BY <1>1, <1>4, <1>12
<1>15. CountStands(r.d)'
  BY <1>4, <1>7, <1>8, <1>9, <1>10, <1>12 DEF CountStands
<1>16. PICK f \in [CountedAssets -> Places!Item] :
          /\ f = [r.item EXCEPT ![a] = Places!NoItem]
          /\ f[a] = Places!NoItem /\ \A b \in CountedAssets \ {a} : f[b] = r.item[b]
  <2>1. [r.item EXCEPT ![a] = Places!NoItem] \in [CountedAssets -> Places!Item]
    BY <1>1, CountIdle
  <2> QED BY <1>1, <2>1
<1> DEFINE q == [r EXCEPT !.item = f]
<1>17. q \in Places!Request /\ q.pc = "relocate" /\ q.d = r.d /\ q.item = f
  BY <1>2 DEF Places!Request
<1>18. fa_req' = [fa_req EXCEPT ![w] = q]
  BY <1>1, <1>3, <1>16 DEF CountInv, CountTypeInv
<1> HIDE DEF q
<1>19. moved'[r.d] = moved[r.d]
  BY <1>1, <1>2, <1>12
<1>20. ASSUME NEW b \in CountedAssets PROVE Relocated(q, b)'
  <2>1. CASE b = a
    <3>1. IsAt(r.d, a, i.found)'
      BY <1>8, <1>9, <1>10, <1>12 DEF IsAt
    <3> QED BY <2>1, <3>1, <1>4, <1>6, <1>16, <1>17 DEF Relocated
  <2>2. CASE b # a
    <3>1. Relocated(r, b)
      BY <1>1, <1>2 DEF CountHeld
    <3>2. asset'[b] = asset[b] /\ q.item[b] = r.item[b] /\ q.d = r.d
      BY <2>2, <1>12, <1>16, <1>17
    <3> QED BY <3>1, <3>2, <1>4, <1>19 DEF Relocated, FoundAt, Stays, IsAt
  <2> QED BY <2>1, <2>2
<1>21. CountHeld(q)'
  BY <1>17, <1>20 DEF CountHeld
<1>22. AssetTakes(w, q) /\ CountPlaced(q)
  BY <1>1, <1>2, <1>17, <1>18 DEF AssetTakes, CountPlaced, CountLabels, CountConstants
<1> QED BY <1>2, <1>13, <1>14, <1>15, <1>17, <1>21, <1>22, CountFrame


-----------------------------------------------------------------------------
LEMMA CountStutter ==
    ASSUME CountInv, UNCHANGED Places!vars
    PROVE  CountInv'
<1>1. UNCHANGED <<asset, transfer, count, edited, moved, fa_req, fa_aborts>>
  BY DEF Places!vars, Places!register, Places!history
<1>2. CountTypeInv'
  BY <1>1 DEF CountInv, CountTypeInv
<1>3. AssetsApart'
  BY <1>1 DEF CountInv, AssetsApart
<1>4. ASSUME NEW w \in Workers PROVE CountHeld(fa_req[w])'
  BY <1>1 DEF CountInv, CountHeld, Goes, Stays, IsAt, Relocated, FoundAt
<1>5. \A c \in PhysicalCounts : CountStands(c)'
  BY <1>1 DEF CountInv, CountStands, Stays, IsAt
<1>6. (\A t \in AssetTransfers : transfer[t].status # "none" => Goes(t))'
  BY <1>1 DEF CountInv, Goes
<1> QED BY <1>2, <1>3, <1>4, <1>5, <1>6 DEF CountInv

LEMMA CountInit ==
    ASSUME CountConstants, Places!Init
    PROVE  CountInv
<1>1. /\ asset = [a \in CountedAssets |-> Places!NoAsset]
      /\ transfer = [t \in AssetTransfers |-> Places!NoTransfer]
      /\ count = [c \in PhysicalCounts |-> Places!NoCount]
      /\ edited = {} /\ moved = [c \in PhysicalCounts |-> {}]
      /\ fa_req = [w \in Workers |-> Places!Idle] /\ fa_aborts = 0
  BY DEF Places!Init
<1>2. PICK q \in Places!Request : q = Places!Idle /\ q.pc = "idle" /\ q.d = "nowhere"
  BY CountIdle
<1>3. PICK n \in Places!Count : /\ n = Places!NoCount /\ n.status = "none"
                                /\ \A a \in CountedAssets : ~n.item[a].listed /\ ~n.item[a].is_found
  BY CountIdle
<1>4. /\ \A w \in Workers : fa_req[w] = q
      /\ \A c \in PhysicalCounts : count[c] = n
      /\ \A t \in AssetTransfers : transfer[t].status = "none"
  BY <1>1, <1>2, <1>3, CountIdle
<1>5. CountTypeInv
  <2>1. /\ asset \in [CountedAssets -> Places!Asset] /\ transfer \in [AssetTransfers -> Places!Transfer]
        /\ count \in [PhysicalCounts -> Places!Count] /\ moved \in [PhysicalCounts -> SUBSET CountedAssets]
        /\ edited \subseteq CountedAssets /\ fa_req \in [Workers -> Places!Request]
    BY <1>1, CountIdle
  <2>2. fa_aborts \in Nat
    <3>1. fa_aborts = 0
      BY <1>1
    <3> QED BY <3>1
  <2>3. \A w \in Workers : CountPlaced(fa_req[w])
    BY <1>2, <1>4 DEF CountPlaced, CountLabels
  <2> QED BY <2>1, <2>2, <2>3 DEF CountTypeInv
<1>6. AssetsApart
  BY <1>2, <1>4 DEF AssetsApart
<1>7. \A w \in Workers : CountHeld(fa_req[w])
  BY <1>2, <1>4 DEF CountHeld
<1>8. \A c \in PhysicalCounts : CountStands(c)
  BY <1>3, <1>4 DEF CountStands
<1> QED BY <1>4, <1>5, <1>6, <1>7, <1>8 DEF CountInv

\* One case for each disjunct of Step.
LEMMA CountStep ==
    ASSUME CountConstants, CountInv, [Places!Next]_(Places!vars)
    PROVE  CountInv'
<1>1. CASE UNCHANGED Places!vars
  BY <1>1, CountStutter
<1>2. CASE Places!Step
  <2>1. ASSUME NEW t \in AssetTransfers, Places!ApproveTransfer(t) PROVE CountInv'
    BY <2>1, ApproveTransferCounts
  <2>2. ASSUME NEW t \in AssetTransfers, NEW a \in CountedAssets, NEW to \in Places!Places,
               Places!CreateTransfer(t, a, to)
        PROVE  CountInv'
    BY <2>2, CreateTransferCounts
  <2>3. ASSUME NEW c \in PhysicalCounts, NEW a \in CountedAssets, NEW found \in Places!Places,
               Places!CountItem(c, a, found)
        PROVE  CountInv'
    BY <2>3, CountItemCounts
  <2>4. ASSUME NEW w \in Workers, NEW a \in CountedAssets, NEW l \in Places!Places,
               NEW cost \in {1}, NEW life \in {1}, Places!CreateAsset(w, a, l, cost, life)
        PROVE  CountInv'
    BY <2>4, CreateAssetCounts
  <2>5. ASSUME NEW w \in Workers, NEW a \in CountedAssets, Places!EditAsset(w, a) PROVE CountInv'
    BY <2>5, EditAssetCounts
  <2>6. ASSUME NEW w \in Workers, NEW t \in AssetTransfers, Places!CompleteTransfer(w, t)
        PROVE  CountInv'
    BY <2>6, CompleteTransferCounts
  <2>7. ASSUME NEW w \in Workers, NEW c \in PhysicalCounts, Places!Reconcile(w, c) PROVE CountInv'
    BY <2>7, ReconcileCounts
  <2>8. ASSUME NEW w \in Workers, NEW c \in PhysicalCounts, NEW l \in Places!Places,
               Places!OpenCount(w, c, l)
        PROVE  CountInv'
    BY <2>8, OpenCountCounts
  <2>9. ASSUME NEW w \in Workers, Places!Continue(w) PROVE CountInv'
    BY <2>9, SaveProfileCounts, CountIdles, SaveEditCounts, SaveMoveCounts, SaveTransferCounts,
       ListAssetsCounts, InsertItemsCounts, BeginCountCounts, LoadItemsCounts, RelocateCounts
       DEF Places!Continue
  <2>10. ASSUME NEW w \in Workers, Places!Crash(w) PROVE CountInv'
    BY <2>10, CountIdles
  <2> QED BY <1>2, <2>1, <2>2, <2>3, <2>4, <2>5, <2>6, <2>7, <2>8, <2>9, <2>10, Zenon DEF Places!Step
<1> QED BY <1>1, <1>2 DEF Places!Next

-----------------------------------------------------------------------------
\* Which of the two is exercised does not change.
FixedAssetInv == (focus = "register" => RegisterInv) /\ (focus = "places" => CountInv)

LEMMA AssetSteps ==
    ASSUME [Step]_allVars
    PROVE  /\ focus' = focus
           /\ focus = "register" => [Register!Next]_(Register!vars)
           /\ focus = "places" => [Places!Next]_(Places!vars)
           /\ focus \notin {"register", "places"} => UNCHANGED Places!vars
<1>1. focus' = focus
  BY DEF Step, StepBank, StepEntities, StepStock, StepAssets, StepTaxes, StepRecurring,
     StepPlans, StepPayroll, StepProjects, StepRecords, StepPeople, allVars
<1>2. \/ StepAssets
      \/ UNCHANGED assetVars
  BY DEF Step, StepBank, StepEntities, StepStock, StepTaxes, StepRecurring, StepPlans,
     StepPayroll, StepProjects, StepRecords, StepPeople, allVars
<1>3. UNCHANGED assetVars => UNCHANGED Register!vars /\ UNCHANGED Places!vars
  BY DEF assetVars, Register!vars, Register!register, Register!history, Places!vars,
     Places!register, Places!history
<1> QED BY <1>1, <1>2, <1>3 DEF StepAssets

LEMMA FixedAssetsBehave ==
    ASSUME RegisterConstants, CountConstants, FixedAssetInv, [Step]_allVars
    PROVE  FixedAssetInv'
<1>1. CASE focus = "register"
  BY <1>1, AssetSteps, RegisterStep DEF FixedAssetInv
<1>2. CASE focus = "places"
  BY <1>2, AssetSteps, CountStep DEF FixedAssetInv
<1> QED BY <1>1, <1>2, AssetSteps DEF FixedAssetInv

LEMMA FixedAssetsStart ==
    ASSUME RegisterConstants, CountConstants, Start
    PROVE  FixedAssetInv
<1>1. IF focus = "register" THEN Register!Init ELSE Places!Init
  BY DEF Start
<1> QED BY <1>1, RegisterInit, CountInit DEF FixedAssetInv

\* Unless a request died, every asset that is entered has a schedule; it ends at the salvage
\* value, and goes down but for the last month, which takes back no more than half a cent a
\* month, however the months are rounded.  Only of an asset whose cost or life was edited the
\* schedule is no longer that of its figures (asset_create, generate_depreciation_schedule and
\* asset_edit).
THEOREM SchedulesEndAtSalvage ==
    ASSUME RegisterConstants, CountConstants
    PROVE  Operations => []ScheduleEndsAtSalvage
<1>1. FixedAssetInv /\ [Step]_allVars => FixedAssetInv'
  BY FixedAssetsBehave
<1>2. Start => FixedAssetInv
  BY FixedAssetsStart
<1>3. FixedAssetInv => ScheduleEndsAtSalvage
  BY RegisterScheduled DEF FixedAssetInv, ScheduleEndsAtSalvage
<1> QED BY <1>1, <1>2, <1>3, PTL DEF Operations

-----------------------------------------------------------------------------
(* The columns of a count's assets that no transfer and no count reads. *)

PlaceOfferings ==
    {{"create", "transfer", "open", "reconcile"}, {"create", "edit", "open", "reconcile"}}

PlaceTypeInv ==
    /\ profile \subseteq CountedAssets
    /\ schedule \in [CountedAssets -> Seq(Places!Row)]
    /\ fa_offered \in PlaceOfferings
    /\ \A w \in Workers :
          fa_req[w].pc \in {"profile", "schedule"} =>
              fa_req[w].copy.cost = 1 /\ fa_req[w].copy.life = 1

\* A schedule of one month.
LEMMA OneMonth == Places!Schedule(1, 1) \in Seq(Places!Row)
<1>1. Places!Schedule(1, 1) = Register!Schedule(1, 1)
  BY Zenon DEF Places!Schedule, Register!Schedule, Places!Monthly, Register!Monthly
<1>2. Accumulated(1, 1)[1] = 1
  BY DEF Accumulated
<1>3. Register!Schedule(1, 1) =
         [k \in 1..1 |-> [acc |-> Accumulated(1, 1)[k], left |-> 1 - Accumulated(1, 1)[k]]]
  BY ScheduleRows
<1>4. PICK row : row = [acc |-> 1, left |-> 0]
  OBVIOUS
<1>5. row \in Places!Row
  BY <1>4 DEF Places!Row
<1>6. Register!Schedule(1, 1) = [k \in 1..1 |-> row]
  BY <1>2, <1>3, <1>4
<1>7. [k \in 1..1 |-> row] \in Seq(Places!Row)
  <2>1. [k \in 1..1 |-> row] \in [1..1 -> Places!Row]
    BY <1>5
  <2> QED BY <2>1
<1> QED BY <1>1, <1>6, <1>7

\* A step that is about no profile and no schedule.
LEMMA PlaceGoes ==
    ASSUME PlaceTypeInv, NEW w \in Workers, fa_req'[w].pc \notin {"profile", "schedule"},
           \A v \in Workers \ {w} : fa_req'[v] = fa_req[v],
           UNCHANGED <<profile, schedule, fa_offered>>
    PROVE  PlaceTypeInv'
<1>1. ASSUME NEW v \in Workers, fa_req'[v].pc \in {"profile", "schedule"}
      PROVE  fa_req'[v].copy.cost = 1 /\ fa_req'[v].copy.life = 1
  BY <1>1 DEF PlaceTypeInv
<1> QED BY <1>1 DEF PlaceTypeInv

LEMMA PlaceFinishes ==
    ASSUME PlaceTypeInv, CountInv, NEW w \in Workers, Places!Finish(w),
           UNCHANGED <<profile, schedule, fa_offered>>
    PROVE  PlaceTypeInv'
<1>1. fa_req' = [fa_req EXCEPT ![w] = Places!Idle] /\ Places!Idle.pc = "idle"
  BY CountIdle DEF Places!Finish
<1>2. fa_req \in [Workers -> Places!Request]
  BY DEF CountInv, CountTypeInv
<1>3. fa_req'[w].pc = "idle" /\ \A v \in Workers \ {w} : fa_req'[v] = fa_req[v]
  BY <1>1, <1>2
<1> QED BY <1>3, PlaceGoes

LEMMA PlaceStep ==
    ASSUME CountConstants, CountInv, PlaceTypeInv, [Places!Next]_(Places!vars)
    PROVE  PlaceTypeInv'
<1>t. fa_req \in [Workers -> Places!Request] /\ fa_offered' = fa_offered
  BY DEF CountInv, CountTypeInv, Places!Next, Places!vars
<1>1. CASE UNCHANGED <<profile, schedule, fa_req>>
  BY <1>1, <1>t DEF PlaceTypeInv
<1>2. ASSUME NEW w \in Workers, NEW a \in CountedAssets, NEW l \in Places!Places,
             Places!CreateAsset(w, a, l, 1, 1)
      PROVE  PlaceTypeInv'
  <2>1. PICK row : row = [made |-> TRUE, loc |-> l, cost |-> 1, life |-> 1]
    OBVIOUS
  <2>2. PICK z \in Places!Request : z = Places!Idle
    BY CountIdle
  <2>3. /\ fa_req' = [fa_req EXCEPT ![w] = [z EXCEPT !.op = "create", !.pc = "profile",
                                                     !.d = a, !.copy = row]]
        /\ UNCHANGED <<profile, schedule>>
    BY <1>2, <2>1, <2>2, Zenon DEF Places!CreateAsset, Places!history
  <2>4. fa_req'[w].copy = row /\ \A v \in Workers \ {w} : fa_req'[v] = fa_req[v]
    BY <1>t, <2>2, <2>3 DEF Places!Request
  <2>5. row.cost = 1 /\ row.life = 1
    BY <2>1
  <2> QED BY <1>t, <2>3, <2>4, <2>5 DEF PlaceTypeInv
<1>3. ASSUME NEW w \in Workers, Places!SaveProfile(w) PROVE PlaceTypeInv'
  <2>1. /\ fa_req[w].pc = "profile" /\ profile' = profile \cup {fa_req[w].d}
        /\ fa_req' = [fa_req EXCEPT ![w].pc = "schedule"] /\ UNCHANGED schedule
    BY <1>3 DEF Places!SaveProfile, Places!At
  <2>2. fa_req[w].d \in CountedAssets
    BY <2>1 DEF CountInv, CountTypeInv, CountPlaced
  <2>3. fa_req'[w].copy = fa_req[w].copy /\ \A v \in Workers \ {w} : fa_req'[v] = fa_req[v]
    BY <1>t, <2>1 DEF Places!Request
  <2> QED BY <1>t, <2>1, <2>2, <2>3 DEF PlaceTypeInv
<1>4. ASSUME NEW w \in Workers, Places!SaveSchedule(w) PROVE PlaceTypeInv'
  <2>1. /\ fa_req[w].pc = "schedule" /\ Places!Finish(w) /\ UNCHANGED profile
        /\ schedule' = [schedule EXCEPT
              ![fa_req[w].d] = Places!Schedule(fa_req[w].copy.cost, fa_req[w].copy.life)]
    BY <1>4 DEF Places!SaveSchedule, Places!At
  <2>2. fa_req[w].copy.cost = 1 /\ fa_req[w].copy.life = 1
    BY <2>1 DEF PlaceTypeInv
  <2>3. schedule' \in [CountedAssets -> Seq(Places!Row)]
    <3>1. PICK rows \in Seq(Places!Row) : rows = Places!Schedule(1, 1)
      BY OneMonth
    <3>2. schedule' = [schedule EXCEPT ![fa_req[w].d] = rows]
      BY <2>1, <2>2, <3>1, Zenon
    <3> QED BY <3>2 DEF PlaceTypeInv
  <2>4. fa_req'[w].pc = "idle" /\ \A v \in Workers \ {w} : fa_req'[v] = fa_req[v]
    BY <1>t, <2>1, CountIdle DEF Places!Finish
  <2> QED BY <1>t, <2>1, <2>3, <2>4 DEF PlaceTypeInv
<1>5. ASSUME NEW w \in Workers, Places!Finish(w), UNCHANGED <<profile, schedule>> PROVE PlaceTypeInv'
  BY <1>t, <1>5, PlaceFinishes
<1>6. ASSUME NEW w \in Workers, fa_req'[w].pc \notin {"profile", "schedule"},
             \A v \in Workers \ {w} : fa_req'[v] = fa_req[v], UNCHANGED <<profile, schedule>>
      PROVE  PlaceTypeInv'
  BY <1>t, <1>6, PlaceGoes
<1>7. CASE Places!Step
  <2>1. ASSUME NEW t \in AssetTransfers, Places!ApproveTransfer(t) PROVE PlaceTypeInv'
    BY <2>1, <1>1 DEF Places!ApproveTransfer, Places!register, Places!history
  <2>2. ASSUME NEW t \in AssetTransfers, NEW a \in CountedAssets, NEW to \in Places!Places,
               Places!CreateTransfer(t, a, to)
        PROVE  PlaceTypeInv'
    BY <2>2, <1>1 DEF Places!CreateTransfer, Places!register, Places!history
  <2>3. ASSUME NEW c \in PhysicalCounts, NEW a \in CountedAssets, NEW found \in Places!Places,
               Places!CountItem(c, a, found)
        PROVE  PlaceTypeInv'
    BY <2>3, <1>1 DEF Places!CountItem, Places!register, Places!history
  <2>4. ASSUME NEW w \in Workers, NEW a \in CountedAssets, NEW l \in Places!Places,
               NEW cost \in {1}, NEW life \in {1}, Places!CreateAsset(w, a, l, cost, life)
        PROVE  PlaceTypeInv'
    BY <2>4, <1>2
  <2>i. Places!Idle \in Places!Request
    BY CountIdle
  <2>5. ASSUME NEW w \in Workers, NEW a \in CountedAssets, Places!EditAsset(w, a) PROVE PlaceTypeInv'
    <3>1. fa_req'[w].pc = "edit" /\ \A v \in Workers \ {w} : fa_req'[v] = fa_req[v]
      BY <2>5, <2>i, <1>t DEF Places!EditAsset, Places!Request
    <3> QED BY <3>1, <2>5, <1>6 DEF Places!EditAsset, Places!register, Places!history
  <2>6. ASSUME NEW w \in Workers, NEW t \in AssetTransfers, Places!CompleteTransfer(w, t)
        PROVE  PlaceTypeInv'
    <3>1. fa_req'[w].pc = "move" /\ \A v \in Workers \ {w} : fa_req'[v] = fa_req[v]
      BY <2>6, <2>i, <1>t DEF Places!CompleteTransfer, Places!Request
    <3> QED BY <3>1, <2>6, <1>6 DEF Places!CompleteTransfer, Places!register, Places!history
  <2>7. ASSUME NEW w \in Workers, NEW c \in PhysicalCounts, Places!Reconcile(w, c) PROVE PlaceTypeInv'
    <3>1. fa_req'[w].pc = "load" /\ \A v \in Workers \ {w} : fa_req'[v] = fa_req[v]
      BY <2>7, <2>i, <1>t DEF Places!Reconcile, Places!Request
    <3> QED BY <3>1, <2>7, <1>6 DEF Places!Reconcile, Places!register, Places!history
  <2>8. ASSUME NEW w \in Workers, NEW c \in PhysicalCounts, NEW l \in Places!Places,
               Places!OpenCount(w, c, l)
        PROVE  PlaceTypeInv'
    <3>1. fa_req'[w].pc = "list" /\ \A v \in Workers \ {w} : fa_req'[v] = fa_req[v]
      BY <2>8, <2>i, <1>t DEF Places!OpenCount, Places!Request
    <3> QED BY <3>1, <2>8, <1>6 DEF Places!OpenCount, Places!register, Places!history
  <2>9. ASSUME NEW w \in Workers, Places!Continue(w) PROVE PlaceTypeInv'
    <3>1. CASE Places!SaveEdit(w) \/ Places!SaveTransfer(w) \/ Places!BeginCount(w)
               \/ Places!EndReconcile(w)
      BY <3>1, <1>5 DEF Places!SaveEdit, Places!SaveTransfer, Places!BeginCount,
         Places!EndReconcile, Places!register, Places!history
    <3>2. CASE Places!SaveMove(w)
      <4>1. fa_req'[w].pc = "transferred" /\ \A v \in Workers \ {w} : fa_req'[v] = fa_req[v]
        BY <3>2, <1>t DEF Places!SaveMove, Places!Request
      <4> QED BY <4>1, <3>2, <1>6 DEF Places!SaveMove
    <3>3. CASE Places!ListAssets(w)
      <4>1. fa_req'[w].pc = "items" /\ \A v \in Workers \ {w} : fa_req'[v] = fa_req[v]
        BY <3>3, <1>t DEF Places!ListAssets, Places!Request
      <4> QED BY <4>1, <3>3, <1>6 DEF Places!ListAssets, Places!register, Places!history
    <3>4. CASE Places!InsertItems(w)
      <4>1. fa_req'[w].pc = "status" /\ \A v \in Workers \ {w} : fa_req'[v] = fa_req[v]
        BY <3>4, <1>t DEF Places!InsertItems, Places!Request
      <4> QED BY <4>1, <3>4, <1>6 DEF Places!InsertItems, Places!register, Places!history
    <3>5. CASE Places!LoadItems(w)
      <4>1. fa_req'[w].pc = "relocate" /\ \A v \in Workers \ {w} : fa_req'[v] = fa_req[v]
        BY <3>5, <1>t DEF Places!LoadItems, Places!Request
      <4> QED BY <4>1, <3>5, <1>6 DEF Places!LoadItems, Places!register, Places!history
    <3>6. CASE Places!Relocate(w)
      <4>1. PICK a \in CountedAssets : fa_req' = [fa_req EXCEPT ![w].item[a] = Places!NoItem]
        BY <3>6 DEF Places!Relocate, Places!ToMove
      <4>2. fa_req'[w].pc = fa_req[w].pc /\ \A v \in Workers \ {w} : fa_req'[v] = fa_req[v]
        BY <4>1, <1>t DEF Places!Request
      <4> QED BY <4>2, <3>6, <1>6 DEF Places!Relocate, Places!At
    <3> QED BY <2>9, <1>3, <1>4, <3>1, <3>2, <3>3, <3>4, <3>5, <3>6 DEF Places!Continue
  <2>10. ASSUME NEW w \in Workers, Places!Crash(w) PROVE PlaceTypeInv'
    BY <2>10, <1>5 DEF Places!Crash, Places!register, Places!history
  <2> QED BY <1>7, <2>1, <2>2, <2>3, <2>4, <2>5, <2>6, <2>7, <2>8, <2>9, <2>10, Zenon DEF Places!Step
<1> QED BY <1>1, <1>7 DEF Places!Next, Places!vars, Places!register, Places!history

LEMMA PlaceInit ==
    ASSUME Places!Init
    PROVE  PlaceTypeInv
<1>1. \A w \in Workers : fa_req[w].pc = "idle"
  BY CountIdle DEF Places!Init
<1>2. profile \subseteq CountedAssets /\ fa_offered \in PlaceOfferings
  BY DEF Places!Init, PlaceOfferings
<1>3. schedule \in [CountedAssets -> Seq(Places!Row)]
  <2>1. <<>> \in Seq(Places!Row)
    OBVIOUS
  <2>2. PICK none \in Seq(Places!Row) : none = <<>>
    BY <2>1
  <2>3. schedule = [a \in CountedAssets |-> none]
    BY <2>2 DEF Places!Init
  <2> QED BY <2>3
<1> QED BY <1>1, <1>2, <1>3 DEF PlaceTypeInv

-----------------------------------------------------------------------------
\* A request that has gone through the items of its count.
Followed ==
    \A w \in Workers :
        fa_req[w].pc = "relocate" /\ fa_req'[w].pc = "idle" /\ fa_aborts' = fa_aborts =>
            \A a \in CountedAssets :
                LET i == count[fa_req[w].d].item[a] IN
                i.is_found /\ i.found # "nowhere" /\ a \notin moved[fa_req[w].d] =>
                    asset[a].loc = i.found

LEMMA RelocatorEnds ==
    ASSUME CountInv, NEW w \in Workers, Places!Step,
           fa_req[w].pc = "relocate", fa_req'[w].pc = "idle", fa_aborts' = fa_aborts
    PROVE  Places!EndReconcile(w)
<1>1. fa_req \in [Workers -> Places!Request] /\ fa_aborts \in Nat
  BY DEF CountInv, CountTypeInv
<1>2. fa_req' # fa_req
  OBVIOUS
<1>3. ASSUME NEW v \in Workers, NEW q, fa_req' = [fa_req EXCEPT ![v] = q] PROVE v = w
  BY <1>1, <1>3
<1>4. PICK v \in Workers :
         \/ \E a \in CountedAssets, l \in Places!Places, cost \in {1}, life \in {1} :
               Places!CreateAsset(v, a, l, cost, life)
         \/ \E a \in CountedAssets : Places!EditAsset(v, a)
         \/ \E t \in AssetTransfers : Places!CompleteTransfer(v, t)
         \/ \E c \in PhysicalCounts : Places!Reconcile(v, c) \/ \E l \in Places!Places : Places!OpenCount(v, c, l)
         \/ Places!Continue(v) \/ Places!Crash(v)
  BY <1>2, Zenon DEF Places!Step, Places!ApproveTransfer, Places!CreateTransfer, Places!CountItem
<1>5. ~Places!Crash(v)
  BY <1>1 DEF Places!Crash
<1>6. \E q : fa_req' = [fa_req EXCEPT ![v] = q]
  <2>1. \A q : fa_req' = [fa_req EXCEPT ![v].pc = q] => fa_req' = [fa_req EXCEPT ![v] = [fa_req[v] EXCEPT !.pc = q]]
    BY <1>1
  <2>2. \A q, x : fa_req' = [fa_req EXCEPT ![v].pc = q, ![v].item = x] =>
                     \E y : fa_req' = [fa_req EXCEPT ![v] = y]
    BY <1>1
  <2>3. \A q, x : fa_req' = [fa_req EXCEPT ![v].item[x] = q] => \E y : fa_req' = [fa_req EXCEPT ![v] = y]
    BY <1>1
  <2>4. ASSUME Places!Continue(v) PROVE \E q : fa_req' = [fa_req EXCEPT ![v] = q]
    <3>1. \/ \E q : fa_req' = [fa_req EXCEPT ![v].pc = q]
          \/ \E q, x : fa_req' = [fa_req EXCEPT ![v].pc = q, ![v].item = x]
          \/ \E q, x : fa_req' = [fa_req EXCEPT ![v].item[x] = q]
          \/ \E q : fa_req' = [fa_req EXCEPT ![v] = q]
      BY <2>4, Zenon DEF Places!Continue, Places!SaveProfile, Places!SaveSchedule, Places!SaveEdit,
         Places!SaveMove, Places!SaveTransfer, Places!ListAssets, Places!InsertItems,
         Places!BeginCount, Places!LoadItems, Places!Relocate, Places!EndReconcile, Places!Finish
    <3> QED BY <3>1, <2>1, <2>2, <2>3
  <2>5. ASSUME ~Places!Continue(v) PROVE \E q : fa_req' = [fa_req EXCEPT ![v] = q]
    BY <1>4, <1>5, <2>5, Zenon DEF Places!CreateAsset, Places!EditAsset, Places!CompleteTransfer,
       Places!Reconcile, Places!OpenCount
  <2> QED BY <2>4, <2>5
<1>7. v = w
  BY <1>3, <1>6
<1>8. Places!Busy(w)
  BY DEF Places!Busy, Places!At
<1>9. Places!Continue(w)
  <2>1. \A op, d : ~Places!MayStart(w, op, d)
    BY <1>8 DEF Places!MayStart
  <2> QED BY <1>4, <1>5, <1>7, <2>1, Zenon DEF Places!CreateAsset, Places!EditAsset,
       Places!CompleteTransfer, Places!Reconcile, Places!OpenCount
<1>10. Places!Relocate(w) \/ Places!EndReconcile(w)
  BY <1>9 DEF Places!Continue, Places!SaveProfile, Places!SaveSchedule, Places!SaveEdit,
     Places!SaveMove, Places!SaveTransfer, Places!ListAssets, Places!InsertItems,
     Places!BeginCount, Places!LoadItems, Places!At
<1>11. ~Places!Relocate(w)
  <2>1. SUFFICES ASSUME NEW x, fa_req' = [fa_req EXCEPT ![w].item[x] = Places!NoItem] PROVE FALSE
    BY Zenon DEF Places!Relocate
  <2>2. PICK r \in Places!Request : r = fa_req[w]
    BY <1>1
  <2>3. fa_req'[w] = [r EXCEPT !.item[x] = Places!NoItem]
    BY <2>1, <2>2, <1>1
  <2>4. [r EXCEPT !.item[x] = Places!NoItem].pc = r.pc
    BY DEF Places!Request
  <2> QED BY <2>2, <2>3, <2>4
<1> QED BY <1>10, <1>11

LEMMA RelocatorFollows ==
    ASSUME CountConstants, CountInv, [Places!Next]_(Places!vars)
    PROVE  Followed
<1>1. SUFFICES ASSUME NEW w \in Workers, fa_req[w].pc = "relocate", fa_req'[w].pc = "idle",
                      fa_aborts' = fa_aborts, NEW a \in CountedAssets,
                      LET i == count[fa_req[w].d].item[a] IN
                      i.is_found /\ i.found # "nowhere" /\ a \notin moved[fa_req[w].d]
               PROVE  asset[a].loc = count[fa_req[w].d].item[a].found
  BY DEF Followed
<1>2. Places!EndReconcile(w)
  <2>1. Places!Step
    BY <1>1 DEF Places!Next, Places!vars
  <2> QED BY <2>1, <1>1, RelocatorEnds
<1>3. PICK r \in Places!Request :
         /\ r = fa_req[w] /\ CountPlaced(r) /\ CountHeld(r) /\ r.copy \in Places!Asset
         /\ r.item \in [CountedAssets -> Places!Item]
         /\ r.pc # "idle" => \A v \in Workers \ {w} : fa_req[v].d # r.d
  BY CountRequest
<1>4. r.item[a].found = r.item[a].expected
  BY <1>2, <1>3 DEF Places!EndReconcile, Places!ToMove
<1>5. PICK i : i = count[r.d].item[a] /\ FoundAt(i) /\ a \notin moved[r.d]
  BY <1>1, <1>3 DEF FoundAt
<1>6. Relocated(r, a) /\ CountStands(r.d)
  BY <1>1, <1>3 DEF CountHeld, CountPlaced, CountLabels, CountInv
<1>7. CASE r.item[a] = i /\ Stays(r.d, a, i)
  BY <1>3, <1>4, <1>5, <1>6, <1>7 DEF CountStands, FoundAt, Stays, IsAt
<1>8. CASE IsAt(r.d, a, i.found)
  BY <1>3, <1>5, <1>8 DEF IsAt
<1> QED BY <1>5, <1>6, <1>7, <1>8 DEF Relocated

\* When a reconciliation has gone through its items, every asset that was found is where it
\* was found, except where it was not where the count expected it when the reconciliation
\* began, or somebody else has moved it since, whatever transfers and edits go on meanwhile
\* (physical_inventory_create and physical_inventory_reconcile).
THEOREM ReconciliationFollowsTheCount ==
    ASSUME RegisterConstants, CountConstants
    PROVE  Operations => ReconcileFollowsCount
<1>1. FixedAssetInv /\ [Step]_allVars => FixedAssetInv'
  BY FixedAssetsBehave
<1>2. Start => FixedAssetInv
  BY FixedAssetsStart
<1>3. ASSUME FixedAssetInv, [Step]_allVars PROVE [Followed]_(Places!vars)
  <2>1. CASE focus = "places"
    BY <2>1, <1>3, AssetSteps, RelocatorFollows DEF FixedAssetInv
  <2>2. CASE focus = "register"
    BY <2>2, <1>3 DEF FixedAssetInv, RegisterInv, RegisterTypeInv, RegisterPlaced, Followed
  <2> QED BY <2>1, <2>2, <1>3, AssetSteps
<1>4. [Followed]_(Places!vars) =>
      [\A w \in Workers :
          Places!At(w, "relocate") /\ fa_req'[w].pc = "idle" /\ fa_aborts' = fa_aborts =>
              \A a \in CountedAssets :
                  LET i == count[fa_req[w].d].item[a] IN
                  i.is_found /\ i.found # Places!Nowhere /\ a \notin moved[fa_req[w].d] =>
                      asset[a].loc = i.found]_(Places!vars)
  BY DEF Followed, Places!At, Places!Nowhere
<1> QED BY <1>1, <1>2, <1>3, <1>4, PTL DEF Operations, ReconcileFollowsCount, Places!ReconcileFollowsCount

-----------------------------------------------------------------------------
(* Planning.  Between the rows that are saved and the figures that are calculated   *)
(* from them, a request holds what it has added up of the rows it has gone through; *)
(* requests on one document are apart, so that nobody changes these meanwhile.      *)

\* There are finitely many rows, and versions have names of their own.
PlanConstants ==
    /\ IsFiniteSet(BudgetLines) /\ IsFiniteSet(SheetCells) /\ ComparedLines \subseteq BudgetLines
    /\ BudgetVersions \cap {"none", "budget", "analysis", "sheet", "decision"} = {}
    /\ MaxFigure \in Nat

VersionLabels == {"insert_version", "read_lines", "save_version"}
BudgetLabels == {"budget_row", "budget_lines", "save_total"} \cup VersionLabels
AnalysisLabels == {"clear_lines", "find_lines", "compare"}
SheetLabels == {"sheet_row", "cells", "calculate"}

PlanPlaced(q) ==
    /\ q.pc = "idle" <=> q.d = "none"
    /\ q.pc \in BudgetLabels <=> q.d = "budget"
    /\ q.pc = "decide" <=> q.d = "decision"
    /\ q.pc \in AnalysisLabels <=> q.d = "analysis"
    /\ q.pc \in SheetLabels <=> q.d = "sheet"
    /\ q.pc \in {"read_lines", "save_version"} => q.v \in BudgetVersions
    /\ q.pc \in {"budget_lines", "compare"} => q.todo \subseteq BudgetLines
    /\ q.pc \in {"cells", "calculate"} => q.todo \subseteq SheetCells

PlansApart == \A v, w \in Workers : v # w /\ plan_req[v].pc # "idle" => plan_req[w].d # plan_req[v].d

PlanTypeInv == Plans!TypeOK /\ (\A w \in Workers : PlanPlaced(plan_req[w])) /\ PlansApart

LEMMA SamePlanSum == \A g : Plans!SumOf(g) = SumOf(g)
  BY DEF Plans!SumOf, Plans!MapThenSumSet, Plans!MapThenFoldSet,
     SumOf, MapThenSumSet, MapThenFoldSet

Lags(d) == d \in plan_lagging

\* The columns of an analysis.
BudgetColumn == SumOf([k \in DOMAIN analysis.lines |-> analysis.lines[k].budget])
ActualColumn == SumOf([k \in DOMAIN analysis.lines |-> analysis.lines[k].actual])

\* What is derived from the cells that a calculation no longer has to do.
Done(todo) == SumOf([c \in SheetCells |-> IF c \in todo THEN 0 ELSE sheet.derived[c]])

BudgetHeld(q) ==
    /\ q.pc \in {"budget_lines", "save_total"} => "budget" \in plan_lagging
    /\ q.pc = "save_total" => q.total = SumOf(budget.amount)
    /\ q.pc \in VersionLabels => q.total = budget.total
    /\ q.pc = "save_version" => q.amount = budget.amount

AnalysisHeld(q) ==
    /\ q.pc = "clear_lines" => q.total = 0 /\ q.actual = 0
    /\ q.pc \in {"find_lines", "compare"} =>
          /\ "analysis" \in plan_lagging
          /\ q.total = BudgetColumn /\ q.actual = ActualColumn

SheetHeld(q) ==
    /\ q.pc = "sheet_row" => q.total = 0
    /\ q.pc = "cells" => q.total = 0 /\ "sheet" \in plan_lagging
    /\ q.pc = "calculate" =>
          /\ q.total = Done(q.todo) /\ \A c \in q.todo : sheet.amount[c] > 0
          /\ sheet.kind # "scenario" =>
                \A c \in SheetCells \ q.todo : sheet.derived[c] = 2 * sheet.amount[c]

PlanHeld(q) == BudgetHeld(q) /\ AnalysisHeld(q) /\ SheetHeld(q)

BudgetAgrees == ~Lags("budget") => budget.total = SumOf(budget.amount)
VersionAgrees(v) == ~Lags(v) => version[v].total = SumOf(version[v].snapshot)
VarianceAgrees == ~Lags("analysis") => analysis.budget = BudgetColumn /\ analysis.actual = ActualColumn
SheetAgrees ==
    ~Lags("sheet") =>
        /\ sheet.kind # "scenario" => \A c \in SheetCells : sheet.derived[c] = 2 * sheet.amount[c]
        /\ sheet.kind # "driver" => sheet.total = SumOf(sheet.derived)

\* Nothing is derived from a row that is not there.
NothingFromNothing == \A c \in SheetCells : sheet.amount[c] = 0 => sheet.derived[c] = 0

PlanInv ==
    /\ PlanTypeInv
    /\ \A w \in Workers : PlanHeld(plan_req[w])
    /\ BudgetAgrees /\ VarianceAgrees /\ SheetAgrees /\ NothingFromNothing
    /\ \A v \in BudgetVersions : VersionAgrees(v)

-----------------------------------------------------------------------------
(* What a step leaves alone. *)

LEMMA PlanTypes ==
    ASSUME PlanTypeInv
    PROVE  /\ budget \in Plans!Budget /\ version \in [BudgetVersions -> Plans!Version]
           /\ ledger \in 0..MaxFigure /\ analysis \in Plans!Analysis /\ sheet \in Plans!Sheet
           /\ plan_lagging \subseteq Plans!Documents
           /\ plan_req \in [Workers -> Plans!Request] /\ plan_aborts \in Nat
           /\ budget.amount \in [BudgetLines -> Nat] /\ budget.total \in Nat
           /\ sheet.amount \in [SheetCells -> Nat] /\ sheet.derived \in [SheetCells -> Nat]
           /\ sheet.total \in Nat
<1>1. /\ budget \in Plans!Budget /\ version \in [BudgetVersions -> Plans!Version]
      /\ ledger \in 0..MaxFigure /\ analysis \in Plans!Analysis /\ sheet \in Plans!Sheet
      /\ plan_lagging \subseteq Plans!Documents
      /\ plan_req \in [Workers -> Plans!Request] /\ plan_aborts \in Nat
  BY DEF PlanTypeInv, Plans!TypeOK, Plans!Amounts
<1>2. /\ budget.amount \in [BudgetLines -> 0..MaxFigure] /\ budget.total \in Nat
      /\ sheet.amount \in [SheetCells -> 0..MaxFigure] /\ sheet.derived \in [SheetCells -> Nat]
      /\ sheet.total \in Nat
  BY <1>1 DEF Plans!Budget, Plans!Sheet, Plans!Amounts
<1> QED BY <1>1, <1>2

LEMMA PlanIdle ==
    ASSUME PlanConstants
    PROVE  /\ Plans!Idle \in Plans!Request /\ Plans!Idle.pc = "idle" /\ Plans!Idle.d = "none"
           /\ Plans!Idle.total = 0 /\ Plans!Idle.actual = 0
           /\ Plans!NoLines \in [BudgetLines -> Plans!Amounts]
           /\ \A l \in BudgetLines : Plans!NoLines[l] = 0
<1>1. 0 \in Plans!Amounts
  <2>1. 0 \in 0..MaxFigure
    BY DEF PlanConstants
  <2> QED BY <2>1 DEF Plans!Amounts
<1>2. PICK x \in [BudgetLines -> Plans!Amounts] : x = Plans!NoLines /\ \A l \in BudgetLines : x[l] = 0
  <2> DEFINE x == [l \in BudgetLines |-> 0]
  <2>1. x \in [BudgetLines -> Plans!Amounts] /\ \A l \in BudgetLines : x[l] = 0
    BY <1>1
  <2>2. x = Plans!NoLines
    BY Zenon DEF Plans!NoLines
  <2> HIDE DEF x
  <2> QED BY <2>1, <2>2
<1>3. Plans!Idle = [pc |-> "idle", d |-> "none", v |-> "none", status |-> "draft", todo |-> {},
                    amount |-> x, total |-> 0, actual |-> 0]
  BY <1>2, Zenon DEF Plans!Idle, Plans!None
<1>4. PICK q : q = [pc |-> "idle", d |-> "none", v |-> "none", status |-> "draft", todo |-> {},
                    amount |-> x, total |-> 0, actual |-> 0]
  OBVIOUS
<1>5. q \in Plans!Request /\ q.pc = "idle" /\ q.d = "none" /\ q.total = 0 /\ q.actual = 0
  BY <1>2, <1>4 DEF Plans!Request, Plans!None, Plans!Statuses
<1> QED BY <1>2, <1>3, <1>4, <1>5

\* The request of a worker, with what the invariant says of it.
LEMMA PlanRequest ==
    ASSUME PlanInv, NEW w \in Workers
    PROVE  \E r \in Plans!Request :
              /\ r = plan_req[w] /\ PlanPlaced(r) /\ PlanHeld(r)
              /\ r.amount \in [BudgetLines -> Plans!Amounts] /\ r.total \in Nat /\ r.actual \in Nat
              /\ r.todo \subseteq BudgetLines \cup SheetCells
              /\ r.pc # "idle" => \A v \in Workers \ {w} : plan_req[v].d # r.d
<1>1. PICK r \in Plans!Request : r = plan_req[w]
  BY PlanTypes DEF PlanInv
<1>2. PlanPlaced(r) /\ PlanHeld(r)
  BY <1>1 DEF PlanInv, PlanTypeInv
<1>3. /\ r.amount \in [BudgetLines -> Plans!Amounts] /\ r.total \in Nat /\ r.actual \in Nat
      /\ r.todo \subseteq BudgetLines \cup SheetCells
  BY DEF Plans!Request
<1>4. ASSUME r.pc # "idle", NEW v \in Workers \ {w} PROVE plan_req[v].d # r.d
  BY <1>1, <1>4 DEF PlanInv, PlanTypeInv, PlansApart
<1> QED BY <1>1, <1>2, <1>3, <1>4

PlanTables ==
    /\ budget' \in Plans!Budget /\ version' \in [BudgetVersions -> Plans!Version]
    /\ ledger' \in 0..MaxFigure /\ analysis' \in Plans!Analysis /\ sheet' \in Plans!Sheet
    /\ plan_lagging' \subseteq Plans!Documents
    /\ UNCHANGED plan_offered /\ plan_aborts' \in Nat

BudgetStays ==
    /\ budget'.amount = budget.amount /\ budget'.total = budget.total
    /\ Lags("budget")' <=> Lags("budget")
AnalysisStays ==
    /\ analysis'.lines = analysis.lines /\ analysis'.budget = analysis.budget
    /\ analysis'.actual = analysis.actual
    /\ Lags("analysis")' <=> Lags("analysis")
SheetStays == sheet' = sheet /\ (Lags("sheet")' <=> Lags("sheet"))
VersionStays(v) ==
    /\ version'[v].snapshot = version[v].snapshot /\ version'[v].total = version[v].total
    /\ Lags(v) => Lags(v)'

\* A step on document e, of which it leaves the others alone.
OnlyDocument(e) ==
    /\ \/ BudgetStays
       \/ e = "budget" /\ BudgetAgrees'
    /\ \/ AnalysisStays
       \/ e = "analysis" /\ VarianceAgrees'
    /\ \/ SheetStays
       \/ e = "sheet" /\ SheetAgrees' /\ NothingFromNothing'
    /\ \A v \in BudgetVersions : VersionStays(v) \/ VersionAgrees(v)'

LEMMA WithinAgrees ==
    ASSUME PlanInv, NEW e, OnlyDocument(e)
    PROVE  /\ BudgetAgrees' /\ VarianceAgrees' /\ SheetAgrees' /\ NothingFromNothing'
           /\ \A v \in BudgetVersions : VersionAgrees(v)'
<1>1. BudgetAgrees'
  BY DEF OnlyDocument, PlanInv, BudgetStays, Lags, BudgetAgrees
<1>2. VarianceAgrees'
  BY DEF OnlyDocument, PlanInv, AnalysisStays, Lags, VarianceAgrees, BudgetColumn, ActualColumn
<1>3. SheetAgrees' /\ NothingFromNothing'
  BY DEF OnlyDocument, PlanInv, SheetStays, Lags, SheetAgrees, NothingFromNothing
<1>4. \A v \in BudgetVersions : VersionAgrees(v)'
  BY DEF OnlyDocument, PlanInv, VersionStays, Lags, VersionAgrees
<1> QED BY <1>1, <1>2, <1>3, <1>4

LEMMA WithinHolds ==
    ASSUME NEW e, OnlyDocument(e), NEW q, PlanPlaced(q), PlanHeld(q), q.d # e
    PROVE  PlanHeld(q)'
<1>1. BudgetHeld(q)'
  <2>1. CASE q.d = "budget"
    BY <2>1 DEF OnlyDocument, BudgetStays, Lags, PlanHeld, BudgetHeld
  <2>2. CASE q.d # "budget"
    BY <2>2 DEF PlanPlaced, BudgetLabels, VersionLabels, BudgetHeld
  <2> QED BY <2>1, <2>2
<1>2. AnalysisHeld(q)'
  <2>1. CASE q.d = "analysis"
    BY <2>1 DEF OnlyDocument, AnalysisStays, Lags, PlanHeld, AnalysisHeld, BudgetColumn, ActualColumn
  <2>2. CASE q.d # "analysis"
    BY <2>2 DEF PlanPlaced, AnalysisLabels, AnalysisHeld
  <2> QED BY <2>1, <2>2
<1>3. SheetHeld(q)'
  <2>1. CASE q.d = "sheet"
    BY <2>1 DEF OnlyDocument, SheetStays, Lags, PlanHeld, SheetHeld, Done
  <2>2. CASE q.d # "sheet"
    BY <2>2 DEF PlanPlaced, SheetLabels, SheetHeld
  <2> QED BY <2>1, <2>2
<1> QED BY <1>1, <1>2, <1>3 DEF PlanHeld

PlanTakes(w, q) ==
    /\ plan_req' = [plan_req EXCEPT ![w] = q]
    /\ q.pc # "idle" => \A v \in Workers \ {w} : plan_req[v].d # q.d

LEMMA PlanFrame ==
    ASSUME PlanInv, NEW w \in Workers, NEW q \in Plans!Request, NEW e, PlanTakes(w, q),
           \A v \in Workers \ {w} : plan_req[v].d # e, PlanTables, OnlyDocument(e),
           PlanPlaced(q), PlanHeld(q)'
    PROVE  PlanInv'
<1>1. /\ plan_req' \in [Workers -> Plans!Request] /\ plan_req'[w] = q
      /\ \A v \in Workers \ {w} : plan_req'[v] = plan_req[v]
  BY PlanTypes DEF PlanInv, PlanTakes
<1>2. PlanTypeInv'
  <2>1. Plans!TypeOK'
    BY <1>1 DEF PlanInv, PlanTypeInv, Plans!TypeOK, PlanTables, Plans!Amounts
  <2>2. ASSUME NEW v \in Workers PROVE PlanPlaced(plan_req[v])'
    <3>1. PlanPlaced(plan_req'[v])
      BY <1>1 DEF PlanInv, PlanTypeInv
    <3> QED BY <3>1 DEF PlanPlaced
  <2>3. ASSUME NEW v \in Workers, NEW x \in Workers, v # x, plan_req'[v].pc # "idle"
        PROVE  plan_req'[x].d # plan_req'[v].d
    <3>1. CASE v = w
      BY <3>1, <2>3, <1>1 DEF PlanTakes
    <3>2. CASE x = w
      <4>1. q.d = "none" \/ q.pc # "idle"
        BY DEF PlanPlaced
      <4>2. plan_req[v].d # "none" /\ plan_req'[v] = plan_req[v]
        BY <3>2, <2>3, <1>1 DEF PlanInv, PlanTypeInv, PlanPlaced
      <4> QED BY <4>1, <4>2, <3>2, <2>3, <1>1 DEF PlanTakes
    <3>3. CASE v # w /\ x # w
      BY <3>3, <2>3, <1>1 DEF PlanInv, PlanTypeInv, PlansApart
    <3> QED BY <3>1, <3>2, <3>3
  <2> QED BY <2>1, <2>2, <2>3 DEF PlanTypeInv, PlansApart
<1>3. ASSUME NEW v \in Workers PROVE PlanHeld(plan_req[v])'
  <2>1. CASE v = w
    <3>1. plan_req[v]' = q
      BY <2>1, <1>1
    <3> QED BY <3>1
  <2>2. CASE v # w
    <3>1. PICK r : r = plan_req[v] /\ PlanPlaced(r) /\ PlanHeld(r) /\ r.d # e
      BY <2>2 DEF PlanInv, PlanTypeInv
    <3>2. plan_req[v]' = r
      BY <2>2, <3>1, <1>1
    <3>3. PlanHeld(r)'
      BY <3>1, WithinHolds
    <3> QED BY <3>2, <3>3
  <2> QED BY <2>1, <2>2
<1> QED BY <1>2, <1>3, WithinAgrees DEF PlanInv

\* Where no figures change.
LEMMA NothingMoves ==
    ASSUME UNCHANGED <<budget, version, analysis, sheet, plan_lagging>>, NEW e
    PROVE  OnlyDocument(e)
  BY DEF OnlyDocument, BudgetStays, AnalysisStays, SheetStays, VersionStays, Lags

\* Every request is at some document that there is.
LEMMA PlanSomewhere ==
    ASSUME NEW q \in Plans!Request, PlanPlaced(q)
    PROVE  q.d # "nowhere"
<1>1. q.pc \in {"idle", "decide"} \cup BudgetLabels \cup AnalysisLabels \cup SheetLabels
  BY DEF Plans!Request, BudgetLabels, VersionLabels, AnalysisLabels, SheetLabels
<1> QED BY <1>1 DEF PlanPlaced

LEMMA PlanQuiet ==
    ASSUME PlanInv, NEW w \in Workers, NEW q \in Plans!Request,
           PlanTakes(w, q), UNCHANGED Plans!rows, UNCHANGED plan_offered, plan_aborts' \in Nat,
           PlanPlaced(q), PlanHeld(q)
    PROVE  PlanInv'
<1>1. UNCHANGED <<budget, version, ledger, analysis, sheet, plan_lagging>>
  BY DEF Plans!rows
<1>2. PlanTables
  BY <1>1, PlanTypes DEF PlanTables, PlanInv
<1>3. OnlyDocument("nowhere")
  BY <1>1, NothingMoves
<1>4. ASSUME NEW v \in Workers \ {w} PROVE plan_req[v].d # "nowhere"
  <2>1. plan_req[v] \in Plans!Request /\ PlanPlaced(plan_req[v])
    BY PlanTypes DEF PlanInv, PlanTypeInv
  <2> QED BY <2>1, PlanSomewhere
<1>5. PlanHeld(q)'
  BY <1>3, PlanSomewhere, WithinHolds
<1> QED BY <1>2, <1>3, <1>4, <1>5, PlanFrame

LEMMA PlanBegins ==
    ASSUME PlanInv, NEW w \in Workers, NEW q \in Plans!Request, Plans!MayStart(w, q.d),
           plan_req' = [plan_req EXCEPT ![w] = q],
           UNCHANGED <<Plans!rows, plan_offered, plan_aborts>>, PlanPlaced(q), PlanHeld(q)
    PROVE  PlanInv'
<1>1. PlanTakes(w, q)
  BY DEF PlanTakes, Plans!MayStart
<1>2. plan_aborts' \in Nat
  BY PlanTypes DEF PlanInv
<1> QED BY <1>1, <1>2, PlanQuiet

\* A request that ends, and one that dies, leave nothing to be held.
LEMMA PlanEnds ==
    ASSUME PlanConstants, NEW w \in Workers, Plans!Finish(w)
    PROVE  \E q \in Plans!Request :
              PlanTakes(w, q) /\ PlanPlaced(q) /\ PlanHeld(q) /\ PlanHeld(q)'
<1>1. PICK q : q = Plans!Idle
  OBVIOUS
<1>2. q \in Plans!Request /\ q.pc = "idle" /\ q.d = "none" /\ plan_req' = [plan_req EXCEPT ![w] = q]
  BY <1>1, PlanIdle DEF Plans!Finish
<1>3. PlanTakes(w, q) /\ PlanPlaced(q)
  BY <1>2 DEF PlanTakes, PlanPlaced, BudgetLabels, VersionLabels, AnalysisLabels, SheetLabels
<1>4. PlanHeld(q) /\ PlanHeld(q)'
  BY <1>2 DEF PlanHeld, BudgetHeld, VersionLabels, AnalysisHeld, SheetHeld
<1> QED BY <1>2, <1>3, <1>4

LEMMA CrashPlans ==
    ASSUME PlanConstants, PlanInv, NEW w \in Workers, Plans!Crash(w)
    PROVE  PlanInv'
<1>1. PICK q \in Plans!Request : PlanTakes(w, q) /\ PlanPlaced(q) /\ PlanHeld(q)
  BY PlanEnds DEF Plans!Crash
<1>2. UNCHANGED <<Plans!rows, plan_offered>> /\ plan_aborts' \in Nat
  BY PlanTypes DEF Plans!Crash, PlanInv
<1> QED BY <1>1, <1>2, PlanQuiet

-----------------------------------------------------------------------------
(* Budgets and their versions. *)

LEMMA EditBudgetPlans ==
    ASSUME PlanConstants, PlanInv, NEW w \in Workers, Plans!EditBudget(w) \/ Plans!CreateVersion(w)
    PROVE  PlanInv'
<1>1. PICK t \in Nat : t = budget.total
  BY PlanTypes DEF PlanInv
<1>2. PICK label \in {"budget_row", "insert_version"} :
         plan_req' = [plan_req EXCEPT ![w] = [Plans!Idle EXCEPT !.pc = label, !.d = "budget",
                                                                !.total = budget.total]]
  BY Zenon DEF Plans!EditBudget, Plans!CreateVersion
<1>3. PICK i \in Plans!Request : i = Plans!Idle
  BY PlanIdle
<1> DEFINE q == [i EXCEPT !.pc = label, !.d = "budget", !.total = t]
<1>4. plan_req' = [plan_req EXCEPT ![w] = q]
  BY <1>1, <1>2, <1>3, Zenon
<1>5. q \in Plans!Request /\ q.pc = label /\ q.d = "budget" /\ q.total = budget.total
  BY <1>1 DEF Plans!Request, Plans!Documents
<1> HIDE DEF q
<1>6. PlanPlaced(q)
  BY <1>5 DEF PlanPlaced, BudgetLabels, VersionLabels, AnalysisLabels, SheetLabels
<1>7. PlanHeld(q)
  BY <1>5 DEF PlanHeld, BudgetHeld, VersionLabels, AnalysisHeld, SheetHeld
<1>8. Plans!MayStart(w, q.d) /\ UNCHANGED <<Plans!rows, plan_offered, plan_aborts>>
  BY <1>5 DEF Plans!EditBudget, Plans!CreateVersion
<1> QED BY <1>4, <1>5, <1>6, <1>7, <1>8, PlanBegins

LEMMA DecidePlans ==
    ASSUME PlanConstants, PlanInv, NEW w \in Workers, Plans!Decide(w)
    PROVE  PlanInv'
<1>1. PICK status \in {"in_review", "approved"} :
         plan_req' = [plan_req EXCEPT ![w] = [Plans!Idle EXCEPT !.pc = "decide", !.d = "decision",
                                                                !.status = status]]
  <2>1. plan_req' = [plan_req EXCEPT ![w] = [Plans!Idle EXCEPT !.pc = "decide", !.d = "decision",
                        !.status = IF budget.status = "draft" THEN "in_review" ELSE "approved"]]
    BY Zenon DEF Plans!Decide
  <2> QED BY <2>1, Zenon
<1>2. PICK i \in Plans!Request : i = Plans!Idle
  BY PlanIdle
<1> DEFINE q == [i EXCEPT !.pc = "decide", !.d = "decision", !.status = status]
<1>3. plan_req' = [plan_req EXCEPT ![w] = q]
  BY <1>1, <1>2, Zenon
<1>4. q \in Plans!Request /\ q.pc = "decide" /\ q.d = "decision"
  BY DEF Plans!Request, Plans!Statuses
<1> HIDE DEF q
<1>5. PlanPlaced(q)
  BY <1>4 DEF PlanPlaced, BudgetLabels, VersionLabels, AnalysisLabels, SheetLabels
<1>6. PlanHeld(q)
  BY <1>4 DEF PlanHeld, BudgetHeld, VersionLabels, AnalysisHeld, SheetHeld
<1>7. Plans!MayStart(w, q.d) /\ UNCHANGED <<Plans!rows, plan_offered, plan_aborts>>
  BY <1>4 DEF Plans!Decide
<1> QED BY <1>3, <1>4, <1>5, <1>6, <1>7, PlanBegins

\* What a request at a given step is about.
LEMMA PlanAt ==
    ASSUME NEW r \in Plans!Request, PlanPlaced(r)
    PROVE  /\ r.pc \in BudgetLabels => r.d = "budget"
           /\ r.pc = "decide" => r.d = "decision"
           /\ r.pc \in AnalysisLabels => r.d = "analysis"
           /\ r.pc \in SheetLabels => r.d = "sheet"
  BY DEF PlanPlaced

LEMMA SaveBudgetRowPlans ==
    ASSUME PlanConstants, PlanInv, NEW w \in Workers, Plans!SaveBudgetRow(w)
    PROVE  PlanInv'
<1>1. PICK r \in Plans!Request :
         /\ r = plan_req[w] /\ PlanPlaced(r) /\ PlanHeld(r) /\ r.total \in Nat
         /\ r.pc # "idle" => \A v \in Workers \ {w} : plan_req[v].d # r.d
  BY PlanRequest
<1>2. r.pc = "budget_row" /\ r.d = "budget"
  BY <1>1 DEF Plans!SaveBudgetRow, Plans!At, PlanPlaced, BudgetLabels
<1> DEFINE q == [r EXCEPT !.pc = "budget_lines", !.todo = BudgetLines]
<1>3. plan_req' = [plan_req EXCEPT ![w] = q]
  <2>1. plan_req' = [plan_req EXCEPT ![w].pc = "budget_lines", ![w].todo = BudgetLines]
    BY Zenon DEF Plans!SaveBudgetRow
  <2> QED BY <2>1, <1>1, PlanTypes DEF PlanInv
<1>4. q \in Plans!Request /\ q.pc = "budget_lines" /\ q.d = "budget" /\ q.todo = BudgetLines
  BY <1>2 DEF Plans!Request
<1> HIDE DEF q
<1>5. PICK status \in {"draft"} : budget' = [budget EXCEPT !.status = status, !.total = r.total]
  BY <1>1 DEF Plans!SaveBudgetRow
<1>6. /\ plan_lagging' = plan_lagging \cup {"budget"}
      /\ UNCHANGED <<version, ledger, analysis, sheet, plan_offered, plan_aborts>>
  BY DEF Plans!SaveBudgetRow
<1>7. PlanTakes(w, q) /\ \A v \in Workers \ {w} : plan_req[v].d # "budget"
  BY <1>1, <1>2, <1>3, <1>4 DEF PlanTakes
<1>8. PlanTables
  <2>1. budget' \in Plans!Budget
    BY <1>1, <1>5, PlanTypes DEF PlanInv, Plans!Budget, Plans!Statuses
  <2> QED BY <2>1, <1>6, PlanTypes DEF PlanTables, PlanInv, Plans!Documents
<1>9. OnlyDocument("budget")
  <2>1. BudgetAgrees' /\ AnalysisStays /\ SheetStays
    BY <1>6 DEF BudgetAgrees, AnalysisStays, SheetStays, Lags
  <2>2. \A v \in BudgetVersions : VersionStays(v)
    BY <1>6 DEF VersionStays, Lags
  <2> QED BY <2>1, <2>2 DEF OnlyDocument
<1>10. PlanPlaced(q)
  BY <1>4 DEF PlanPlaced, BudgetLabels, VersionLabels, AnalysisLabels, SheetLabels
<1>11. PlanHeld(q)'
  BY <1>4, <1>6 DEF PlanHeld, BudgetHeld, VersionLabels, AnalysisHeld, SheetHeld, Lags
<1> QED BY <1>4, <1>7, <1>8, <1>9, <1>10, <1>11, PlanFrame

LEMMA SaveLinePlans ==
    ASSUME PlanConstants, PlanInv, NEW w \in Workers, Plans!SaveLine(w)
    PROVE  PlanInv'
<1>1. PICK r \in Plans!Request :
         /\ r = plan_req[w] /\ PlanPlaced(r) /\ PlanHeld(r) /\ r.todo \subseteq BudgetLines \cup SheetCells
         /\ r.pc # "idle" => \A v \in Workers \ {w} : plan_req[v].d # r.d
  BY PlanRequest
<1>2. r.pc = "budget_lines" /\ r.d = "budget" /\ r.todo \subseteq BudgetLines /\ Lags("budget")
  BY <1>1 DEF Plans!SaveLine, Plans!At, PlanPlaced, BudgetLabels, PlanHeld, BudgetHeld, Lags
<1>3. PICK l \in r.todo, amount \in 0..MaxFigure :
         /\ budget' = [budget EXCEPT !.amount[l] = amount]
         /\ plan_req' = [plan_req EXCEPT ![w].todo = @ \ {l}]
  BY <1>1 DEF Plans!SaveLine, Plans!Amounts
<1> DEFINE q == [r EXCEPT !.todo = @ \ {l}]
<1>4. plan_req' = [plan_req EXCEPT ![w] = q]
  BY <1>1, <1>3, PlanTypes DEF PlanInv
<1>5. q \in Plans!Request /\ q.pc = "budget_lines" /\ q.d = "budget" /\ q.todo \subseteq BudgetLines
  BY <1>2 DEF Plans!Request
<1> HIDE DEF q
<1>6. UNCHANGED <<version, ledger, analysis, sheet, plan_lagging, plan_offered, plan_aborts>>
  BY DEF Plans!SaveLine
<1>7. PlanTakes(w, q) /\ \A v \in Workers \ {w} : plan_req[v].d # "budget"
  BY <1>1, <1>2, <1>4, <1>5 DEF PlanTakes
<1>8. PlanTables
  <2>1. budget' \in Plans!Budget
    BY <1>2, <1>3, PlanTypes DEF PlanInv, Plans!Budget, Plans!Amounts
  <2> QED BY <2>1, <1>6, PlanTypes DEF PlanTables, PlanInv
<1>9. OnlyDocument("budget")
  <2>1. BudgetAgrees' /\ AnalysisStays /\ SheetStays
    BY <1>2, <1>6 DEF BudgetAgrees, AnalysisStays, SheetStays, Lags
  <2>2. \A v \in BudgetVersions : VersionStays(v)
    BY <1>6 DEF VersionStays, Lags
  <2> QED BY <2>1, <2>2 DEF OnlyDocument
<1>10. PlanPlaced(q)
  BY <1>5 DEF PlanPlaced, BudgetLabels, VersionLabels, AnalysisLabels, SheetLabels
<1>11. PlanHeld(q)'
  BY <1>2, <1>5, <1>6 DEF PlanHeld, BudgetHeld, VersionLabels, AnalysisHeld, SheetHeld, Lags
<1> QED BY <1>5, <1>7, <1>8, <1>9, <1>10, <1>11, PlanFrame

LEMMA SumLinesPlans ==
    ASSUME PlanConstants, PlanInv, NEW w \in Workers, Plans!SumLines(w)
    PROVE  PlanInv'
<1>1. PICK r \in Plans!Request :
         /\ r = plan_req[w] /\ PlanPlaced(r) /\ PlanHeld(r)
         /\ r.pc # "idle" => \A v \in Workers \ {w} : plan_req[v].d # r.d
  BY PlanRequest
<1>2. r.pc = "budget_lines" /\ r.d = "budget" /\ Lags("budget")
  BY <1>1 DEF Plans!SumLines, Plans!At, PlanPlaced, BudgetLabels, PlanHeld, BudgetHeld, Lags
<1>3. PICK t \in Nat : t = SumOf(budget.amount)
  BY PlanTypes, SumType DEF PlanInv, PlanConstants
<1> DEFINE q == [r EXCEPT !.pc = "save_total", !.total = t]
<1>4. plan_req' = [plan_req EXCEPT ![w] = q]
  <2>1. plan_req' = [plan_req EXCEPT ![w].pc = "save_total", ![w].total = Plans!SumOf(budget.amount)]
    BY Zenon DEF Plans!SumLines
  <2>2. plan_req' = [plan_req EXCEPT ![w].pc = "save_total", ![w].total = t]
    BY <2>1, <1>3, SamePlanSum, Zenon
  <2> QED BY <2>2, <1>1, PlanTypes DEF PlanInv
<1>5. q \in Plans!Request /\ q.pc = "save_total" /\ q.d = "budget" /\ q.total = t
  BY <1>2 DEF Plans!Request
<1> HIDE DEF q
<1>6. UNCHANGED <<Plans!rows, plan_offered>> /\ plan_aborts' \in Nat
  BY PlanTypes DEF Plans!SumLines, PlanInv
<1>7. PlanTakes(w, q)
  BY <1>1, <1>2, <1>4, <1>5 DEF PlanTakes
<1>8. PlanPlaced(q)
  BY <1>5 DEF PlanPlaced, BudgetLabels, VersionLabels, AnalysisLabels, SheetLabels
<1>9. PlanHeld(q)
  BY <1>2, <1>3, <1>5 DEF PlanHeld, BudgetHeld, VersionLabels, AnalysisHeld, SheetHeld, Lags
<1> QED BY <1>5, <1>6, <1>7, <1>8, <1>9, PlanQuiet

LEMMA SaveTotalPlans ==
    ASSUME PlanConstants, PlanInv, NEW w \in Workers, Plans!SaveTotal(w)
    PROVE  PlanInv'
<1>1. PICK r \in Plans!Request :
         /\ r = plan_req[w] /\ PlanPlaced(r) /\ PlanHeld(r) /\ r.total \in Nat
         /\ r.pc # "idle" => \A v \in Workers \ {w} : plan_req[v].d # r.d
  BY PlanRequest
<1>2. r.pc = "save_total" /\ r.d = "budget" /\ r.total = SumOf(budget.amount)
  BY <1>1 DEF Plans!SaveTotal, Plans!At, PlanPlaced, BudgetLabels, PlanHeld, BudgetHeld
<1>3. PICK q \in Plans!Request : PlanTakes(w, q) /\ PlanPlaced(q) /\ PlanHeld(q)'
  BY PlanEnds DEF Plans!SaveTotal
<1>4. /\ budget' = [budget EXCEPT !.total = r.total] /\ plan_lagging' = plan_lagging \ {"budget"}
      /\ UNCHANGED <<version, ledger, analysis, sheet, plan_offered, plan_aborts>>
  BY <1>1 DEF Plans!SaveTotal
<1>5. budget' \in Plans!Budget /\ budget'.total = r.total /\ budget'.amount = budget.amount
  BY <1>1, <1>4, PlanTypes DEF PlanInv, Plans!Budget
<1>6. PlanTables
  BY <1>4, <1>5, PlanTypes DEF PlanTables, PlanInv
<1>7. OnlyDocument("budget")
  <2>1. BudgetAgrees'
    BY <1>2, <1>5 DEF BudgetAgrees
  <2>2. AnalysisStays /\ SheetStays
    BY <1>4 DEF AnalysisStays, SheetStays, Lags
  <2>3. \A v \in BudgetVersions : VersionStays(v)
    BY <1>4 DEF VersionStays, Lags, PlanConstants
  <2> QED BY <2>1, <2>2, <2>3 DEF OnlyDocument
<1>8. \A v \in Workers \ {w} : plan_req[v].d # "budget"
  BY <1>1, <1>2
<1> QED BY <1>3, <1>6, <1>7, <1>8, PlanFrame

LEMMA SaveDecisionPlans ==
    ASSUME PlanConstants, PlanInv, NEW w \in Workers, Plans!SaveDecision(w)
    PROVE  PlanInv'
<1>1. PICK r \in Plans!Request :
         /\ r = plan_req[w] /\ PlanPlaced(r)
         /\ r.pc # "idle" => \A v \in Workers \ {w} : plan_req[v].d # r.d
  BY PlanRequest
<1>2. r.pc = "decide" /\ r.d = "decision" /\ r.status \in Plans!Statuses
  BY <1>1 DEF Plans!SaveDecision, Plans!At, PlanPlaced, Plans!Request
<1>3. PICK q \in Plans!Request : PlanTakes(w, q) /\ PlanPlaced(q) /\ PlanHeld(q)'
  BY PlanEnds DEF Plans!SaveDecision
<1>4. /\ budget' = [budget EXCEPT !.status = r.status]
      /\ UNCHANGED <<version, ledger, analysis, sheet, plan_lagging, plan_offered, plan_aborts>>
  BY <1>1 DEF Plans!SaveDecision
<1>5. budget' \in Plans!Budget /\ budget'.total = budget.total /\ budget'.amount = budget.amount
  BY <1>2, <1>4, PlanTypes DEF PlanInv, Plans!Budget
<1>6. PlanTables
  BY <1>4, <1>5, PlanTypes DEF PlanTables, PlanInv
<1>7. OnlyDocument("decision")
  <2>1. BudgetStays /\ AnalysisStays /\ SheetStays
    BY <1>4, <1>5 DEF BudgetStays, AnalysisStays, SheetStays, Lags
  <2>2. \A v \in BudgetVersions : VersionStays(v)
    BY <1>4 DEF VersionStays, Lags
  <2> QED BY <2>1, <2>2 DEF OnlyDocument
<1>8. \A v \in Workers \ {w} : plan_req[v].d # "decision"
  BY <1>1, <1>2
<1> QED BY <1>3, <1>6, <1>7, <1>8, PlanFrame

-----------------------------------------------------------------------------

LEMMA InsertVersionPlans ==
    ASSUME PlanConstants, PlanInv, NEW w \in Workers, Plans!InsertVersion(w)
    PROVE  PlanInv'
<1>1. PICK r \in Plans!Request :
         /\ r = plan_req[w] /\ PlanPlaced(r) /\ PlanHeld(r)
         /\ r.pc # "idle" => \A v \in Workers \ {w} : plan_req[v].d # r.d
  BY PlanRequest
<1>2. r.pc = "insert_version" /\ r.d = "budget" /\ r.total = budget.total
  BY <1>1 DEF Plans!InsertVersion, Plans!At, PlanPlaced, BudgetLabels, VersionLabels,
              PlanHeld, BudgetHeld
<1>3. PICK v \in BudgetVersions :
         /\ version' = [version EXCEPT ![v].made = TRUE]
         /\ plan_req' = [plan_req EXCEPT ![w].pc = "read_lines", ![w].v = v]
  BY Zenon DEF Plans!InsertVersion
<1> DEFINE q == [r EXCEPT !.pc = "read_lines", !.v = v]
<1>4. plan_req' = [plan_req EXCEPT ![w] = q]
  BY <1>1, <1>3, PlanTypes DEF PlanInv
<1>5. q \in Plans!Request /\ q.pc = "read_lines" /\ q.d = "budget" /\ q.v = v /\ q.total = r.total
  BY <1>2 DEF Plans!Request
<1> HIDE DEF q
<1>6. UNCHANGED <<budget, ledger, analysis, sheet, plan_lagging, plan_offered, plan_aborts>>
  BY DEF Plans!InsertVersion
<1>7. PlanTakes(w, q) /\ \A u \in Workers \ {w} : plan_req[u].d # "budget"
  BY <1>1, <1>2, <1>4, <1>5 DEF PlanTakes
<1>8. /\ version' \in [BudgetVersions -> Plans!Version]
      /\ \A u \in BudgetVersions : /\ version'[u].snapshot = version[u].snapshot
                                   /\ version'[u].total = version[u].total
  <2>1. version \in [BudgetVersions -> Plans!Version]
    BY PlanTypes DEF PlanInv
  <2>2. PICK row \in Plans!Version : row = version[v]
    BY <2>1
  <2> DEFINE new == [row EXCEPT !.made = TRUE]
  <2>3. new \in Plans!Version /\ new.snapshot = row.snapshot /\ new.total = row.total
    BY DEF Plans!Version
  <2>4. version' = [version EXCEPT ![v] = new]
    BY <1>3, <2>1, <2>2
  <2> HIDE DEF new
  <2> QED BY <2>1, <2>2, <2>3, <2>4
<1>9. PlanTables
  BY <1>6, <1>8, PlanTypes DEF PlanTables, PlanInv
<1>10. OnlyDocument("budget")
  <2>1. BudgetStays /\ AnalysisStays /\ SheetStays
    BY <1>6 DEF BudgetStays, AnalysisStays, SheetStays, Lags
  <2>2. \A u \in BudgetVersions : VersionStays(u)
    BY <1>6, <1>8 DEF VersionStays, Lags
  <2> QED BY <2>1, <2>2 DEF OnlyDocument
<1>11. PlanPlaced(q)
  BY <1>5 DEF PlanPlaced, BudgetLabels, VersionLabels, AnalysisLabels, SheetLabels
<1>12. PlanHeld(q)'
  BY <1>2, <1>5, <1>6 DEF PlanHeld, BudgetHeld, VersionLabels, AnalysisHeld, SheetHeld
<1> QED BY <1>5, <1>7, <1>9, <1>10, <1>11, <1>12, PlanFrame

LEMMA ReadLinesPlans ==
    ASSUME PlanConstants, PlanInv, NEW w \in Workers, Plans!ReadLines(w)
    PROVE  PlanInv'
<1>1. PICK r \in Plans!Request :
         /\ r = plan_req[w] /\ PlanPlaced(r) /\ PlanHeld(r)
         /\ r.pc # "idle" => \A v \in Workers \ {w} : plan_req[v].d # r.d
  BY PlanRequest
<1>2. r.pc = "read_lines" /\ r.d = "budget" /\ r.total = budget.total /\ r.v \in BudgetVersions
  BY <1>1 DEF Plans!ReadLines, Plans!At, PlanPlaced, BudgetLabels, VersionLabels,
              PlanHeld, BudgetHeld
<1>3. PICK lines \in [BudgetLines -> Plans!Amounts] : lines = budget.amount
  BY PlanTypes DEF PlanInv, Plans!Budget
<1> DEFINE q == [r EXCEPT !.pc = "save_version", !.amount = lines]
<1>4. plan_req' = [plan_req EXCEPT ![w] = q]
  <2>1. plan_req' = [plan_req EXCEPT ![w].pc = "save_version", ![w].amount = budget.amount]
    BY Zenon DEF Plans!ReadLines
  <2> QED BY <2>1, <1>1, <1>3, PlanTypes DEF PlanInv
<1>5. /\ q \in Plans!Request /\ q.pc = "save_version" /\ q.d = "budget" /\ q.v = r.v
      /\ q.total = r.total /\ q.amount = lines
  BY <1>2 DEF Plans!Request
<1> HIDE DEF q
<1>6. UNCHANGED <<Plans!rows, plan_offered>> /\ plan_aborts' \in Nat
  BY PlanTypes DEF Plans!ReadLines, PlanInv
<1>7. PlanTakes(w, q)
  BY <1>1, <1>2, <1>4, <1>5 DEF PlanTakes
<1>8. PlanPlaced(q)
  BY <1>2, <1>5 DEF PlanPlaced, BudgetLabels, VersionLabels, AnalysisLabels, SheetLabels
<1>9. PlanHeld(q)
  BY <1>2, <1>3, <1>5 DEF PlanHeld, BudgetHeld, VersionLabels, AnalysisHeld, SheetHeld
<1> QED BY <1>5, <1>6, <1>7, <1>8, <1>9, PlanQuiet

\* The total and the lines are those of the budget; where these agree, the version does.
LEMMA SaveVersionPlans ==
    ASSUME PlanConstants, PlanInv, NEW w \in Workers, Plans!SaveVersion(w)
    PROVE  PlanInv'
<1>1. PICK r \in Plans!Request :
         /\ r = plan_req[w] /\ PlanPlaced(r) /\ PlanHeld(r)
         /\ r.amount \in [BudgetLines -> Plans!Amounts] /\ r.total \in Nat
         /\ r.pc # "idle" => \A v \in Workers \ {w} : plan_req[v].d # r.d
  BY PlanRequest
<1>2. /\ r.pc = "save_version" /\ r.d = "budget" /\ r.v \in BudgetVersions
      /\ r.total = budget.total /\ r.amount = budget.amount
  BY <1>1 DEF Plans!SaveVersion, Plans!At, PlanPlaced, BudgetLabels, VersionLabels,
              PlanHeld, BudgetHeld
<1>3. PICK q \in Plans!Request : PlanTakes(w, q) /\ PlanPlaced(q) /\ PlanHeld(q)'
  BY PlanEnds DEF Plans!SaveVersion
<1>4. /\ version' = [version EXCEPT ![r.v].snapshot = r.amount, ![r.v].total = r.total]
      /\ UNCHANGED <<budget, ledger, analysis, sheet, plan_offered, plan_aborts>>
      /\ Lags("budget") => plan_lagging' = plan_lagging \cup {r.v}
      /\ ~Lags("budget") => plan_lagging' = plan_lagging
  BY <1>1 DEF Plans!SaveVersion, Lags
<1>5. /\ version' \in [BudgetVersions -> Plans!Version]
      /\ version'[r.v].snapshot = r.amount /\ version'[r.v].total = r.total
      /\ \A u \in BudgetVersions \ {r.v} : version'[u] = version[u]
  <2>1. version \in [BudgetVersions -> Plans!Version]
    BY PlanTypes DEF PlanInv
  <2>2. PICK row \in Plans!Version : row = version[r.v]
    BY <2>1, <1>2
  <2> DEFINE new == [row EXCEPT !.snapshot = r.amount, !.total = r.total]
  <2>3. new \in Plans!Version /\ new.snapshot = r.amount /\ new.total = r.total
    BY <1>1 DEF Plans!Version
  <2>4. version' = [version EXCEPT ![r.v] = new]
    BY <1>2, <1>4, <2>1, <2>2
  <2> HIDE DEF new
  <2> QED BY <1>2, <2>1, <2>3, <2>4
<1>6. PlanTables
  <2>1. plan_lagging' \subseteq Plans!Documents
    BY <1>2, <1>4, PlanTypes DEF PlanInv, Plans!Documents
  <2> QED BY <2>1, <1>4, <1>5, PlanTypes DEF PlanTables, PlanInv
<1>7. OnlyDocument("budget")
  <2>1. BudgetStays /\ AnalysisStays /\ SheetStays
    BY <1>2, <1>4 DEF BudgetStays, AnalysisStays, SheetStays, Lags, PlanConstants
  <2>2. \A u \in BudgetVersions \ {r.v} : VersionStays(u)
    BY <1>4, <1>5 DEF VersionStays, Lags
  <2>3. VersionAgrees(r.v)'
    <3>1. CASE Lags("budget")
      BY <3>1, <1>4 DEF VersionAgrees, Lags
    <3>2. CASE ~Lags("budget")
      BY <3>2, <1>2, <1>5 DEF VersionAgrees, PlanInv, BudgetAgrees
    <3> QED BY <3>1, <3>2
  <2> QED BY <2>1, <2>2, <2>3 DEF OnlyDocument
<1>8. \A v \in Workers \ {w} : plan_req[v].d # "budget"
  BY <1>1, <1>2
<1> QED BY <1>3, <1>6, <1>7, <1>8, PlanFrame

-----------------------------------------------------------------------------
(* Variance analysis. *)

\* A new analysis has no lines yet, and the ledger is in no figure before it is read.
LEMMA NewAnalysisPlans ==
    ASSUME PlanInv, Plans!CreateAnalysis \/ Plans!PostEntry
    PROVE  PlanInv'
<1>1. /\ UNCHANGED <<budget, version, sheet, plan_lagging, plan_req, plan_offered, plan_aborts>>
      /\ ledger' \in Plans!Amounts
      /\ analysis' \in Plans!Analysis /\ analysis'.lines = analysis.lines
      /\ analysis'.budget = analysis.budget /\ analysis'.actual = analysis.actual
  <2>1. CASE Plans!CreateAnalysis
    <3>1. PICK status \in {"draft"} : analysis' = [analysis EXCEPT !.status = status]
      BY <2>1 DEF Plans!CreateAnalysis
    <3> QED BY <2>1, <3>1, PlanTypes DEF PlanInv, Plans!CreateAnalysis, Plans!Analysis, Plans!Amounts
  <2>2. CASE Plans!PostEntry
    BY <2>2, PlanTypes DEF PlanInv, Plans!PostEntry
  <2> QED BY <2>1, <2>2
<1>2. OnlyDocument("nowhere")
  BY <1>1 DEF OnlyDocument, BudgetStays, AnalysisStays, SheetStays, VersionStays, Lags
<1>3. PlanTypeInv'
  <2>1. Plans!TypeOK'
    BY <1>1 DEF PlanInv, PlanTypeInv, Plans!TypeOK
  <2>2. (\A w \in Workers : PlanPlaced(plan_req[w]))' /\ PlansApart'
    BY <1>1 DEF PlanInv, PlanTypeInv, PlansApart
  <2> QED BY <2>1, <2>2 DEF PlanTypeInv
<1>4. ASSUME NEW w \in Workers PROVE PlanHeld(plan_req[w])'
  <2>1. PICK r \in Plans!Request : r = plan_req[w] /\ PlanPlaced(r) /\ PlanHeld(r)
    BY PlanRequest
  <2>2. PlanHeld(r)'
    BY <1>2, <2>1, PlanSomewhere, WithinHolds
  <2>3. plan_req[w]' = r
    BY <1>1, <2>1
  <2> QED BY <2>2, <2>3
<1> QED BY <1>2, <1>3, <1>4, WithinAgrees DEF PlanInv

LEMMA GenerateVariancePlans ==
    ASSUME PlanConstants, PlanInv, NEW w \in Workers,
           Plans!GenerateVariance(w) \/ Plans!EditSheet(w)
    PROVE  PlanInv'
<1>1. PICK label \in {"clear_lines", "sheet_row"}, d \in {"analysis", "sheet"} :
         /\ plan_req' = [plan_req EXCEPT ![w] = [Plans!Idle EXCEPT !.pc = label, !.d = d]]
         /\ Plans!MayStart(w, d)
         /\ label = "clear_lines" <=> d = "analysis"
  BY Zenon DEF Plans!GenerateVariance, Plans!EditSheet, Plans!Begin
<1>2. PICK i \in Plans!Request : i = Plans!Idle /\ i.total = 0 /\ i.actual = 0
  BY PlanIdle
<1> DEFINE q == [i EXCEPT !.pc = label, !.d = d]
<1>3. plan_req' = [plan_req EXCEPT ![w] = q]
  BY <1>1, <1>2, Zenon
<1>4. q \in Plans!Request /\ q.pc = label /\ q.d = d /\ q.total = 0 /\ q.actual = 0
  BY <1>2 DEF Plans!Request, Plans!Documents
<1> HIDE DEF q
<1>5. PlanPlaced(q)
  BY <1>1, <1>4 DEF PlanPlaced, BudgetLabels, VersionLabels, AnalysisLabels, SheetLabels
<1>6. PlanHeld(q)
  BY <1>4 DEF PlanHeld, BudgetHeld, VersionLabels, AnalysisHeld, SheetHeld
<1>7. UNCHANGED <<Plans!rows, plan_offered, plan_aborts>>
  BY DEF Plans!GenerateVariance, Plans!EditSheet
<1> QED BY <1>1, <1>3, <1>4, <1>5, <1>6, <1>7, PlanBegins

LEMMA ClearVarianceLinesPlans ==
    ASSUME PlanConstants, PlanInv, NEW w \in Workers, Plans!ClearVarianceLines(w)
    PROVE  PlanInv'
<1>1. PICK r \in Plans!Request :
         /\ r = plan_req[w] /\ PlanPlaced(r) /\ PlanHeld(r)
         /\ r.pc # "idle" => \A v \in Workers \ {w} : plan_req[v].d # r.d
  BY PlanRequest
<1>2. r.pc = "clear_lines" /\ r.d = "analysis" /\ r.total = 0 /\ r.actual = 0
  BY <1>1 DEF Plans!ClearVarianceLines, Plans!At, PlanPlaced, AnalysisLabels, PlanHeld, AnalysisHeld
<1> DEFINE q == [r EXCEPT !.pc = "find_lines"]
<1>3. plan_req' = [plan_req EXCEPT ![w] = q]
  <2>1. plan_req' = [plan_req EXCEPT ![w].pc = "find_lines"]
    BY Zenon DEF Plans!ClearVarianceLines, Plans!Goto
  <2> QED BY <2>1, <1>1, PlanTypes DEF PlanInv
<1>4. q \in Plans!Request /\ q.pc = "find_lines" /\ q.d = "analysis" /\ q.total = 0 /\ q.actual = 0
  BY <1>2 DEF Plans!Request
<1> HIDE DEF q
<1>5. /\ analysis' = [analysis EXCEPT !.lines = <<>>]
      /\ plan_lagging' = plan_lagging \cup {"analysis"}
      /\ UNCHANGED <<budget, version, ledger, sheet, plan_offered, plan_aborts>>
  BY DEF Plans!ClearVarianceLines
<1>6. PlanTakes(w, q) /\ \A v \in Workers \ {w} : plan_req[v].d # "analysis"
  BY <1>1, <1>2, <1>3, <1>4 DEF PlanTakes
<1>7. analysis' \in Plans!Analysis /\ analysis'.lines = <<>>
  <2>1. PICK o \in Plans!Analysis : o = analysis
    BY PlanTypes DEF PlanInv
  <2>2. <<>> \in Seq([budget : Plans!Amounts, actual : Plans!Amounts])
    OBVIOUS
  <2>3. PICK e \in Seq([budget : Plans!Amounts, actual : Plans!Amounts]) : e = <<>>
    BY <2>2
  <2>4. [o EXCEPT !.lines = e] \in Plans!Analysis /\ [o EXCEPT !.lines = e].lines = e
    BY DEF Plans!Analysis
  <2>5. analysis' = [o EXCEPT !.lines = e]
    BY <1>5, <2>1, <2>3, Zenon
  <2> QED BY <2>3, <2>4, <2>5
<1>8. PlanTables
  BY <1>5, <1>7, PlanTypes DEF PlanTables, PlanInv, Plans!Documents
<1>9. OnlyDocument("analysis")
  <2>1. BudgetStays /\ VarianceAgrees' /\ SheetStays
    BY <1>5 DEF BudgetStays, VarianceAgrees, SheetStays, Lags
  <2>2. \A u \in BudgetVersions : VersionStays(u)
    BY <1>5 DEF VersionStays, Lags
  <2> QED BY <2>1, <2>2 DEF OnlyDocument
<1>10. PlanPlaced(q)
  BY <1>4 DEF PlanPlaced, BudgetLabels, VersionLabels, AnalysisLabels, SheetLabels
<1>11. BudgetColumn' = 0 /\ ActualColumn' = 0
  <2>1. PICK lines : lines = analysis'.lines /\ DOMAIN lines = {}
    BY <1>7
  <2> DEFINE f == [k \in DOMAIN lines |-> lines[k].budget]
             g == [k \in DOMAIN lines |-> lines[k].actual]
  <2>2. f \in [{} -> Int] /\ g \in [{} -> Int] /\ \A x \in {} : f[x] = 0 /\ g[x] = 0
    BY <2>1
  <2>3. BudgetColumn' = SumOf(f) /\ ActualColumn' = SumOf(g)
    BY <2>1, Zenon DEF BudgetColumn, ActualColumn
  <2> HIDE DEF f, g
  <2>4. IsFiniteSet({})
    BY FS_EmptySet
  <2> QED BY <2>2, <2>3, <2>4, SumZero
<1>12. PlanHeld(q)'
  BY <1>4, <1>5, <1>11 DEF PlanHeld, BudgetHeld, VersionLabels, AnalysisHeld, SheetHeld
<1> QED BY <1>4, <1>6, <1>8, <1>9, <1>10, <1>12, PlanFrame

LEMMA FindLinesPlans ==
    ASSUME PlanConstants, PlanInv, NEW w \in Workers, Plans!FindLines(w)
    PROVE  PlanInv'
<1>1. PICK r \in Plans!Request :
         /\ r = plan_req[w] /\ PlanPlaced(r) /\ PlanHeld(r)
         /\ r.pc # "idle" => \A v \in Workers \ {w} : plan_req[v].d # r.d
  BY PlanRequest
<1>2. /\ r.pc = "find_lines" /\ r.d = "analysis" /\ "analysis" \in plan_lagging
      /\ r.total = BudgetColumn /\ r.actual = ActualColumn
  BY <1>1 DEF Plans!FindLines, Plans!At, PlanPlaced, AnalysisLabels, PlanHeld, AnalysisHeld
<1>3. PICK lines \in [BudgetLines -> Plans!Amounts] : lines = budget.amount
  BY PlanTypes DEF PlanInv, Plans!Budget
<1>4. PICK todo \in SUBSET BudgetLines : todo = {l \in ComparedLines : lines[l] > 0}
  BY DEF PlanConstants
<1> DEFINE q == [r EXCEPT !.pc = "compare", !.amount = lines, !.todo = todo]
<1>5. plan_req' = [plan_req EXCEPT ![w] = q]
  <2>1. plan_req' = [plan_req EXCEPT ![w].pc = "compare", ![w].amount = budget.amount,
                                     ![w].todo = {l \in ComparedLines : budget.amount[l] > 0}]
    BY Zenon DEF Plans!FindLines
  <2>2. plan_req' = [plan_req EXCEPT ![w].pc = "compare", ![w].amount = lines, ![w].todo = todo]
    BY <2>1, <1>3, <1>4, Zenon
  <2> QED BY <2>2, <1>1, PlanTypes DEF PlanInv
<1>6. /\ q \in Plans!Request /\ q.pc = "compare" /\ q.d = "analysis" /\ q.todo = todo
      /\ q.total = r.total /\ q.actual = r.actual
  BY <1>2 DEF Plans!Request
<1> HIDE DEF q
<1>7. UNCHANGED <<Plans!rows, plan_offered>> /\ plan_aborts' \in Nat
  BY PlanTypes DEF Plans!FindLines, PlanInv
<1>8. PlanTakes(w, q)
  BY <1>1, <1>2, <1>5, <1>6 DEF PlanTakes
<1>9. PlanPlaced(q)
  BY <1>6 DEF PlanPlaced, BudgetLabels, VersionLabels, AnalysisLabels, SheetLabels
<1>10. PlanHeld(q)
  BY <1>2, <1>6 DEF PlanHeld, BudgetHeld, VersionLabels, AnalysisHeld, SheetHeld
<1> QED BY <1>6, <1>7, <1>8, <1>9, <1>10, PlanQuiet

\* A list with another element.
LEMMA OneMore ==
    ASSUME NEW S, NEW seq \in Seq(S), NEW x \in S, NEW more, more = Append(seq, x)
    PROVE  /\ DOMAIN seq = 1..Len(seq) /\ Len(seq) \in Nat /\ DOMAIN more = 1..(Len(seq) + 1)
           /\ more[Len(seq) + 1] = x /\ \A k \in 1..Len(seq) : more[k] = seq[k]
<1>1. more \in Seq(S) /\ Len(more) = Len(seq) + 1
  BY AppendProperties
<1>2. more[Len(seq) + 1] = x /\ \A k \in 1..Len(seq) : more[k] = seq[k]
  BY AppendProperties
<1>3. DOMAIN seq = 1..Len(seq) /\ Len(seq) \in Nat /\ DOMAIN more = 1..Len(more)
  BY <1>1, LenProperties
<1> QED BY <1>1, <1>2, <1>3

LEMMA CompareLinePlans ==
    ASSUME PlanConstants, PlanInv, NEW w \in Workers, Plans!CompareLine(w)
    PROVE  PlanInv'
<1>1. PICK r \in Plans!Request :
         /\ r = plan_req[w] /\ PlanPlaced(r) /\ PlanHeld(r)
         /\ r.amount \in [BudgetLines -> Plans!Amounts] /\ r.total \in Nat /\ r.actual \in Nat
         /\ r.pc # "idle" => \A v \in Workers \ {w} : plan_req[v].d # r.d
  BY PlanRequest
<1>2. /\ r.pc = "compare" /\ r.d = "analysis" /\ "analysis" \in plan_lagging
      /\ r.total = BudgetColumn /\ r.actual = ActualColumn /\ r.todo \subseteq BudgetLines
  BY <1>1 DEF Plans!CompareLine, Plans!At, PlanPlaced, AnalysisLabels, PlanHeld, AnalysisHeld
<1>3. PICK l \in r.todo :
         /\ analysis' = [analysis EXCEPT
                !.lines = Append(@, [budget |-> r.amount[l], actual |-> ledger])]
         /\ plan_req' = [plan_req EXCEPT ![w].todo = @ \ {l}, ![w].total = @ + r.amount[l],
                                         ![w].actual = @ + ledger]
  BY <1>1, Zenon DEF Plans!CompareLine
<1>4. PICK a \in 0..MaxFigure, b \in 0..MaxFigure : a = r.amount[l] /\ b = ledger
  BY <1>1, <1>2, PlanTypes DEF PlanInv, Plans!Amounts
<1>5. a \in Nat /\ b \in Nat
  BY DEF PlanConstants
<1>5a. PICK t \in Nat, s \in Nat : t = r.total + a /\ s = r.actual + b
  <2>1. r.total + a \in Nat /\ r.actual + b \in Nat
    BY <1>1, <1>5
  <2> QED BY <2>1
<1> DEFINE q == [r EXCEPT !.todo = @ \ {l}, !.total = t, !.actual = s]
<1>6. plan_req' = [plan_req EXCEPT ![w] = q]
  <2>1. plan_req' = [plan_req EXCEPT ![w].todo = @ \ {l}, ![w].total = @ + a, ![w].actual = @ + b]
    BY <1>3, <1>4, Zenon
  <2> QED BY <2>1, <1>1, <1>5a, PlanTypes DEF PlanInv
<1>7. /\ q \in Plans!Request /\ q.pc = "compare" /\ q.d = "analysis" /\ q.todo \subseteq BudgetLines
      /\ q.total = t /\ q.actual = s
  BY <1>2 DEF Plans!Request
<1> HIDE DEF q
<1>8. UNCHANGED <<budget, version, ledger, sheet, plan_lagging, plan_offered, plan_aborts>>
  BY DEF Plans!CompareLine
<1>9. PlanTakes(w, q) /\ \A v \in Workers \ {w} : plan_req[v].d # "analysis"
  BY <1>1, <1>2, <1>6, <1>7 DEF PlanTakes
<1>9a. PICK Line : Line = [budget : Plans!Amounts, actual : Plans!Amounts]
  OBVIOUS
<1>9b. PICK x : x = [budget |-> a, actual |-> b]
  OBVIOUS
<1>10. x \in Line /\ x.budget = a /\ x.actual = b
  BY <1>9a, <1>9b DEF Plans!Amounts
<1>11. PICK lines \in Seq(Line), more \in Seq(Line) :
         /\ lines = analysis.lines /\ more = Append(lines, x) /\ more = analysis'.lines
         /\ analysis' \in Plans!Analysis
  <2>1. PICK o \in Plans!Analysis : o = analysis
    BY PlanTypes DEF PlanInv
  <2>2. PICK lines \in Seq(Line) : lines = o.lines
    BY <1>9a DEF Plans!Analysis
  <2>3. PICK more \in Seq(Line) : more = Append(lines, x)
    BY <1>10, AppendProperties
  <2>4. analysis' = [o EXCEPT !.lines = more]
    <3>1. analysis' = [analysis EXCEPT !.lines = Append(@, x)]
      BY <1>3, <1>4, <1>9b, Zenon
    <3>2. analysis' = [o EXCEPT !.lines = Append(@, x)]
      BY <3>1, <2>1, Zenon
    <3>3. [o EXCEPT !.lines = Append(@, x)] = [o EXCEPT !.lines = Append(o.lines, x)]
      OBVIOUS
    <3> QED BY <3>2, <3>3, <2>2, <2>3, Zenon
  <2>5. analysis' \in Plans!Analysis /\ analysis'.lines = more
    BY <1>9a, <2>4 DEF Plans!Analysis
  <2> QED BY <2>1, <2>2, <2>3, <2>5
<1>12. BudgetColumn' = BudgetColumn + a /\ ActualColumn' = ActualColumn + b
  <2>1. DOMAIN lines = 1..Len(lines) /\ Len(lines) \in Nat
        /\ DOMAIN more = 1..(Len(lines) + 1)
        /\ more[Len(lines) + 1] = x /\ \A k \in 1..Len(lines) : more[k] = lines[k]
    <3>1. x \in Line /\ more = Append(lines, x)
      BY <1>10, <1>11
    <3> QED BY <3>1, OneMore
  <2>2. \A k \in DOMAIN lines : lines[k] \in Line
    OBVIOUS
  <2>3. \A y \in Line : y.budget \in Nat /\ y.actual \in Nat
    BY <1>9a DEF PlanConstants, Plans!Amounts
  <2> DEFINE n == Len(lines)
             f == [k \in DOMAIN lines |-> lines[k].budget]
             g == [k \in DOMAIN more |-> more[k].budget]
             f2 == [k \in DOMAIN lines |-> lines[k].actual]
             g2 == [k \in DOMAIN more |-> more[k].actual]
  <2>4. f \in [1..n -> Int] /\ g \in [1..(n + 1) -> Int] /\ g[n + 1] = a
        /\ \A k \in 1..n : g[k] = f[k]
    BY <2>1, <2>2, <2>3, <1>5, <1>10
  <2>5. f2 \in [1..n -> Int] /\ g2 \in [1..(n + 1) -> Int] /\ g2[n + 1] = b
        /\ \A k \in 1..n : g2[k] = f2[k]
    BY <2>1, <2>2, <2>3, <1>5, <1>10
  <2>6. BudgetColumn = SumOf(f) /\ ActualColumn = SumOf(f2)
    BY <1>11, Zenon DEF BudgetColumn, ActualColumn
  <2>7. BudgetColumn' = SumOf(g) /\ ActualColumn' = SumOf(g2)
    BY <1>11, Zenon DEF BudgetColumn, ActualColumn
  <2> HIDE DEF f, g, f2, g2
  <2>8. SumOf(g) = SumOf(f) + a
    BY <2>1, <2>4, SumAppend
  <2>9. SumOf(g2) = SumOf(f2) + b
    BY <2>1, <2>5, SumAppend
  <2> QED BY <2>6, <2>7, <2>8, <2>9
<1>13. PlanTables
  BY <1>8, <1>11, PlanTypes DEF PlanTables, PlanInv
<1>14. OnlyDocument("analysis")
  <2>1. BudgetStays /\ VarianceAgrees' /\ SheetStays
    BY <1>2, <1>8 DEF BudgetStays, VarianceAgrees, SheetStays, Lags
  <2>2. \A u \in BudgetVersions : VersionStays(u)
    BY <1>8 DEF VersionStays, Lags
  <2> QED BY <2>1, <2>2 DEF OnlyDocument
<1>15. PlanPlaced(q)
  BY <1>7 DEF PlanPlaced, BudgetLabels, VersionLabels, AnalysisLabels, SheetLabels
<1>16. AnalysisHeld(q)'
  BY <1>2, <1>5a, <1>7, <1>8, <1>12 DEF AnalysisHeld
<1>17. PlanHeld(q)'
  BY <1>7, <1>16 DEF PlanHeld, BudgetHeld, VersionLabels, SheetHeld
<1> QED BY <1>7, <1>9, <1>13, <1>14, <1>15, <1>17, PlanFrame

LEMMA SaveAnalysisPlans ==
    ASSUME PlanConstants, PlanInv, NEW w \in Workers, Plans!SaveAnalysis(w)
    PROVE  PlanInv'
<1>1. PICK r \in Plans!Request :
         /\ r = plan_req[w] /\ PlanPlaced(r) /\ PlanHeld(r) /\ r.total \in Nat /\ r.actual \in Nat
         /\ r.pc # "idle" => \A v \in Workers \ {w} : plan_req[v].d # r.d
  BY PlanRequest
<1>2. r.pc = "compare" /\ r.d = "analysis" /\ r.total = BudgetColumn /\ r.actual = ActualColumn
  BY <1>1 DEF Plans!SaveAnalysis, Plans!At, PlanPlaced, AnalysisLabels, PlanHeld, AnalysisHeld
<1>3. PICK q \in Plans!Request : PlanTakes(w, q) /\ PlanPlaced(q) /\ PlanHeld(q)'
  BY PlanEnds DEF Plans!SaveAnalysis
<1>4. /\ analysis' = [analysis EXCEPT !.status = "generated", !.budget = r.total, !.actual = r.actual]
      /\ plan_lagging' = plan_lagging \ {"analysis"}
      /\ UNCHANGED <<budget, version, ledger, sheet, plan_offered, plan_aborts>>
  BY <1>1 DEF Plans!SaveAnalysis
<1>5. /\ analysis' \in Plans!Analysis /\ analysis'.lines = analysis.lines
      /\ analysis'.budget = r.total /\ analysis'.actual = r.actual
  <2>1. PICK o \in Plans!Analysis : o = analysis
    BY PlanTypes DEF PlanInv
  <2>2. /\ [o EXCEPT !.status = "generated", !.budget = r.total, !.actual = r.actual] \in Plans!Analysis
        /\ analysis' = [o EXCEPT !.status = "generated", !.budget = r.total, !.actual = r.actual]
    BY <1>1, <1>4, <2>1 DEF Plans!Analysis
  <2> QED BY <2>1, <2>2 DEF Plans!Analysis
<1>6. PlanTables
  BY <1>4, <1>5, PlanTypes DEF PlanTables, PlanInv
<1>7. OnlyDocument("analysis")
  <2>1. VarianceAgrees'
    BY <1>2, <1>5 DEF VarianceAgrees, BudgetColumn, ActualColumn
  <2>2. BudgetStays /\ SheetStays
    BY <1>4 DEF BudgetStays, SheetStays, Lags
  <2>3. \A v \in BudgetVersions : VersionStays(v)
    BY <1>4 DEF VersionStays, Lags, PlanConstants
  <2> QED BY <2>1, <2>2, <2>3 DEF OnlyDocument
<1>8. \A v \in Workers \ {w} : plan_req[v].d # "analysis"
  BY <1>1, <1>2
<1> QED BY <1>3, <1>6, <1>7, <1>8, PlanFrame

-----------------------------------------------------------------------------
(* Sheets. *)

LEMMA SaveSheetRowPlans ==
    ASSUME PlanConstants, PlanInv, NEW w \in Workers, Plans!SaveSheetRow(w)
    PROVE  PlanInv'
<1>1. PICK r \in Plans!Request :
         /\ r = plan_req[w] /\ PlanPlaced(r) /\ PlanHeld(r)
         /\ r.pc # "idle" => \A v \in Workers \ {w} : plan_req[v].d # r.d
  BY PlanRequest
<1>2. r.pc = "sheet_row" /\ r.d = "sheet" /\ r.total = 0
  BY <1>1 DEF Plans!SaveSheetRow, Plans!At, PlanPlaced, SheetLabels, PlanHeld, SheetHeld
<1> DEFINE q == [r EXCEPT !.pc = "cells", !.todo = SheetCells]
<1>3. plan_req' = [plan_req EXCEPT ![w] = q]
  <2>1. plan_req' = [plan_req EXCEPT ![w].pc = "cells", ![w].todo = SheetCells]
    BY Zenon DEF Plans!SaveSheetRow
  <2> QED BY <2>1, <1>1, PlanTypes DEF PlanInv
<1>4. /\ q \in Plans!Request /\ q.pc = "cells" /\ q.d = "sheet" /\ q.total = 0
      /\ q.todo = SheetCells
  BY <1>2 DEF Plans!Request
<1> HIDE DEF q
<1>5. /\ plan_lagging' = plan_lagging \cup {"sheet"}
      /\ UNCHANGED <<budget, version, ledger, analysis, sheet, plan_offered, plan_aborts>>
  BY DEF Plans!SaveSheetRow
<1>6. PlanTakes(w, q) /\ \A v \in Workers \ {w} : plan_req[v].d # "sheet"
  BY <1>1, <1>2, <1>3, <1>4 DEF PlanTakes
<1>7. PlanTables
  BY <1>5, PlanTypes DEF PlanTables, PlanInv, Plans!Documents
<1>8. OnlyDocument("sheet")
  <2>1. BudgetStays /\ AnalysisStays /\ SheetAgrees'
    BY <1>5 DEF BudgetStays, AnalysisStays, SheetAgrees, Lags
  <2>2. NothingFromNothing'
    BY <1>5 DEF NothingFromNothing, PlanInv
  <2>3. \A v \in BudgetVersions : VersionStays(v)
    BY <1>5 DEF VersionStays, Lags
  <2> QED BY <2>1, <2>2, <2>3 DEF OnlyDocument
<1>9. PlanPlaced(q)
  BY <1>4 DEF PlanPlaced, BudgetLabels, VersionLabels, AnalysisLabels, SheetLabels
<1>10. PlanHeld(q)'
  BY <1>4, <1>5 DEF PlanHeld, BudgetHeld, VersionLabels, AnalysisHeld, SheetHeld
<1> QED BY <1>4, <1>6, <1>7, <1>8, <1>9, <1>10, PlanFrame

LEMMA SaveCellPlans ==
    ASSUME PlanConstants, PlanInv, NEW w \in Workers, Plans!SaveCell(w)
    PROVE  PlanInv'
<1>1. PICK r \in Plans!Request :
         /\ r = plan_req[w] /\ PlanPlaced(r) /\ PlanHeld(r)
         /\ r.pc # "idle" => \A v \in Workers \ {w} : plan_req[v].d # r.d
  BY PlanRequest
<1>2. /\ r.pc = "cells" /\ r.d = "sheet" /\ r.total = 0 /\ "sheet" \in plan_lagging
      /\ r.todo \subseteq SheetCells
  BY <1>1 DEF Plans!SaveCell, Plans!At, PlanPlaced, SheetLabels, PlanHeld, SheetHeld
<1>3. PICK c \in r.todo, amount \in Plans!Amounts :
         /\ sheet' = [sheet EXCEPT !.amount[c] = amount,
                                   !.derived[c] = IF amount = 0 THEN 0 ELSE @]
         /\ plan_req' = [plan_req EXCEPT ![w].todo = @ \ {c}]
  BY <1>1, Zenon DEF Plans!SaveCell
<1> DEFINE q == [r EXCEPT !.todo = @ \ {c}]
<1>4. plan_req' = [plan_req EXCEPT ![w] = q]
  BY <1>1, <1>3, PlanTypes DEF PlanInv
<1>5. /\ q \in Plans!Request /\ q.pc = "cells" /\ q.d = "sheet" /\ q.total = 0
      /\ q.todo \subseteq SheetCells
  BY <1>2 DEF Plans!Request
<1> HIDE DEF q
<1>6. UNCHANGED <<budget, version, ledger, analysis, plan_lagging, plan_offered, plan_aborts>>
  BY DEF Plans!SaveCell
<1>7. PlanTakes(w, q) /\ \A v \in Workers \ {w} : plan_req[v].d # "sheet"
  BY <1>1, <1>2, <1>4, <1>5 DEF PlanTakes
<1>8. sheet' \in Plans!Sheet /\ NothingFromNothing'
  <2>1. PICK o \in Plans!Sheet : o = sheet
    BY PlanTypes DEF PlanInv
  <2>2. PICK d \in Nat : d = IF amount = 0 THEN 0 ELSE o.derived[c]
    <3>1. c \in SheetCells
      BY <1>2
    <3>2. o.derived[c] \in Nat
      BY <3>1 DEF Plans!Sheet
    <3> QED BY <3>2
  <2> DEFINE A == [o.amount EXCEPT ![c] = amount]
             D == [o.derived EXCEPT ![c] = d]
  <2>3. /\ A \in [SheetCells -> Plans!Amounts] /\ D \in [SheetCells -> Nat]
        /\ A[c] = amount /\ D[c] = d
        /\ \A x \in SheetCells \ {c} : A[x] = o.amount[x] /\ D[x] = o.derived[x]
    BY <1>2 DEF Plans!Sheet
  <2>4. sheet' = [o EXCEPT !.amount = A, !.derived = D]
    <3>1. sheet' = [o EXCEPT !.amount[c] = amount, !.derived[c] = IF amount = 0 THEN 0 ELSE @]
      BY <1>3, <2>1, Zenon
    <3>2. sheet' = [o EXCEPT !.amount[c] = amount, !.derived[c] = d]
      BY <3>1, <2>2 DEF Plans!Sheet
    <3> QED BY <3>2 DEF Plans!Sheet
  <2> HIDE DEF A, D
  <2>5. sheet' \in Plans!Sheet /\ sheet'.amount = A /\ sheet'.derived = D
    BY <2>3, <2>4 DEF Plans!Sheet
  <2>6. \A x \in SheetCells : A[x] = 0 => D[x] = 0
    BY <2>1, <2>2, <2>3 DEF PlanInv, NothingFromNothing
  <2> QED BY <2>5, <2>6 DEF NothingFromNothing
<1>9. PlanTables
  BY <1>6, <1>8, PlanTypes DEF PlanTables, PlanInv
<1>10. OnlyDocument("sheet")
  <2>1. BudgetStays /\ AnalysisStays /\ SheetAgrees'
    BY <1>2, <1>6 DEF BudgetStays, AnalysisStays, SheetAgrees, Lags
  <2>2. \A v \in BudgetVersions : VersionStays(v)
    BY <1>6 DEF VersionStays, Lags
  <2> QED BY <1>8, <2>1, <2>2 DEF OnlyDocument
<1>11. PlanPlaced(q)
  BY <1>5 DEF PlanPlaced, BudgetLabels, VersionLabels, AnalysisLabels, SheetLabels
<1>12. PlanHeld(q)'
  BY <1>2, <1>5, <1>6 DEF PlanHeld, BudgetHeld, VersionLabels, AnalysisHeld, SheetHeld
<1> QED BY <1>5, <1>7, <1>9, <1>10, <1>11, <1>12, PlanFrame

\* At the start of a calculation nothing is derived from the rows that it leaves out.
LEMMA NothingDone ==
    ASSUME PlanConstants, PlanInv, NEW todo, todo = Plans!Present
    PROVE  /\ todo \subseteq SheetCells /\ Done(todo) = 0
           /\ \A c \in todo : sheet.amount[c] > 0
           /\ \A c \in SheetCells \ todo : sheet.derived[c] = 2 * sheet.amount[c]
<1>1. sheet.amount \in [SheetCells -> Nat] /\ sheet.derived \in [SheetCells -> Nat]
  BY PlanTypes DEF PlanInv
<1>2. todo = {c \in SheetCells : sheet.amount[c] > 0}
  BY DEF Plans!Present
<1>3. \A c \in SheetCells \ todo : sheet.amount[c] = 0 /\ sheet.derived[c] = 0
  BY <1>1, <1>2 DEF PlanInv, NothingFromNothing
<1> DEFINE g == [c \in SheetCells |-> IF c \in todo THEN 0 ELSE sheet.derived[c]]
<1>4. g \in [SheetCells -> Int] /\ \A c \in SheetCells : g[c] = 0
  BY <1>3
<1>5. Done(todo) = SumOf(g)
  BY Zenon DEF Done
<1> HIDE DEF g
<1>6. Done(todo) = 0
  BY <1>4, <1>5, SumZero DEF PlanConstants
<1> QED BY <1>2, <1>3, <1>6

LEMMA EndCellsPlans ==
    ASSUME PlanConstants, PlanInv, NEW w \in Workers, Plans!EndCells(w)
    PROVE  PlanInv'
<1>1. PICK r \in Plans!Request :
         /\ r = plan_req[w] /\ PlanPlaced(r) /\ PlanHeld(r)
         /\ r.pc # "idle" => \A v \in Workers \ {w} : plan_req[v].d # r.d
  BY PlanRequest
<1>2. r.pc = "cells" /\ r.d = "sheet" /\ r.total = 0
  BY <1>1 DEF Plans!EndCells, Plans!At, PlanPlaced, SheetLabels, PlanHeld, SheetHeld
<1>3. UNCHANGED <<Plans!rows, plan_offered>> /\ plan_aborts' \in Nat
  BY PlanTypes DEF Plans!EndCells, PlanInv
<1>4. CASE Plans!Finish(w)
  <2>1. PICK q \in Plans!Request : PlanTakes(w, q) /\ PlanPlaced(q) /\ PlanHeld(q)
    BY <1>4, PlanEnds
  <2> QED BY <2>1, <1>3, PlanQuiet
<1>5. CASE plan_req' = [plan_req EXCEPT ![w].pc = "calculate", ![w].todo = Plans!Present]
  <2>1. PICK todo : todo = Plans!Present
    OBVIOUS
  <2>2. /\ todo \subseteq SheetCells /\ Done(todo) = 0 /\ \A c \in todo : sheet.amount[c] > 0
        /\ \A c \in SheetCells \ todo : sheet.derived[c] = 2 * sheet.amount[c]
    BY <2>1, NothingDone
  <2> DEFINE q == [r EXCEPT !.pc = "calculate", !.todo = todo]
  <2>3. plan_req' = [plan_req EXCEPT ![w] = q]
    <3>1. plan_req' = [plan_req EXCEPT ![w].pc = "calculate", ![w].todo = todo]
      BY <1>5, <2>1, Zenon
    <3> QED BY <3>1, <1>1, PlanTypes DEF PlanInv
  <2>4. q \in Plans!Request /\ q.pc = "calculate" /\ q.d = "sheet" /\ q.total = 0 /\ q.todo = todo
    BY <1>2, <2>2 DEF Plans!Request
  <2> HIDE DEF q
  <2>5. PlanTakes(w, q)
    BY <1>1, <1>2, <2>3, <2>4 DEF PlanTakes
  <2>6. PlanPlaced(q)
    BY <2>2, <2>4 DEF PlanPlaced, BudgetLabels, VersionLabels, AnalysisLabels, SheetLabels
  <2>7. PlanHeld(q)
    BY <2>2, <2>4 DEF PlanHeld, BudgetHeld, VersionLabels, AnalysisHeld, SheetHeld
  <2> QED BY <1>3, <2>4, <2>5, <2>6, <2>7, PlanQuiet
<1> QED BY <1>4, <1>5, Zenon DEF Plans!EndCells

LEMMA CalculatePlans ==
    ASSUME PlanConstants, PlanInv, NEW w \in Workers, Plans!Calculate(w)
    PROVE  PlanInv'
<1>1. PICK todo : todo = Plans!Present
  OBVIOUS
<1>2. /\ todo \subseteq SheetCells /\ Done(todo) = 0 /\ \A c \in todo : sheet.amount[c] > 0
      /\ \A c \in SheetCells \ todo : sheet.derived[c] = 2 * sheet.amount[c]
  BY <1>1, NothingDone
<1>3. PICK i \in Plans!Request : i = Plans!Idle /\ i.total = 0
  BY PlanIdle
<1> DEFINE q == [i EXCEPT !.pc = "calculate", !.d = "sheet", !.todo = todo]
<1>4. plan_req' = [plan_req EXCEPT ![w] = q]
  <2>1. plan_req' = [plan_req EXCEPT ![w] = [Plans!Idle EXCEPT !.pc = "calculate", !.d = "sheet",
                                                               !.todo = Plans!Present]]
    BY Zenon DEF Plans!Calculate
  <2> QED BY <2>1, <1>1, <1>3, Zenon
<1>5. q \in Plans!Request /\ q.pc = "calculate" /\ q.d = "sheet" /\ q.total = 0 /\ q.todo = todo
  BY <1>2, <1>3 DEF Plans!Request, Plans!Documents
<1> HIDE DEF q
<1>6. PlanPlaced(q)
  BY <1>2, <1>5 DEF PlanPlaced, BudgetLabels, VersionLabels, AnalysisLabels, SheetLabels
<1>7. PlanHeld(q)
  BY <1>2, <1>5 DEF PlanHeld, BudgetHeld, VersionLabels, AnalysisHeld, SheetHeld
<1>8. Plans!MayStart(w, q.d) /\ UNCHANGED <<Plans!rows, plan_offered, plan_aborts>>
  BY <1>5 DEF Plans!Calculate
<1> QED BY <1>4, <1>5, <1>6, <1>7, <1>8, PlanBegins

\* What is derived from the cell is added to what is done, and to the total.
LEMMA CalculateCellPlans ==
    ASSUME PlanConstants, PlanInv, NEW w \in Workers, Plans!CalculateCell(w)
    PROVE  PlanInv'
<1>1. PICK r \in Plans!Request :
         /\ r = plan_req[w] /\ PlanPlaced(r) /\ PlanHeld(r) /\ r.total \in Nat
         /\ r.pc # "idle" => \A v \in Workers \ {w} : plan_req[v].d # r.d
  BY PlanRequest
<1>2. /\ r.pc = "calculate" /\ r.d = "sheet" /\ r.todo \subseteq SheetCells /\ r.total = Done(r.todo)
      /\ \A c \in r.todo : sheet.amount[c] > 0
      /\ sheet.kind # "scenario" => \A c \in SheetCells \ r.todo : sheet.derived[c] = 2 * sheet.amount[c]
  BY <1>1 DEF Plans!CalculateCell, Plans!At, PlanPlaced, SheetLabels, PlanHeld, SheetHeld
<1>3. PICK c \in r.todo :
         /\ sheet' = [sheet EXCEPT !.derived[c] = Plans!Derived(c)]
         /\ plan_req' = [plan_req EXCEPT ![w].todo = @ \ {c}, ![w].total = @ + Plans!Derived(c)]
  BY <1>1, Zenon DEF Plans!CalculateCell
<1>4. c \in SheetCells /\ sheet.amount[c] \in Nat
  BY <1>2, PlanTypes DEF PlanInv
<1>5. PICK d \in Nat : d = Plans!Derived(c) /\ (sheet.kind # "scenario" => d = 2 * sheet.amount[c])
  <2>1. PICK t \in Nat : t = Plans!SumOf(budget.amount)
    BY PlanTypes, SumType, SamePlanSum DEF PlanInv, PlanConstants
  <2>2. t + sheet.amount[c] \in Nat /\ 2 * sheet.amount[c] \in Nat
    BY <1>4
  <2> QED BY <2>1, <2>2 DEF Plans!Derived
<1>6. PICK t \in Nat : t = r.total + d
  <2>1. r.total + d \in Nat
    BY <1>1
  <2> QED BY <2>1
<1> DEFINE q == [r EXCEPT !.todo = @ \ {c}, !.total = t]
<1>7. plan_req' = [plan_req EXCEPT ![w] = q]
  <2>1. plan_req' = [plan_req EXCEPT ![w].todo = @ \ {c}, ![w].total = @ + d]
    BY <1>3, <1>5, Zenon
  <2> QED BY <2>1, <1>1, <1>6, PlanTypes DEF PlanInv
<1>8. /\ q \in Plans!Request /\ q.pc = "calculate" /\ q.d = "sheet" /\ q.todo = r.todo \ {c}
      /\ q.total = t
  BY <1>2 DEF Plans!Request
<1> HIDE DEF q
<1>9. /\ plan_lagging' = plan_lagging \cup {"sheet"}
      /\ UNCHANGED <<budget, version, ledger, analysis, plan_offered, plan_aborts>>
  BY DEF Plans!CalculateCell
<1>10. PlanTakes(w, q) /\ \A v \in Workers \ {w} : plan_req[v].d # "sheet"
  BY <1>1, <1>2, <1>7, <1>8 DEF PlanTakes
<1>11. PICK o \in Plans!Sheet, n \in Plans!Sheet :
         /\ o = sheet /\ n = sheet' /\ n.kind = o.kind /\ n.amount = o.amount
         /\ n.derived[c] = d /\ \A x \in SheetCells \ {c} : n.derived[x] = o.derived[x]
  <2>1. PICK o \in Plans!Sheet : o = sheet
    BY PlanTypes DEF PlanInv
  <2> DEFINE D == [o.derived EXCEPT ![c] = d]
  <2>2. D \in [SheetCells -> Nat] /\ D[c] = d /\ \A x \in SheetCells \ {c} : D[x] = o.derived[x]
    BY <1>4 DEF Plans!Sheet
  <2>3. sheet' = [o EXCEPT !.derived = D]
    <3>1. sheet' = [o EXCEPT !.derived[c] = d]
      BY <1>3, <1>5, <2>1, Zenon
    <3> QED BY <3>1 DEF Plans!Sheet
  <2> HIDE DEF D
  <2>4. PICK n : n = [o EXCEPT !.derived = D]
    OBVIOUS
  <2>5. n \in Plans!Sheet /\ n.kind = o.kind /\ n.amount = o.amount /\ n.derived = D
    BY <2>2, <2>4 DEF Plans!Sheet
  <2>6. /\ n = sheet' /\ n.derived[c] = d
        /\ \A x \in SheetCells \ {c} : n.derived[x] = o.derived[x]
    BY <2>2, <2>3, <2>4, <2>5
  <2> QED BY <2>1, <2>5, <2>6
<1>12. NothingFromNothing'
  <2>1. \A x \in SheetCells \ {c} : n.amount[x] = 0 => n.derived[x] = 0
    BY <1>11 DEF PlanInv, NothingFromNothing
  <2>2. n.amount[c] # 0
    BY <1>2, <1>4, <1>11
  <2> QED BY <2>1, <2>2, <1>11 DEF NothingFromNothing
<1>13. PlanTables
  BY <1>9, <1>11, PlanTypes DEF PlanTables, PlanInv, Plans!Documents
<1>14. OnlyDocument("sheet")
  <2>1. BudgetStays /\ AnalysisStays /\ SheetAgrees'
    BY <1>9 DEF BudgetStays, AnalysisStays, SheetAgrees, Lags
  <2>2. \A v \in BudgetVersions : VersionStays(v)
    BY <1>9 DEF VersionStays, Lags
  <2> QED BY <1>12, <2>1, <2>2 DEF OnlyDocument
<1>15. PlanPlaced(q)
  BY <1>2, <1>8 DEF PlanPlaced, BudgetLabels, VersionLabels, AnalysisLabels, SheetLabels
<1>16. Done(q.todo)' = q.total
  <2> DEFINE g == [x \in SheetCells |-> IF x \in r.todo THEN 0 ELSE o.derived[x]]
             h == [x \in SheetCells |-> IF x \in q.todo THEN 0 ELSE n.derived[x]]
  <2>1. g \in [SheetCells -> Int] /\ h \in [SheetCells -> Int]
    BY DEF Plans!Sheet
  <2>2. g[c] = 0 /\ h[c] = d /\ \A x \in SheetCells \ {c} : g[x] = h[x]
    BY <1>4, <1>8, <1>11
  <2>3. Done(r.todo) = SumOf(g) /\ Done(q.todo)' = SumOf(h)
    BY <1>11, Zenon DEF Done
  <2> HIDE DEF g, h
  <2>4. SumOf(g) + d = SumOf(h) + 0
    BY <1>4, <2>1, <2>2, SumChange DEF PlanConstants
  <2>5. SumOf(h) \in Int
    BY <2>1, SumIsInteger DEF PlanConstants
  <2> QED BY <1>2, <1>6, <1>8, <2>3, <2>4, <2>5
<1>17. SheetHeld(q)'
  <2>1. n.kind # "scenario" => \A x \in SheetCells \ q.todo : n.derived[x] = 2 * n.amount[x]
    BY <1>2, <1>5, <1>8, <1>11
  <2>2. \A x \in q.todo : n.amount[x] > 0
    BY <1>2, <1>8, <1>11
  <2> QED BY <1>8, <1>11, <1>16, <2>1, <2>2 DEF SheetHeld
<1>18. PlanHeld(q)'
  BY <1>8, <1>17 DEF PlanHeld, BudgetHeld, VersionLabels, AnalysisHeld
<1> QED BY <1>8, <1>10, <1>13, <1>14, <1>15, <1>18, PlanFrame

LEMMA SaveSheetPlans ==
    ASSUME PlanConstants, PlanInv, NEW w \in Workers, Plans!SaveSheet(w)
    PROVE  PlanInv'
<1>1. PICK r \in Plans!Request :
         /\ r = plan_req[w] /\ PlanPlaced(r) /\ PlanHeld(r) /\ r.total \in Nat
         /\ r.pc # "idle" => \A v \in Workers \ {w} : plan_req[v].d # r.d
  BY PlanRequest
<1>2. /\ r.pc = "calculate" /\ r.d = "sheet" /\ r.todo = {} /\ r.total = Done(r.todo)
      /\ sheet.kind # "scenario" => \A c \in SheetCells : sheet.derived[c] = 2 * sheet.amount[c]
  BY <1>1 DEF Plans!SaveSheet, Plans!At, PlanPlaced, SheetLabels, PlanHeld, SheetHeld
<1>3. PICK q \in Plans!Request : PlanTakes(w, q) /\ PlanPlaced(q) /\ PlanHeld(q)'
  BY PlanEnds DEF Plans!SaveSheet
<1>4. /\ sheet' = IF sheet.kind = "driver" THEN sheet ELSE [sheet EXCEPT !.total = r.total]
      /\ plan_lagging' = plan_lagging \ {"sheet"}
      /\ UNCHANGED <<budget, version, ledger, analysis, plan_offered, plan_aborts>>
  BY <1>1 DEF Plans!SaveSheet
<1>5. PICK o \in Plans!Sheet, n \in Plans!Sheet :
         /\ o = sheet /\ n = sheet' /\ n.kind = o.kind /\ n.amount = o.amount
         /\ n.derived = o.derived
         /\ n.kind # "driver" => n.total = r.total
  <2>1. PICK o \in Plans!Sheet : o = sheet
    BY PlanTypes DEF PlanInv
  <2>2. [o EXCEPT !.total = r.total] \in Plans!Sheet
        /\ [o EXCEPT !.total = r.total].kind = o.kind
        /\ [o EXCEPT !.total = r.total].amount = o.amount
        /\ [o EXCEPT !.total = r.total].derived = o.derived
        /\ [o EXCEPT !.total = r.total].total = r.total
    BY <1>1 DEF Plans!Sheet
  <2> QED BY <2>1, <2>2, <1>4
<1>6. PlanTables
  BY <1>4, <1>5, PlanTypes DEF PlanTables, PlanInv
<1>7. Done(r.todo) = SumOf(o.derived)
  <2>1. [c \in SheetCells |-> IF c \in r.todo THEN 0 ELSE o.derived[c]] = o.derived
    BY <1>2 DEF Plans!Sheet
  <2> QED BY <2>1, <1>5, Zenon DEF Done
<1>8. OnlyDocument("sheet")
  <2>1. NothingFromNothing'
    BY <1>5 DEF NothingFromNothing, PlanInv
  <2>1a. n.kind # "scenario" => \A c \in SheetCells : n.derived[c] = 2 * n.amount[c]
    BY <1>2, <1>5
  <2>1b. n.kind # "driver" => n.total = SumOf(n.derived)
    BY <1>2, <1>5, <1>7
  <2>1c. SheetAgrees'
    BY <1>5, <2>1a, <2>1b DEF SheetAgrees
  <2>2. BudgetStays /\ AnalysisStays
    BY <1>4 DEF BudgetStays, AnalysisStays, Lags
  <2>3. \A v \in BudgetVersions : VersionStays(v)
    BY <1>4 DEF VersionStays, Lags, PlanConstants
  <2> QED BY <2>1, <2>1c, <2>2, <2>3 DEF OnlyDocument
<1>9. \A v \in Workers \ {w} : plan_req[v].d # "sheet"
  BY <1>1, <1>2
<1> QED BY <1>3, <1>6, <1>8, <1>9, PlanFrame

-----------------------------------------------------------------------------
(* The whole of it. *)

LEMMA PlanStutter ==
    ASSUME PlanInv, UNCHANGED <<Plans!rows, plan_req, plan_offered, plan_aborts>>
    PROVE  PlanInv'
<1>1. UNCHANGED <<budget, version, ledger, analysis, sheet, plan_lagging, plan_req, plan_offered, plan_aborts>>
  BY DEF Plans!rows
<1>2. OnlyDocument("nowhere")
  BY <1>1, NothingMoves
<1>3. PlanTypeInv'
  <2>1. Plans!TypeOK'
    BY <1>1 DEF PlanInv, PlanTypeInv, Plans!TypeOK
  <2>2. (\A w \in Workers : PlanPlaced(plan_req[w]))' /\ PlansApart'
    BY <1>1 DEF PlanInv, PlanTypeInv, PlansApart
  <2> QED BY <2>1, <2>2 DEF PlanTypeInv
<1>4. ASSUME NEW w \in Workers PROVE PlanHeld(plan_req[w])'
  <2>1. PICK r \in Plans!Request : r = plan_req[w] /\ PlanPlaced(r) /\ PlanHeld(r)
    BY PlanRequest
  <2>2. PlanHeld(r)'
    BY <1>2, <2>1, PlanSomewhere, WithinHolds
  <2>3. plan_req[w]' = r
    BY <1>1, <2>1
  <2> QED BY <2>2, <2>3
<1> QED BY <1>2, <1>3, <1>4, WithinAgrees DEF PlanInv

LEMMA PlanInit ==
    ASSUME PlanConstants, Plans!Init
    PROVE  PlanInv
<1>1. PICK lines \in [BudgetLines -> Plans!Amounts] :
         lines = Plans!NoLines /\ \A l \in BudgetLines : lines[l] = 0
  BY PlanIdle
<1>2. PICK q \in Plans!Request : q = Plans!Idle /\ q.pc = "idle" /\ q.d = "none"
  BY PlanIdle
<1>3. SumOf(lines) = 0
  <2>1. lines \in [BudgetLines -> Int]
    BY <1>1
  <2> QED BY <1>1, <2>1, SumZero DEF PlanConstants
<1>4. PICK b \in Plans!Budget :
         b = [status |-> "none", amount |-> lines, total |-> 0] /\ b.total = 0 /\ b.amount = lines
  <2>1. [status |-> "none", amount |-> lines, total |-> 0] \in Plans!Budget
    BY DEF Plans!Budget, Plans!None
  <2> QED BY <2>1
<1>5. PICK v \in Plans!Version :
         v = [made |-> FALSE, snapshot |-> lines, total |-> 0] /\ v.total = 0 /\ v.snapshot = lines
  <2>1. [made |-> FALSE, snapshot |-> lines, total |-> 0] \in Plans!Version
    BY DEF Plans!Version
  <2> QED BY <2>1
<1>6. PICK e \in Seq([budget : Plans!Amounts, actual : Plans!Amounts]) : e = <<>>
  <2>1. <<>> \in Seq([budget : Plans!Amounts, actual : Plans!Amounts])
    OBVIOUS
  <2> QED BY <2>1
<1>7. PICK a \in Plans!Analysis :
         /\ a = [status |-> "none", lines |-> e, budget |-> 0, actual |-> 0]
         /\ a.lines = e /\ a.budget = 0 /\ a.actual = 0
  <2>1. [status |-> "none", lines |-> e, budget |-> 0, actual |-> 0] \in Plans!Analysis
    BY DEF Plans!Analysis, Plans!None
  <2> QED BY <2>1
<1>8. PICK zeros \in [SheetCells -> Plans!Amounts] :
         zeros = [c \in SheetCells |-> 0] /\ \A c \in SheetCells : zeros[c] = 0
  <2> DEFINE z == [c \in SheetCells |-> 0]
  <2>1. 0 \in Plans!Amounts
    <3>1. 0 \in 0..MaxFigure
      BY DEF PlanConstants
    <3> QED BY <3>1 DEF Plans!Amounts
  <2>2. z \in [SheetCells -> Plans!Amounts] /\ \A c \in SheetCells : z[c] = 0
    BY <2>1
  <2> HIDE DEF z
  <2>3. z = [c \in SheetCells |-> 0]
    BY DEF z
  <2> QED BY <2>2, <2>3
<1>9. zeros \in [SheetCells -> Nat] /\ zeros \in [SheetCells -> Int]
  BY <1>8
<1>10. SumOf(zeros) = 0
  BY <1>8, <1>9, SumZero DEF PlanConstants
<1>11. PICK kind \in {"driver", "scenario", "workforce"} :
          sheet = [kind |-> kind, amount |-> zeros, derived |-> zeros, total |-> 0]
  BY <1>8, Zenon DEF Plans!Init
<1>12. PICK s \in Plans!Sheet : s = sheet /\ s.amount = zeros /\ s.derived = zeros /\ s.total = 0
  <2>1. [kind |-> kind, amount |-> zeros, derived |-> zeros, total |-> 0] \in Plans!Sheet
    BY <1>9 DEF Plans!Sheet
  <2> QED BY <1>11, <2>1
<1>13. /\ budget = b /\ version = [u \in BudgetVersions |-> v] /\ ledger = 0
       /\ analysis = a /\ plan_lagging = {} /\ plan_req = [w \in Workers |-> q] /\ plan_aborts = 0
  <2>1. budget = b
    BY <1>1, <1>4, Zenon DEF Plans!Init, Plans!None
  <2>2. version = [u \in BudgetVersions |-> v]
    <3>1. Plans!NoVersion = v
      BY <1>1, <1>5, Zenon DEF Plans!NoVersion
    <3> QED BY <3>1, Zenon DEF Plans!Init
  <2>3. analysis = a
    BY <1>6, <1>7, Zenon DEF Plans!Init, Plans!None
  <2> QED BY <2>1, <2>2, <2>3, <1>2 DEF Plans!Init
<1>14. PlanTypeInv
  <2>1. Plans!TypeOK
    <3>1. ledger \in Plans!Amounts
      <4>1. 0 \in 0..MaxFigure
        BY DEF PlanConstants
      <4> QED BY <4>1, <1>13 DEF Plans!Amounts
    <3>2. version \in [BudgetVersions -> Plans!Version] /\ plan_req \in [Workers -> Plans!Request]
      BY <1>13
    <3>3. budget \in Plans!Budget /\ analysis \in Plans!Analysis /\ sheet \in Plans!Sheet
      BY <1>12, <1>13
    <3>4. plan_lagging \subseteq Plans!Documents
      BY <1>13
    <3>5. plan_aborts \in Nat
      BY <1>13
    <3> QED BY <3>1, <3>2, <3>3, <3>4, <3>5 DEF Plans!TypeOK, Plans!Init
  <2>2. \A w \in Workers : plan_req[w] = q
    BY <1>13
  <2>3. PlanPlaced(q)
    BY <1>2 DEF PlanPlaced, BudgetLabels, VersionLabels, AnalysisLabels, SheetLabels
  <2> QED BY <2>1, <2>2, <2>3, <1>2 DEF PlanTypeInv, PlansApart
<1>15. \A w \in Workers : PlanHeld(plan_req[w])
  <2>1. \A w \in Workers : plan_req[w] = q
    BY <1>13
  <2>2. PlanHeld(q)
    BY <1>2 DEF PlanHeld, BudgetHeld, VersionLabels, AnalysisHeld, SheetHeld
  <2> QED BY <2>1, <2>2
<1>16. BudgetAgrees /\ \A u \in BudgetVersions : VersionAgrees(u)
  BY <1>3, <1>4, <1>5, <1>13 DEF BudgetAgrees, VersionAgrees
<1>17. VarianceAgrees
  <2> DEFINE f == [k \in DOMAIN e |-> e[k].budget]
             g == [k \in DOMAIN e |-> e[k].actual]
  <2>1. DOMAIN e = {}
    BY <1>6
  <2>2. f \in [{} -> Int] /\ g \in [{} -> Int] /\ \A x \in {} : f[x] = 0 /\ g[x] = 0
    BY <2>1
  <2>3. BudgetColumn = SumOf(f) /\ ActualColumn = SumOf(g)
    BY <1>7, <1>13, Zenon DEF BudgetColumn, ActualColumn
  <2> HIDE DEF f, g
  <2>4. IsFiniteSet({})
    BY FS_EmptySet
  <2>5. BudgetColumn = 0 /\ ActualColumn = 0
    BY <2>2, <2>3, <2>4, SumZero
  <2> QED BY <2>5, <1>7, <1>13 DEF VarianceAgrees
<1>18. SheetAgrees /\ NothingFromNothing
  BY <1>8, <1>10, <1>12 DEF SheetAgrees, NothingFromNothing
<1> QED BY <1>14, <1>15, <1>16, <1>17, <1>18 DEF PlanInv

LEMMA PlanStep ==
    ASSUME PlanConstants, PlanInv, Plans!Next
    PROVE  PlanInv'
<1>1. CASE Plans!CreateAnalysis \/ Plans!PostEntry
  BY <1>1, NewAnalysisPlans
<1>2. CASE \E w \in Workers :
              \/ Plans!EditBudget(w) \/ Plans!Decide(w) \/ Plans!CreateVersion(w)
              \/ Plans!GenerateVariance(w) \/ Plans!EditSheet(w) \/ Plans!Calculate(w)
  BY <1>2, EditBudgetPlans, DecidePlans, GenerateVariancePlans, CalculatePlans
<1>3. CASE \E w \in Workers : Plans!Continue(w)
  <2>1. PICK w \in Workers : Plans!Continue(w)
    BY <1>3
  <2>2. CASE \/ Plans!SaveBudgetRow(w) \/ Plans!SaveLine(w) \/ Plans!SumLines(w)
             \/ Plans!SaveTotal(w) \/ Plans!SaveDecision(w)
    BY <2>2, SaveBudgetRowPlans, SaveLinePlans, SumLinesPlans, SaveTotalPlans, SaveDecisionPlans
  <2>3. CASE Plans!InsertVersion(w) \/ Plans!ReadLines(w) \/ Plans!SaveVersion(w)
    BY <2>3, InsertVersionPlans, ReadLinesPlans, SaveVersionPlans
  <2>4. CASE \/ Plans!ClearVarianceLines(w) \/ Plans!FindLines(w) \/ Plans!CompareLine(w)
             \/ Plans!SaveAnalysis(w)
    BY <2>4, ClearVarianceLinesPlans, FindLinesPlans, CompareLinePlans, SaveAnalysisPlans
  <2>5. CASE \/ Plans!SaveSheetRow(w) \/ Plans!SaveCell(w) \/ Plans!EndCells(w)
             \/ Plans!CalculateCell(w) \/ Plans!SaveSheet(w)
    BY <2>5, SaveSheetRowPlans, SaveCellPlans, EndCellsPlans, CalculateCellPlans, SaveSheetPlans
  <2> QED BY <2>1, <2>2, <2>3, <2>4, <2>5 DEF Plans!Continue
<1>4. CASE \E w \in Workers : Plans!Crash(w)
  BY <1>4, CrashPlans
<1> QED BY <1>1, <1>2, <1>3, <1>4 DEF Plans!Next

LEMMA PlansBehave ==
    ASSUME PlanConstants, PlanInv, [Step]_allVars
    PROVE  PlanInv'
<1>1. CASE StepPlans
  BY <1>1, PlanStep DEF StepPlans
<1>2. CASE ~StepPlans
  <2>1. UNCHANGED planVars
    BY <1>2 DEF Step, StepBank, StepEntities, StepStock, StepAssets, StepTaxes, StepRecurring,
                StepPayroll, StepProjects, StepRecords, StepPeople, allVars
  <2>2. UNCHANGED <<Plans!rows, plan_req, plan_offered, plan_aborts>>
    BY <2>1 DEF planVars, Plans!rows
  <2> QED BY <2>2, PlanStutter
<1> QED BY <1>1, <1>2

\* Planning: budgets, versions, analyses and sheets add up once they are calculated to the
\* end, with any lines, versions and rows.
THEOREM FiguresAreCalculated ==
    ASSUME PlanConstants
    PROVE  Operations => []FiguresAddUp
<1>1. PlanInv /\ [Step]_allVars => PlanInv'
  BY PlansBehave
<1>2. Start => PlanInv
  BY PlanInit DEF Start
<1>3. PlanInv => FiguresAddUp
  <2> SUFFICES ASSUME PlanInv PROVE Plans!FiguresAddUp
    BY DEF FiguresAddUp
  <2>1. Plans!BudgetAddsUp /\ Plans!VersionsAddUp
    BY SamePlanSum DEF PlanInv, BudgetAgrees, VersionAgrees, Lags, Plans!BudgetAddsUp,
                       Plans!VersionsAddUp
  <2>2. Plans!VarianceAddsUp
    BY SamePlanSum, Zenon DEF PlanInv, VarianceAgrees, BudgetColumn, ActualColumn, Lags,
                              Plans!VarianceAddsUp
  <2>3. Plans!SheetAddsUp
    BY SamePlanSum DEF PlanInv, SheetAgrees, Lags, Plans!SheetAddsUp
  <2> QED BY <2>1, <2>2, <2>3 DEF Plans!FiguresAddUp
<1> QED BY <1>1, <1>2, <1>3, PTL DEF Operations

-----------------------------------------------------------------------------
(* Types: what is exercised has its type.  Most of it is part of the invariants.   *)

LEMMA BankTypes ==
    ASSUME MaxItems \in Nat, RuleBooks \subseteq Seq({"exact_amount", "reference_match"})
    PROVE  Operations => []Bank!TypeOK
<1>1. BankP!Bounds
  BY DEF BankP!Bounds
<1>2. BankP!TypeOK => Bank!TypeOK
  BY DEF Bank!TypeOK, BankP!TypeOK, Bank!Imported, BankP!Imported, Bank!Items, BankP!Items,
     Bank!Item, BankP!Item, Bank!Request, BankP!Request
<1> QED BY <1>1, <1>2, BankBehaves, BankP!TypeCorrect, PTL

LEMMA RecurringTypes ==
    ASSUME Limit \in [Templates -> Nat], EndDate \in [Templates -> Nat],
           "hand" \notin Templates, MaxDate \in Nat \ {0}, MaxInvoices \in Nat
    PROVE  Operations => []Recurring!TypeOK
<1>1. RecurringP!Bounds
  BY DEF RecurringP!Bounds, RecurringP!Hand
<1>2. RecurringP!TypeOK => Recurring!TypeOK
  BY DEF Recurring!TypeOK, RecurringP!TypeOK, Recurring!Dates, RecurringP!Dates,
     Recurring!Template, RecurringP!Template, Recurring!Invoice, RecurringP!Invoice,
     Recurring!Hand, RecurringP!Hand, Recurring!Request, RecurringP!Request
<1> QED BY <1>1, <1>2, RecurringBehaves, RecurringP!TypeCorrect, PTL

LEMMA AssetTypes ==
    ASSUME RegisterConstants, CountConstants
    PROVE  Operations => [](/\ focus = "register" => Register!TypeOK
                            /\ focus = "places" => Places!TypeOK)
<1> DEFINE Inv == FixedAssetInv /\ (focus = "places" => PlaceTypeInv)
<1>1. Start => Inv
  <2>1. Start /\ focus = "places" => Places!Init
    BY DEF Start
  <2> QED BY <2>1, FixedAssetsStart, PlaceInit
<1>2. Inv /\ [Step]_allVars => Inv'
  <2>1. Inv /\ [Step]_allVars => FixedAssetInv'
    BY FixedAssetsBehave
  <2>2. Inv /\ [Step]_allVars /\ focus = "places" => PlaceTypeInv'
    BY AssetSteps, PlaceStep DEF FixedAssetInv
  <2> QED BY <2>1, <2>2, AssetSteps
<1>3. RegisterInv => Register!TypeOK
  BY DEF RegisterInv, RegisterTypeInv
<1>4. CountInv /\ PlaceTypeInv => Places!TypeOK
  <2>1. PlaceTypeInv => \A a \in CountedAssets : \A k \in DOMAIN schedule[a] : schedule[a][k] \in Places!Row
    BY DEF PlaceTypeInv
  <2> QED BY <2>1 DEF CountInv, CountTypeInv, PlaceTypeInv, PlaceOfferings, Places!TypeOK
<1>5. Inv => /\ focus = "register" => Register!TypeOK
             /\ focus = "places" => Places!TypeOK
  BY <1>3, <1>4 DEF FixedAssetInv
<1> HIDE DEF Inv
<1> QED BY <1>1, <1>2, <1>5, PTL DEF Operations

LEMMA PlansTypes ==
    ASSUME PlanConstants
    PROVE  Operations => []Plans!TypeOK
<1>1. PlanInv /\ [Step]_allVars => PlanInv'
  BY PlansBehave
<1>2. Start => PlanInv
  BY PlanInit DEF Start
<1>3. PlanInv => Plans!TypeOK
  BY DEF PlanInv, PlanTypeInv
<1> QED BY <1>1, <1>2, <1>3, PTL DEF Operations

LEMMA RecordsTypes ==
    ASSUME IsFiniteSet(ReviewItems)
    PROVE  Operations => []Records!TypeOK
<1>1. RecordInv => Records!TypeOK
  BY DEF RecordInv
<1> QED BY <1>1, RecordsBehave, RecordInvHolds, PTL

LEMMA AccessTypes ==
    ASSUME "none" \notin Persons
    PROVE  Operations => []People!TypeOK
<1>1. PeopleInv => People!TypeOK
  BY DEF PeopleInv
<1> QED BY <1>1, PeopleBehave, PeopleInvHolds, PTL
-----------------------------------------------------------------------------
(* The types of all components together.                                           *)

Exercised == {"bank", "entities", "stock", "register", "places", "taxes", "recurring",
              "plans", "payroll", "revenue", "invoicing", "records", "people"}

LEMMA OneIsExercised == Operations => [](focus \in Exercised)
<1>1. Start => focus \in Exercised
  BY DEF Start, Exercised
<1>2. focus \in Exercised /\ [Step]_allVars => (focus \in Exercised)'
  BY AssetSteps
<1> QED BY <1>1, <1>2, PTL DEF Operations

\* A type invariant of the modules side by side is that of the one that is exercised.
LEMMA TypesAreOfOne ==
    ASSUME focus \in Exercised,
           Bank!TypeOK, Entities!TypeOK, Stock!TypeOK, TypeOK, Recurring!TypeOK, Plans!TypeOK,
           Pay!TypeOK, Records!TypeOK, People!TypeOK,
           focus = "register" => Register!TypeOK, focus = "places" => Places!TypeOK,
           focus = "revenue" => Revenue!TypeOK, focus = "invoicing" => Invoicing!TypeOK
    PROVE  TypesOK
BY DEF TypesOK, Exercised

\* No row, whatever requests overlap and die over it, and no local value of a request, gets
\* a value that its column or its variable does not have: neither in bank reconciliation
\* and recurring invoices nor in any other of the components around the ledgers.
THEOREM TypesAreCorrect ==
    ASSUME MaxItems \in Nat, RuleBooks \subseteq Seq({"exact_amount", "reference_match"}),
           Limit \in [Templates -> Nat], EndDate \in [Templates -> Nat],
           "hand" \notin Templates, MaxDate \in Nat \ {0}, MaxInvoices \in Nat,
           StockConstants, EntityConstants, RegisterConstants, CountConstants, PlanConstants,
           PayConstants, ProjectConstants, IsFiniteSet(ReviewItems), "none" \notin Persons
    PROVE  Operations => []TypesOK
<1>1. Operations => []Stock!TypeOK
  <2>1. StockInv => Stock!TypeOK
    BY DEF StockInv, StockTypeInv
  <2> QED BY <2>1, StockBehaves, StockInvariant, PTL
<1>2. Operations => []Entities!TypeOK
  <2>1. EntityInv => Entities!TypeOK
    BY DEF EntityInv, EntityTypeInv
  <2> QED BY <2>1, EntitiesBehave, EntityInvariant, PTL
<1>3. Operations => []Pay!TypeOK
  <2>1. PayInv /\ [Pay!Next]_(Pay!vars) => PayInv'
    BY PayStep, PayStutter
  <2>2. Pay!Init => PayInv
    BY PayInit
  <2>3. PayInv => Pay!TypeOK
    BY DEF PayInv, PayTypeInv
  <2> QED BY <2>1, <2>2, <2>3, PayBehaves, PTL DEF Pay!Spec
<1>4. Operations => [](/\ focus = "revenue" => Revenue!TypeOK
                       /\ focus = "invoicing" => Invoicing!TypeOK)
  <2>1. ProjectInv /\ [Step]_allVars => ProjectInv'
    BY ProjectsBehave
  <2>2. Start => ProjectInv
    BY ProjectsStart
  <2>3. ProjectInv => /\ focus = "revenue" => Revenue!TypeOK
                      /\ focus = "invoicing" => Invoicing!TypeOK
    BY DEF ProjectInv, RevenueInv, RevenueTypeInv, InvoiceInv, InvoiceTypeInv
  <2> QED BY <2>1, <2>2, <2>3, PTL DEF Operations
<1>5. Operations => []TypeOK
  BY TaxesBehave, TypeCorrect, PTL
<1>6. Operations => []Bank!TypeOK
  BY BankTypes
<1>7. Operations => []Recurring!TypeOK
  BY RecurringTypes
<1>8. Operations => []Plans!TypeOK
  BY PlansTypes
<1>9. Operations => []Records!TypeOK /\ []People!TypeOK
  BY RecordsTypes, AccessTypes
<1>10. Operations => [](/\ focus = "register" => Register!TypeOK
                        /\ focus = "places" => Places!TypeOK)
  BY AssetTypes
<1>11. /\ focus \in Exercised /\ Bank!TypeOK /\ Entities!TypeOK /\ Stock!TypeOK /\ TypeOK
       /\ Recurring!TypeOK /\ Plans!TypeOK /\ Pay!TypeOK /\ Records!TypeOK /\ People!TypeOK
       /\ (focus = "register" => Register!TypeOK) /\ (focus = "places" => Places!TypeOK)
       /\ (focus = "revenue" => Revenue!TypeOK) /\ (focus = "invoicing" => Invoicing!TypeOK)
       => TypesOK
  BY TypesAreOfOne
<1> QED BY <1>1, <1>2, <1>3, <1>4, <1>5, <1>6, <1>7, <1>8, <1>9, <1>10, <1>11,
           OneIsExercised, PTL
================================================================================
