--------------------------- MODULE JournalWorkflow ---------------------------
(***************************************************************************)
(* Manual journal entries of apps/general_ledger: create, edit, submit,    *)
(* approve, reject, post, the allocation run that also creates drafts, and *)
(* the closing and reopening of fiscal periods.                            *)
(*                                                                         *)
(* No view runs in a transaction and none locks a row (the project sets    *)
(* neither ATOMIC_REQUESTS nor uses select_for_update), so a request is a  *)
(* sequence of autocommitted statements: it loads a row into a local       *)
(* instance, decides on that copy, and writes all of the row's columns     *)
(* back.  Every worker process serves one request at a time; each action   *)
(* below is one statement of a request, and statements of different        *)
(* requests interleave.  A worker may die between two statements.          *)
(***************************************************************************)
EXTENDS Naturals, FiniteSets

CONSTANTS
    Workers,       \* the server processes
    MaxJournals,   \* bound: entry numbers are 1..MaxJournals
    MaxPeriods,    \* the tenant's fiscal periods are 1..MaxPeriods
    Amounts,       \* amounts a user may enter on a line
    Steps,         \* the default steps of a close checklist, by step_order
    MaxApprovals,  \* bound: approval rows one entry may collect
    MaxCrashes,    \* bound: how many requests may die half-way
    Exclusive      \* kinds of request the users keep apart from the others

Ops == {"create", "allocate", "edit", "submit", "approve", "reject", "post",
        "close", "checklist"}

ASSUME ConstantsAssumption ==
    /\ MaxJournals \in Nat \ {0}
    /\ MaxPeriods \in Nat \ {0}
    /\ Amounts \subseteq Nat \ {0}
    /\ Steps \subseteq Nat \ {0}
    /\ MaxApprovals \in Nat \ {0}
    /\ MaxCrashes \in Nat
    /\ Exclusive \subseteq Ops

VARIABLES
    je,         \* table JournalEntry: the columns status and fiscal_period
    lines,      \* table JournalEntryLine: each entry's total debits and credits
    approvals,  \* table JournalApproval: each entry's rows in order of creation
    closed,     \* table FiscalPeriod: the column is_closed
    checklist,  \* table PeriodCloseChecklist
    audit,      \* table AuditTrail: the status it last recorded for each entry
    req,        \* what each worker holds of the request it serves
    crashes     \* how many requests have died so far

vars == <<je, lines, approvals, closed, checklist, audit, req, crashes>>
tables == <<je, lines, approvals, closed, checklist, audit>>

-----------------------------------------------------------------------------
(* Rows and local instances. *)

Journals == 1..MaxJournals
Periods == 1..MaxPeriods
Rows == 1..MaxApprovals
Sides == {"dr", "cr"}

\* "none" stands for a row that does not exist.
Statuses == {"none", "draft", "pending", "approved", "posted", "rejected"}
JournalEntry == [st : Statuses, per : Periods \cup {0}]
EntryLines == [Sides -> Nat]
ApprovalStatus == {"none", "pending", "approved", "rejected"}
StepStatus == {"none", "todo", "done"}

NoEntry == [st |-> "none", per |-> 0]
NoLines == [s \in Sides |-> 0]

Labels == {"idle", "number", "insert", "lines", "total", "validate", "pre_save",
           "update", "audit", "sum_debits", "sum_credits", "approval_row",
           "find_row", "save_row", "count_unposted", "close", "seed", "toggle"}

\* A request: its kind, the statement it executes next, and its local values.
Request ==
    [op : Ops \cup {"none"}, pc : Labels,
     j : Journals \cup {0},   \* the entry it works on
     copy : JournalEntry,     \* its local instance of that row
     old : Statuses,          \* the status capture_old_values has read
     line : EntryLines,       \* the line amounts of the submitted formset
     todo : SUBSET Sides,     \* the sides of the formset still to be saved
     sum : Nat,               \* a total it has read
     apr : Rows \cup {0},     \* the approval row it has loaded, 0 for None
     step : Steps \cup {0},   \* the checklist step it has loaded
     seen : StepStatus]       \* and whether that step was completed

Idle == [op |-> "none", pc |-> "idle", j |-> 0, copy |-> NoEntry,
         old |-> "none", line |-> NoLines, todo |-> {}, sum |-> 0, apr |-> 0,
         step |-> 0, seen |-> "none"]

TypeOK ==
    /\ je \in [Journals -> JournalEntry]
    /\ lines \in [Journals -> EntryLines]
    /\ approvals \in [Journals -> [Rows -> ApprovalStatus]]
    /\ closed \in [Periods -> BOOLEAN]
    /\ checklist \in [Periods -> [Steps -> StepStatus]]
    /\ audit \in [Journals -> Statuses]
    /\ req \in [Workers -> Request]
    /\ crashes \in 0..MaxCrashes

\* Periods come from the company setup or the seed data, open and without a
\* checklist; the ledger is empty.
Init ==
    /\ je = [j \in Journals |-> NoEntry]
    /\ lines = [j \in Journals |-> NoLines]
    /\ approvals = [j \in Journals |-> [k \in Rows |-> "none"]]
    /\ closed = [p \in Periods |-> FALSE]
    /\ checklist = [p \in Periods |-> [s \in Steps |-> "none"]]
    /\ audit = [j \in Journals |-> "none"]
    /\ req = [w \in Workers |-> Idle]
    /\ crashes = 0

-----------------------------------------------------------------------------
(* Scheduling. *)

Busy(w) == req[w].pc # "idle"

\* A worker takes a request of kind op about entry j (0: none yet).  The code has
\* no lock: Exclusive is an assumption about the users, who never work on an entry
\* in two places at once if one of the two requests is of an exclusive kind, and
\* close a period only while nothing else runs.  The empty set assumes nothing.
KeptApart(op, j, v) ==
    /\ op \in Exclusive \/ req[v].op \in Exclusive
    /\ (j # 0 /\ req[v].j = j) \/ "close" \in {op, req[v].op}

MayStart(w, op, j) ==
    /\ ~Busy(w)
    /\ \A v \in Workers : Busy(v) => ~KeptApart(op, j, v)

At(w, label) == req[w].pc = label

Goto(w, label) == req' = [req EXCEPT ![w].pc = label]

\* The response is sent (or a 500 is): the local values are gone.
Finish(w) == req' = [req EXCEPT ![w] = Idle]

-----------------------------------------------------------------------------
(* Creating an entry: journal_create and allocation_run. *)

\* generate_entry_number: one more than the highest number in the table.
IsNextNumber(n) ==
    /\ \A m \in Journals : m >= n => je[m].st = "none"
    /\ n > 1 => je[n - 1].st # "none"

\* Keeps the numbers within the bound: every request that will ask for one
\* finds one free.
Room ==
    Cardinality({w \in Workers : req[w].op \in {"create", "allocate"}})
        < Cardinality({n \in Journals : je[n].st = "none"})

\* Mutant: the form's queryset without is_closed=False and no clean().
ValidFormAnyPeriod(p) == TRUE

\* form.is_valid(): the form offers the open periods only, and clean() refuses a
\* closed one.
ValidForm(p) == ~closed[p]

\* What the lines of a valid formset add up to: at least two of them, each a debit
\* or a credit, so one side may stay empty.
FormLines == {line \in [Sides -> Amounts \cup {0}] : \E s \in Sides : line[s] > 0}

CreateStart(w) ==
    /\ MayStart(w, "create", 0)
    /\ Room
    /\ \E p \in Periods, line \in FormLines :
          /\ ValidForm(p)
          /\ req' = [req EXCEPT ![w] = [Idle EXCEPT !.op = "create", !.pc = "number",
                                  !.copy = [st |-> "draft", per |-> p],
                                  !.line = line, !.todo = Sides]]
    /\ UNCHANGED <<tables, crashes>>

\* The rule's percentages of the source balance give the debits; allocation_run
\* takes the open period with the lowest number whatever today's date.
AllocateStart(w) ==
    /\ MayStart(w, "allocate", 0)
    /\ Room
    /\ \E p \in Periods, a \in Amounts \cup {0} :
          /\ ~closed[p]
          /\ \A q \in Periods : q < p => closed[q]
          /\ req' = [req EXCEPT ![w] = [Idle EXCEPT !.op = "allocate", !.pc = "number",
                                  !.copy = [st |-> "draft", per |-> p],
                                  !.line = [NoLines EXCEPT !["dr"] = a],
                                  !.todo = {"dr"}]]
    /\ UNCHANGED <<tables, crashes>>

GenerateNumber(w) ==
    /\ At(w, "number")
    /\ \E n \in Journals :
          /\ IsNextNumber(n)
          /\ req' = [req EXCEPT ![w].pc = "insert", ![w].j = n]
    /\ UNCHANGED <<tables, crashes>>

\* unique_together (tenant, entry_number): the second of two requests that have
\* read the same number fails with IntegrityError.
InsertHeader(w) ==
    /\ At(w, "insert")
    /\ \/ /\ je[req[w].j].st = "none"
          /\ je' = [je EXCEPT ![req[w].j] = req[w].copy]
          /\ Goto(w, "audit")
       \/ /\ je[req[w].j].st # "none"
          /\ Finish(w)
          /\ UNCHANGED je
    /\ UNCHANGED <<lines, approvals, closed, checklist, audit, crashes>>

\* One line of the formset.  A new entry's lines are inserted; the lines of an
\* edited entry are replaced.
SavedSide(w, s) ==
    IF req[w].op = "edit" THEN req[w].line[s]
                          ELSE lines[req[w].j][s] + req[w].line[s]

SaveLine(w) ==
    /\ At(w, "lines")
    /\ \E s \in req[w].todo :
          /\ lines' = [lines EXCEPT ![req[w].j][s] = SavedSide(w, s)]
          /\ \/ /\ req[w].todo # {s}
                /\ req' = [req EXCEPT ![w].todo = @ \ {s}]
             \/ /\ req[w].todo = {s}
                /\ req[w].op = "allocate" /\ s = "dr"
                /\ Goto(w, "total")
             \/ /\ req[w].todo = {s}
                /\ ~(req[w].op = "allocate" /\ s = "dr")
                /\ Finish(w)
    /\ UNCHANGED <<je, approvals, closed, checklist, audit, crashes>>

\* allocation_run credits the source account with the debits it finds.
AllocationTotal(w) ==
    /\ At(w, "total")
    /\ LET total == lines[req[w].j]["dr"] IN
          IF total > 0
          THEN req' = [req EXCEPT ![w].pc = "lines", ![w].todo = {"cr"},
                                  ![w].line = [@ EXCEPT !["cr"] = total]]
          ELSE Finish(w)
    /\ UNCHANGED <<tables, crashes>>

-----------------------------------------------------------------------------
(* JournalEntry.save() with the audit signals: capture_old_values reads the    *)
(* row, the UPDATE writes every column of the local instance, log_audit_trail  *)
(* inserts a row for each field that differs from what was read.               *)

\* Mutant: journal_submit forgets JournalApproval.objects.create.
AfterSaveNoApproval(op) ==
    IF op \in {"create", "allocate", "edit"} THEN "lines" ELSE "idle"

\* Mutant: the old values are taken from the instance about to be saved.
CaptureFromInstance(w) ==
    /\ At(w, "pre_save")
    /\ req' = [req EXCEPT ![w].pc = "update", ![w].old = req[w].copy.st]
    /\ UNCHANGED <<tables, crashes>>

\* What a request does after its save.
AfterSave(op) ==
    CASE op \in {"create", "allocate", "edit"} -> "lines"
      [] op = "submit" -> "approval_row"
      [] OTHER -> "idle"

CaptureOldValues(w) ==
    /\ At(w, "pre_save")
    /\ req' = [req EXCEPT ![w].pc = "update", ![w].old = je[req[w].j].st]
    /\ UNCHANGED <<tables, crashes>>

UpdateRow(w) ==
    /\ At(w, "update")
    /\ je' = [je EXCEPT ![req[w].j] = req[w].copy]
    /\ Goto(w, "audit")
    /\ UNCHANGED <<lines, approvals, closed, checklist, audit, crashes>>

LogAuditTrail(w) ==
    /\ At(w, "audit")
    /\ audit' = IF req[w].old # req[w].copy.st
                 THEN [audit EXCEPT ![req[w].j] = req[w].copy.st]
                 ELSE audit
    /\ IF AfterSave(req[w].op) = "idle" THEN Finish(w)
                                        ELSE Goto(w, AfterSave(req[w].op))
    /\ UNCHANGED <<je, lines, approvals, closed, checklist, crashes>>

-----------------------------------------------------------------------------
(* journal_edit *)

\* Mutant: journal_edit without its status check.
EditAnyStatus(w, j) ==
    /\ MayStart(w, "edit", j)
    /\ je[j].st # "none"
    /\ req' = [req EXCEPT ![w] = [Idle EXCEPT !.op = "edit", !.pc = "validate",
                                              !.j = j, !.copy = je[j]]]
    /\ UNCHANGED <<tables, crashes>>

EditStart(w, j) ==
    /\ MayStart(w, "edit", j)
    /\ je[j].st = "draft"
    /\ req' = [req EXCEPT ![w] = [Idle EXCEPT !.op = "edit", !.pc = "validate",
                                              !.j = j, !.copy = je[j]]]
    /\ UNCHANGED <<tables, crashes>>

EditValidate(w) ==
    /\ At(w, "validate")
    /\ \/ \E p \in Periods, line \in FormLines :
            /\ ValidForm(p)
            /\ req' = [req EXCEPT ![w].pc = "pre_save", ![w].copy.per = p,
                                  ![w].line = line, ![w].todo = Sides]
       \/ Finish(w)    \* the form is shown again with its errors
    /\ UNCHANGED <<tables, crashes>>

-----------------------------------------------------------------------------
(* journal_submit *)

\* Bound: a request that may add an approval row finds a free one.
RowFree(j) ==
    Cardinality({w \in Workers : req[w].j = j})
        < Cardinality({k \in Rows : approvals[j][k] = "none"})

SubmitStart(w, j) ==
    /\ MayStart(w, "submit", j)
    /\ RowFree(j)
    /\ je[j].st = "draft"
    /\ req' = [req EXCEPT ![w] = [Idle EXCEPT !.op = "submit", !.pc = "sum_debits",
                                              !.j = j, !.copy = je[j]]]
    /\ UNCHANGED <<tables, crashes>>

\* is_balanced: two aggregate queries, one after the other.
SumDebits(w) ==
    /\ At(w, "sum_debits")
    /\ req' = [req EXCEPT ![w].pc = "sum_credits", ![w].sum = lines[req[w].j]["dr"]]
    /\ UNCHANGED <<tables, crashes>>

\* Mutant: journal_submit only warns of an unbalanced entry, as journal_edit does.
SumCreditsWarnOnly(w) ==
    /\ At(w, "sum_credits")
    /\ req' = [req EXCEPT ![w].pc = "pre_save", ![w].copy.st = "pending"]
    /\ UNCHANGED <<tables, crashes>>

SumCredits(w) ==
    /\ At(w, "sum_credits")
    /\ IF lines[req[w].j]["cr"] = req[w].sum
       THEN req' = [req EXCEPT ![w].pc = "pre_save", ![w].copy.st = "pending"]
       ELSE Finish(w)
    /\ UNCHANGED <<tables, crashes>>

\* A new row of table JournalApproval, after the ones that exist.
AddApproval(j, status) ==
    \E k \in Rows :
        /\ approvals[j][k] = "none"
        /\ \A i \in Rows : i < k => approvals[j][i] # "none"
        /\ approvals' = [approvals EXCEPT ![j][k] = status]

CreateApproval(w) ==
    /\ At(w, "approval_row")
    /\ AddApproval(req[w].j, "pending")
    /\ Finish(w)
    /\ UNCHANGED <<je, lines, closed, checklist, audit, crashes>>

-----------------------------------------------------------------------------
(* approval_approve and approval_reject *)

\* Mutant: the decision holds the name of the request.
DecisionIsRequest(op) == op

Decision(op) == IF op = "approve" THEN "approved" ELSE "rejected"

DecideStart(w, j, op) ==
    /\ MayStart(w, op, j)
    /\ RowFree(j)
    /\ je[j].st = "pending"
    /\ req' = [req EXCEPT ![w] = [Idle EXCEPT !.op = op, !.pc = "find_row",
                                              !.j = j, !.copy = je[j]]]
    /\ UNCHANGED <<tables, crashes>>

\* approvals.filter(status='pending').first(), in the model's ordering -created_at.
FindPendingRow(w) ==
    /\ At(w, "find_row")
    /\ LET pending == {k \in Rows : approvals[req[w].j][k] = "pending"} IN
          \/ /\ pending = {}
             /\ Goto(w, "save_row")
          \/ \E k \in pending :
                /\ \A i \in pending : i <= k
                /\ req' = [req EXCEPT ![w].pc = "save_row", ![w].apr = k]
    /\ UNCHANGED <<tables, crashes>>

\* Mutant: approval_reject pasted from approval_approve.
SaveDecisionPasted(w) ==
    /\ At(w, "save_row")
    /\ \/ /\ req[w].apr # 0
          /\ approvals' = [approvals EXCEPT ![req[w].j][req[w].apr] = "approved"]
       \/ /\ req[w].apr = 0
          /\ AddApproval(req[w].j, "approved")
    /\ req' = [req EXCEPT ![w].pc = "pre_save", ![w].copy.st = Decision(req[w].op)]
    /\ UNCHANGED <<je, lines, closed, checklist, audit, crashes>>

\* Mutant: without a pending row, the decision leaves no row at all.
SaveDecisionIfRow(w) ==
    /\ At(w, "save_row")
    /\ IF req[w].apr # 0
       THEN approvals' = [approvals EXCEPT
                            ![req[w].j][req[w].apr] = Decision(req[w].op)]
       ELSE UNCHANGED approvals
    /\ req' = [req EXCEPT ![w].pc = "pre_save", ![w].copy.st = Decision(req[w].op)]
    /\ UNCHANGED <<je, lines, closed, checklist, audit, crashes>>

SaveDecision(w) ==
    /\ At(w, "save_row")
    /\ LET decision == Decision(req[w].op) IN
          /\ \/ /\ req[w].apr # 0
                /\ approvals' = [approvals EXCEPT ![req[w].j][req[w].apr] = decision]
             \/ /\ req[w].apr = 0
                /\ AddApproval(req[w].j, decision)
          /\ req' = [req EXCEPT ![w].pc = "pre_save", ![w].copy.st = decision]
    /\ UNCHANGED <<je, lines, closed, checklist, audit, crashes>>

-----------------------------------------------------------------------------
(* journal_post: neither the balance nor the period is looked at again. *)

PostStart(w, j) ==
    /\ MayStart(w, "post", j)
    /\ je[j].st = "approved"
    /\ req' = [req EXCEPT ![w] = [Idle EXCEPT !.op = "post", !.pc = "pre_save", !.j = j,
                                              !.copy = [je[j] EXCEPT !.st = "posted"]]]
    /\ UNCHANGED <<tables, crashes>>

-----------------------------------------------------------------------------
(* Period close: the checklist, closing and reopening. *)

\* The requests of this section keep their period in copy.per.
PeriodRequest(op, label, p) ==
    [Idle EXCEPT !.op = op, !.pc = label, !.copy = [NoEntry EXCEPT !.per = p]]

ChecklistStart(w, p) ==
    /\ MayStart(w, "checklist", 0)
    /\ req' = [req EXCEPT ![w] = PeriodRequest("checklist", "seed", p)]
    /\ UNCHANGED <<tables, crashes>>

\* period_close_detail: get_or_create of each default step in turn; a POST then
\* loads the step it toggles.
SeedChecklist(w) ==
    /\ At(w, "seed")
    /\ LET p == req[w].copy.per
           missing == {s \in Steps : checklist[p][s] = "none"}
       IN  \/ \E s \in missing :
                /\ \A t \in missing : s <= t
                /\ checklist' = [checklist EXCEPT ![p][s] = "todo"]
                /\ UNCHANGED req
           \/ /\ missing = {}
              /\ UNCHANGED checklist
              /\ \/ Finish(w)
                 \/ \E s \in Steps :
                      req' = [req EXCEPT ![w].pc = "toggle", ![w].step = s,
                                         ![w].seen = checklist[p][s]]
    /\ UNCHANGED <<je, lines, approvals, closed, audit, crashes>>

ToggleStep(w) ==
    /\ At(w, "toggle")
    /\ checklist' = [checklist EXCEPT ![req[w].copy.per][req[w].step] =
                        IF req[w].seen = "done" THEN "todo" ELSE "done"]
    /\ Finish(w)
    /\ UNCHANGED <<je, lines, approvals, closed, audit, crashes>>

\* period_close_action: no step of the checklist is incomplete.  A period whose
\* checklist page nobody has opened has no steps.
CloseStart(w, p) ==
    /\ MayStart(w, "close", 0)
    /\ \A s \in Steps : checklist[p][s] # "todo"
    /\ req' = [req EXCEPT ![w] = PeriodRequest("close", "count_unposted", p)]
    /\ UNCHANGED <<tables, crashes>>

Settled == {"posted", "rejected"}

UnpostedIn(p) == {j \in Journals : je[j].per = p /\ je[j].st \notin Settled \cup {"none"}}

\* Mutant: an approved entry does not keep its period open.
CountWithoutApproved(w) ==
    /\ At(w, "count_unposted")
    /\ IF \A j \in UnpostedIn(req[w].copy.per) : je[j].st = "approved"
       THEN Goto(w, "close") ELSE Finish(w)
    /\ UNCHANGED <<tables, crashes>>

CountUnposted(w) ==
    /\ At(w, "count_unposted")
    /\ IF UnpostedIn(req[w].copy.per) = {} THEN Goto(w, "close") ELSE Finish(w)
    /\ UNCHANGED <<tables, crashes>>

ClosePeriod(w) ==
    /\ At(w, "close")
    /\ closed' = [closed EXCEPT ![req[w].copy.per] = TRUE]
    /\ Finish(w)
    /\ UNCHANGED <<je, lines, approvals, checklist, audit, crashes>>

\* period_reopen_action decides nothing on what it loads: one step.
ReopenPeriod(p) ==
    /\ closed[p]
    /\ closed' = [closed EXCEPT ![p] = FALSE]
    /\ UNCHANGED <<je, lines, approvals, checklist, audit, req, crashes>>

-----------------------------------------------------------------------------
(* The worker process dies, or the database connection is lost. *)
Crash(w) ==
    /\ Busy(w)
    /\ crashes < MaxCrashes
    /\ crashes' = crashes + 1
    /\ Finish(w)
    /\ UNCHANGED tables

Start(w) ==
    \/ CreateStart(w) \/ AllocateStart(w)
    \/ \E j \in Journals :
          \/ EditStart(w, j) \/ SubmitStart(w, j) \/ PostStart(w, j)
          \/ DecideStart(w, j, "approve") \/ DecideStart(w, j, "reject")
    \/ \E p \in Periods : ChecklistStart(w, p) \/ CloseStart(w, p)

Continue(w) ==
    \/ GenerateNumber(w) \/ InsertHeader(w) \/ SaveLine(w) \/ AllocationTotal(w)
    \/ CaptureOldValues(w) \/ UpdateRow(w) \/ LogAuditTrail(w)
    \/ EditValidate(w)
    \/ SumDebits(w) \/ SumCredits(w) \/ CreateApproval(w)
    \/ FindPendingRow(w) \/ SaveDecision(w)
    \/ SeedChecklist(w) \/ ToggleStep(w) \/ CountUnposted(w) \/ ClosePeriod(w)

Next ==
    \/ \E w \in Workers : Start(w) \/ Continue(w) \/ Crash(w)
    \/ \E p \in Periods : ReopenPeriod(p)

Spec == Init /\ [][Next]_vars

\* A request, once taken, is executed to its end; nobody has to send one.
FairSpec == Spec /\ \A w \in Workers : WF_vars(Continue(w))

-----------------------------------------------------------------------------
(* Safety. *)

\* An entry that has left draft balances: journal_submit checks is_balanced and
\* nothing checks it again, neither approval nor journal_post.
BalancedOnceSubmitted ==
    \A j \in Journals : je[j].st \notin {"none", "draft"} => lines[j]["dr"] = lines[j]["cr"]

\* A closed period holds no entry that could still be posted: what
\* period_close_action counts stays true until the period is reopened.
ClosedPeriodSettled ==
    \A p \in Periods : closed[p] => UnpostedIn(p) = {}

\* No entry is approved, rejected or posted without an approval row on which
\* somebody has decided, whatever overlaps and wherever a request dies.
DecisionRecorded ==
    \A j \in Journals :
        je[j].st \in {"approved", "rejected", "posted"} =>
            \E k \in Rows : approvals[j][k] \in {"approved", "rejected"}

\* The newest approval row says what became of the entry, also when a first
\* approval died between its row and the entry's.
LastDecisionStands ==
    \A j \in Journals, k \in Rows :
        /\ je[j].st \in {"approved", "rejected", "posted"}
        /\ approvals[j][k] # "none"
        /\ \A i \in Rows : i > k => approvals[j][i] = "none"
        => approvals[j][k] = IF je[j].st = "rejected" THEN "rejected" ELSE "approved"

\* The audit trail follows every change of an entry's status, up to the row the
\* signal is about to insert.
AuditFollows ==
    \A j \in Journals :
        crashes = 0 /\ (\A w \in Workers : ~(At(w, "audit") /\ req[w].j = j))
            => audit[j] = je[j].st

\* journal_edit answers "Only draft journal entries can be edited": a posted
\* entry keeps its status, period and lines.
PostedIsFinal ==
    [][\A j \in Journals : je[j].st = "posted" =>
          je'[j] = je[j] /\ lines'[j] = lines[j]]_vars

(* Liveness. *)

\* An entry that journal_submit has made pending gets its approval row, unless the
\* request died in between: the two are separate statements.
SubmissionReachesQueue ==
    \A j \in Journals :
        je[j].st = "pending" ~>
            crashes > 0 \/ \E k \in Rows : approvals[j][k] # "none"

-----------------------------------------------------------------------------
(* What the ledger promises its readers, and how the tables show it. *)

Posted(j) == je[j].st = "posted"

Book == [j \in Journals |->
    [kind |-> CASE je[j].st = "none" -> "none"
                [] je[j].st \in {"draft", "pending", "approved"} -> "open"
                [] OTHER -> je[j].st,
     per |-> je[j].per,
     dr |-> IF Posted(j) THEN lines[j]["dr"] ELSE 0,
     cr |-> IF Posted(j) THEN lines[j]["cr"] ELSE 0]]

Ledger == INSTANCE PostedLedger WITH book <- Book

\* The workflow implements that ledger when the requests about an entry, and the
\* closing of a period, are kept apart.
ImplementsLedger == Ledger!Spec
=============================================================================
