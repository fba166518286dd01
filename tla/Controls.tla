------------------------------- MODULE Controls --------------------------------
(***************************************************************************)
(* apps/audit and apps/reporting: the records that people move from status *)
(* to status and that remember who did it: a change request, an audit      *)
(* exception, a violation of segregation of duties, a financial statement, *)
(* a report, a consolidation package or an XBRL filing; and an access      *)
(* review with its items.                                                  *)
(*                                                                         *)
(* A stamp is a pair of columns, who and when, like approved_by and        *)
(* approved_at.  In audit a decision saves the status and its stamp alone; *)
(* in reporting it saves the row it loaded.                                *)
(***************************************************************************)
EXTENDS Naturals, FiniteSets

CONSTANTS
    Workers,   \* the server processes
    Kinds,     \* bound: the kinds of record that are tried
    Items,     \* bound: the items an access review may have
    MaxAborts  \* bound: how many requests may die half-way

VARIABLES
    record,   \* the row, with the items of an access review
    lagging,  \* history: whether its findings were not counted since it was edited
    req,      \* what each worker holds of the request it serves
    aborts    \* how many requests have died half-way

vars == <<record, lagging, req, aborts>>

None == "none"
Stamps == {"approved", "implemented", "resolved", "generated", "submitted"}

\* A button of the page: the statuses it is for, the one it leads to, what it stamps.
Move(from, to, stamp) == [from |-> from, to |-> to, stamp |-> stamp]

Submit == Move({"draft"}, "submitted", {})
Approve == Move({"submitted", "under_review"}, "approved", {"approved"})
Reject == Move({"submitted", "under_review"}, "rejected", {})
Implement == Move({"approved"}, "implemented", {"implemented"})
ResolveException == Move({"open", "investigating"}, "resolved", {"resolved"})
ResolveViolation == Move({"open", "acknowledged"}, "mitigated", {"resolved"})
GenerateStatement == Move({"draft"}, "generated", {"generated"})
ApproveStatement == Move({"reviewed"}, "approved", {"approved"})
GenerateReport == Move({"draft"}, "generated", {"generated"})
Consolidate == Move({"draft", "collecting"}, "consolidated", {"generated"})
ValidateFiling == Move({"draft", "tagging"}, "validated", {})
SubmitFiling == Move({"validated"}, "submitted", {"submitted"})

Moves(kind) ==
    CASE kind = "change" -> {Submit, Approve, Reject, Implement}
      [] kind = "exception" -> {ResolveException}
      [] kind = "violation" -> {ResolveViolation}
      [] kind = "statement" -> {GenerateStatement, ApproveStatement}
      [] kind = "report" -> {GenerateReport}
      [] kind = "package" -> {Consolidate}
      [] kind = "filing" -> {ValidateFiling, SubmitFiling}
      [] OTHER -> {}

\* STATUS_CHOICES: what the status field of the record's form offers.
Statuses(kind) ==
    CASE kind = "change" -> {"draft", "submitted", "under_review", "approved", "rejected",
                             "implemented"}
      [] kind = "exception" -> {"open", "investigating", "resolved", "false_positive"}
      [] kind = "violation" -> {"open", "acknowledged", "mitigated", "accepted"}
      [] kind = "review" -> {"planned", "in_progress", "completed", "closed"}
      [] kind = "statement" -> {"draft", "generated", "reviewed", "approved", "published"}
      [] kind = "report" -> {"draft", "generated", "reviewed", "distributed"}
      [] kind = "package" -> {"draft", "collecting", "consolidated", "reviewed", "published"}
      [] kind = "filing" -> {"draft", "tagging", "validated", "submitted", "accepted",
                             "rejected"}

InAudit == {"change", "exception", "violation", "review"}
\* Exceptions and violations are entered in the admin site and have no page to edit them.
Editable == {"change", "statement", "report", "package", "filing", "review"}

\* The columns that a request reads and may write back.  History: chosen says that the
\* status came from a form and not from a button.
Row == [status : {None} \cup UNION {Statuses(k) : k \in Kinds}, stamps : SUBSET Stamps,
        chosen : BOOLEAN]

\* An item is there when somebody decided on it; some decisions are findings.  History:
\* overruled says that a form approved the change, or wrote old stamps over new ones.
Record == [kind : Kinds, row : Row, overruled : BOOLEAN,
           item : [Items -> {None, "maintained", "revoked"}], findings : Nat]

NoMove == Move({}, None, {})
NoRow == [status |-> None, stamps |-> {}, chosen |-> FALSE]

Request == [pc : {"idle", "edit", "items", "count", "save_count", "decide"},
            move : {NoMove} \cup UNION {Moves(k) : k \in Kinds},
            copy : Row,   \* the row as it was loaded
            todo : SUBSET Items, n : Nat]
Idle == [pc |-> "idle", move |-> NoMove, copy |-> NoRow, todo |-> {}, n |-> 0]

TypeOK ==
    /\ record \in Record
    /\ lagging \in BOOLEAN
    /\ req \in [Workers -> Request]
    /\ aborts \in Nat

Init ==
    /\ record \in {[kind |-> kind, row |-> NoRow, overruled |-> FALSE,
                    item |-> [i \in Items |-> None], findings |-> 0] : kind \in Kinds}
    /\ lagging = FALSE
    /\ req = [w \in Workers |-> Idle]
    /\ aborts = 0

-----------------------------------------------------------------------------
At(w, label) == req[w].pc = label
Busy(w) == ~At(w, "idle")
Finish(w) == req' = [req EXCEPT ![w] = Idle]

\* A record is entered once, and nobody edits a review next to another edit of it: two that
\* count its findings at once may save the older count.
MayEdit(w) ==
    /\ ~Busy(w)
    /\ record.row.status = None \/ record.kind = "review" => \A v \in Workers : ~Busy(v)

-----------------------------------------------------------------------------
(* Entering and editing. *)

\* The views named *_create, and *_edit where there is one.
EditRecord(w) ==
    /\ MayEdit(w)
    /\ record.row.status = None \/ record.kind \in Editable
    /\ req' = [req EXCEPT ![w] = [Idle EXCEPT !.pc = "edit", !.copy = record.row]]
    /\ UNCHANGED <<record, lagging, aborts>>

\* form.save writes the whole row: the status is what the user left or chose in the form,
\* the stamps, which are none of its fields, are those of the row that was loaded.
SaveRecord(w) ==
    /\ At(w, "edit")
    /\ LET copy == req[w].copy
           Form(status) == [status |-> status, stamps |-> copy.stamps,
                            chosen |-> copy.chosen \/ status # copy.status] IN
       \E status \in Statuses(record.kind) :
          record' = [record EXCEPT
              !.row = Form(status),
              !.overruled = \/ @
                            \/ status = "approved" /\ status # copy.status
                            \/ ~(record.row.stamps \subseteq copy.stamps)]
    /\ IF record.kind = "review"
       THEN req' = [req EXCEPT ![w].pc = "items", ![w].todo = Items]
       ELSE Finish(w)
    /\ lagging' = (record.kind = "review")
    /\ UNCHANGED aborts

\* An item is entered, changed, deleted or left as it is.
SaveItem(w) ==
    /\ At(w, "items")
    /\ \E i \in req[w].todo, decision \in {None, "maintained", "revoked"} :
          /\ record' = [record EXCEPT !.item[i] = decision]
          /\ req' = [req EXCEPT ![w].todo = @ \ {i}]
    /\ UNCHANGED <<lagging, aborts>>

EndItems(w) ==
    /\ At(w, "items") /\ req[w].todo = {}
    /\ req' = [req EXCEPT ![w].pc = "count"]
    /\ UNCHANGED <<record, lagging, aborts>>

CountFindings(w) ==
    /\ At(w, "count")
    /\ req' = [req EXCEPT ![w].pc = "save_count",
                          ![w].n = Cardinality({i \in Items : record.item[i] = "revoked"})]
    /\ UNCHANGED <<record, lagging, aborts>>

SaveFindings(w) ==
    /\ At(w, "save_count")
    /\ record' = [record EXCEPT !.findings = req[w].n]
    /\ lagging' = FALSE
    /\ Finish(w)
    /\ UNCHANGED aborts

-----------------------------------------------------------------------------
(* Decisions. *)

Decide(w) ==
    /\ ~Busy(w)
    /\ \E move \in Moves(record.kind) :
          /\ record.row.status \in move.from
          /\ req' = [req EXCEPT ![w] = [Idle EXCEPT !.pc = "decide", !.move = move,
                                                    !.copy = record.row]]
    /\ UNCHANGED <<record, lagging, aborts>>

\* Mutant: update_fields names the status, but not the columns of the stamp.
SaveStatusOnly(w) ==
    /\ At(w, "decide")
    /\ record' = [record EXCEPT !.row = [status |-> req[w].move.to, stamps |-> @.stamps,
                                         chosen |-> FALSE]]
    /\ Finish(w)
    /\ UNCHANGED <<lagging, aborts>>

\* In audit the columns that changed are saved, in reporting the row as it was loaded.
SaveDecision(w) ==
    /\ At(w, "decide")
    /\ LET kept == IF record.kind \in InAudit THEN record.row.stamps ELSE req[w].copy.stamps IN
          record' = [record EXCEPT !.row = [status |-> req[w].move.to,
                                            stamps |-> kept \cup req[w].move.stamp,
                                            chosen |-> FALSE]]
    /\ Finish(w)
    /\ UNCHANGED <<lagging, aborts>>

-----------------------------------------------------------------------------
Crash(w) ==
    /\ Busy(w) /\ aborts < MaxAborts
    /\ aborts' = aborts + 1
    /\ Finish(w)
    /\ UNCHANGED <<record, lagging>>

Continue(w) ==
    \/ SaveRecord(w) \/ SaveItem(w) \/ EndItems(w) \/ CountFindings(w) \/ SaveFindings(w)
    \/ SaveDecision(w)

Next == \E w \in Workers : EditRecord(w) \/ Decide(w) \/ Continue(w) \/ Crash(w)

Spec == Init /\ [][Next]_vars

-----------------------------------------------------------------------------
(* Properties. *)

\* A status that a record has from a button, even if edits have kept it since, comes with the
\* button's stamp.
StatusIsStamped ==
    \A move \in Moves(record.kind) :
        ~record.row.chosen /\ record.row.status = move.to => move.stamp \subseteq record.row.stamps

\* Who implemented a change found it approved, and the approver's stamp is still there,
\* although a rejection may have come between and may come after: unless a form had
\* approved the change, which asks nobody, or an edit wrote old stamps over new ones.
ImplementedWasApproved ==
    ~record.overruled /\ "implemented" \in record.row.stamps => "approved" \in record.row.stamps

\* The findings of a review are its items with a finding.
FindingsAreItems ==
    ~lagging => record.findings = Cardinality({i \in Items : record.item[i] = "revoked"})

\* However decisions and edits overlap and wherever a request dies, a record shows who
\* pressed the button that brought it to its status, a change is not implemented that
\* neither a button nor a form approved, and the findings of a review are counted once its
\* edit has come to the end.
RecordsAreStamped == StatusIsStamped /\ ImplementedWasApproved /\ FindingsAreItems
=============================================================================
