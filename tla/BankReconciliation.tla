-------------------------- MODULE BankReconciliation --------------------------
(***************************************************************************)
(* apps/cash_management: matching the transactions of a bank account with  *)
(* the lines of its ledger account, in the reconciliation of one period.   *)
(*                                                                         *)
(* Every statement commits by itself.  The pairs that a rule may match are *)
(* constants; balances, which no step reads back, are left out.            *)
(***************************************************************************)
EXTENDS Naturals, FiniteSets, Sequences

CONSTANTS
    Workers,       \* the server processes
    Txns,          \* the transactions a bank statement may bring
    Lines,         \* the posted lines of the ledger account in the period
    ByAmount,      \* pairs of a transaction and a line of its amount on the other side
    ByReference,   \* pairs of a transaction and a line of an entry with its reference
    RuleBooks,     \* what AutoMatchRule may hold: the active rules, by priority
    MaxItems,      \* bound: how many matches are made
    MaxCrashes     \* bound: how many requests may die half-way

VARIABLES
    rules,      \* table AutoMatchRule
    matched,    \* table BankTransaction: is_matched of the rows there are
    item,       \* table ReconciliationItem by its ids, which are never used again
    status,     \* the reconciliation's status
    req,        \* what each worker holds of the request it serves
    aborts      \* how many requests have died half-way

vars == <<rules, matched, item, status, req, aborts>>

Items == 1..MaxItems
Imported == DOMAIN matched

\* A row that was not inserted yet has type "none", a deleted one "deleted".
Item == [type : {"none", "auto", "manual", "deleted"}, txns : SUBSET Txns, lines : SUBSET Lines]
NoItem == [type |-> "none", txns |-> {}, lines |-> {}]

Request ==
    [op : {"none", "auto", "match", "unmatch"},
     pc : {"idle", "query", "next", "insert", "flag", "unflag", "delete"},
     txn : SUBSET Txns, line : SUBSET Lines,   \* what it matches now, or the row it unmatches
     i : Items \cup {0},                       \* the item it unmatches, or has inserted
     todo : SUBSET Txns,                       \* what the loop of the current rule has left
     cache : SUBSET Txns,                      \* the result the queryset keeps
     k : Nat]                                  \* the position of the current rule

Idle == [op |-> "none", pc |-> "idle", txn |-> {}, line |-> {}, i |-> 0, todo |-> {},
         cache |-> {}, k |-> 0]

TypeOK ==
    /\ rules \in RuleBooks
    /\ Imported \subseteq Txns /\ matched \in [Imported -> BOOLEAN]
    /\ item \in [Items -> Item]
    /\ status \in {"none", "in_progress", "completed"}
    /\ req \in [Workers -> Request]
    /\ aborts \in Nat

Init ==
    /\ rules \in RuleBooks
    /\ matched = [t \in {} |-> FALSE]
    /\ item = [i \in Items |-> NoItem]
    /\ status = "none"
    /\ req = [w \in Workers |-> Idle]
    /\ aborts = 0

-----------------------------------------------------------------------------
(* What a query finds. *)

Live(i) == item[i].type \in {"auto", "manual"}
ItemsOf(t) == {i \in Items : Live(i) /\ t \in item[i].txns}
ItemsOn(l) == {i \in Items : Live(i) /\ l \in item[i].lines}

UnmatchedTxns == {t \in Imported : ~matched[t]}

\* Mutant: the subquery of run_auto_match does not exclude matched lines.
AllLines == Lines
UnmatchedLines == {l \in Lines : ItemsOn(l) = {}}

\* The lines the current rule may match a transaction with.
Candidates(w, t) ==
    {l \in UnmatchedLines :
        <<t, l>> \in IF rules[req[w].k] = "exact_amount" THEN ByAmount ELSE ByReference}

\* Scheduling: the code locks nothing.  Two things the users do not do: run the automatic
\* match twice at once, and remove a match before the request that makes it has set its
\* flag.  Everything else may overlap.
Busy(w) == req[w].pc # "idle"
AutoIsRunning == \E v \in Workers : req[v].op = "auto"
BeingMade(i) == \E v \in Workers : req[v].pc = "flag" /\ req[v].i = i
MayStart(w) == ~Busy(w) /\ status # "none"

Finish(w) == req' = [req EXCEPT ![w] = Idle]

-----------------------------------------------------------------------------
(* The views. *)

\* parse_csv_transactions: one INSERT per row of the file.
ImportRow(t) ==
    /\ t \notin Imported
    /\ matched' = [u \in Imported \cup {t} |-> IF u = t THEN FALSE ELSE matched[u]]
    /\ UNCHANGED <<rules, item, status, req, aborts>>

\* unique_together allows one reconciliation for the account and the period.
StartReconciliation ==
    /\ status = "none"
    /\ status' = "in_progress"
    /\ UNCHANGED <<rules, matched, item, req, aborts>>

\* Whatever its status; matching goes on after.
CompleteReconciliation ==
    /\ status # "none"
    /\ status' = "completed"
    /\ UNCHANGED <<rules, matched, item, req, aborts>>

\* reconciliation_match takes the pair that the page posts, as it is: a workspace that was
\* opened before posts a transaction or a line that has been matched since.
Match(w, t, l) ==
    /\ MayStart(w) /\ t \in Imported
    /\ req' = [req EXCEPT ![w] = [Idle EXCEPT !.op = "match", !.pc = "insert",
                                              !.txn = {t}, !.line = {l}]]
    /\ UNCHANGED <<rules, matched, item, status, aborts>>

Unmatch(w, i) ==
    /\ MayStart(w) /\ Live(i) /\ ~BeingMade(i)
    /\ req' = [req EXCEPT ![w] = [Idle EXCEPT !.op = "unmatch", !.pc = "unflag", !.i = i,
                                              !.txn = item[i].txns]]
    /\ UNCHANGED <<rules, matched, item, status, aborts>>

SaveUnmatched(w) ==
    /\ req[w].pc = "unflag"
    /\ matched' = [t \in Imported |-> IF t \in req[w].txn THEN FALSE ELSE matched[t]]
    /\ req' = [req EXCEPT ![w].pc = "delete"]
    /\ UNCHANGED <<rules, item, status, aborts>>

\* Mutant: reconciliation_unmatch deletes the item and leaves the flag.
SaveNothing(w) ==
    /\ req[w].pc = "unflag"
    /\ req' = [req EXCEPT ![w].pc = "delete"]
    /\ UNCHANGED <<rules, matched, item, status, aborts>>

DeleteItem(w) ==
    /\ req[w].pc = "delete"
    /\ item' = [item EXCEPT ![req[w].i] = [NoItem EXCEPT !.type = "deleted"]]
    /\ Finish(w)
    /\ UNCHANGED <<rules, matched, status, aborts>>

-----------------------------------------------------------------------------
(* run_auto_match. *)

AutoMatch(w) ==
    /\ MayStart(w) /\ ~AutoIsRunning
    /\ rules # <<>>
    /\ req' = [req EXCEPT ![w] = [Idle EXCEPT !.op = "auto", !.pc = "query", !.k = 1]]
    /\ UNCHANGED <<rules, matched, item, status, aborts>>

\* The first loop evaluates the queryset of unmatched transactions; the queryset
\* keeps its result, and the loops of the later rules go through the same list.
QueryTxns(w) ==
    /\ req[w].pc = "query"
    /\ LET found == IF req[w].k = 1 THEN UnmatchedTxns ELSE req[w].cache IN
          req' = [req EXCEPT ![w].pc = "next", ![w].todo = found, ![w].cache = found]
    /\ UNCHANGED <<rules, matched, item, status, aborts>>

\* The next transaction of the loop, and the first line the rule finds for it.  The
\* order of the list, by date, and that of the lines, by id, are left open.
NextTxn(w) ==
    /\ req[w].pc = "next"
    /\ \E t \in req[w].todo :
          /\ Candidates(w, t) = {}
                => req' = [req EXCEPT ![w].todo = @ \ {t}]
          /\ Candidates(w, t) # {}
                => \E l \in Candidates(w, t) :
                      req' = [req EXCEPT ![w].todo = @ \ {t}, ![w].pc = "insert",
                                         ![w].txn = {t}, ![w].line = {l}]
    /\ UNCHANGED <<rules, matched, item, status, aborts>>

NextRule(w) ==
    /\ req[w].pc = "next" /\ req[w].todo = {}
    /\ IF req[w].k < Len(rules)
       THEN req' = [req EXCEPT ![w].pc = "query", ![w].k = @ + 1]
       ELSE Finish(w)
    /\ UNCHANGED <<rules, matched, item, status, aborts>>

InsertItem(w) ==
    /\ req[w].pc = "insert"
    /\ \E i \in Items :
          /\ \A j \in Items : item[j].type = "none" <=> j >= i
          /\ item' = [item EXCEPT ![i] =
                [type |-> IF req[w].op = "auto" THEN "auto" ELSE "manual",
                 txns |-> req[w].txn, lines |-> req[w].line]]
          /\ req' = [req EXCEPT ![w].pc = "flag", ![w].i = i]
    /\ UNCHANGED <<rules, matched, status, aborts>>

SaveMatched(w) ==
    /\ req[w].pc = "flag"
    /\ matched' = [t \in Imported |-> t \in req[w].txn \/ matched[t]]
    /\ IF req[w].op = "auto" THEN req' = [req EXCEPT ![w].pc = "next"] ELSE Finish(w)
    /\ UNCHANGED <<rules, item, status, aborts>>

Crash(w) ==
    /\ Busy(w) /\ aborts < MaxCrashes
    /\ aborts' = aborts + 1
    /\ Finish(w)
    /\ UNCHANGED <<rules, matched, item, status>>

Next ==
    \/ StartReconciliation \/ CompleteReconciliation
    \/ \E t \in Txns : ImportRow(t)
    \/ \E w \in Workers :
          \/ AutoMatch(w) \/ QueryTxns(w) \/ NextTxn(w) \/ NextRule(w)
          \/ \E t \in Txns, l \in Lines : Match(w, t, l)
          \/ \E i \in Items : Unmatch(w, i)
          \/ InsertItem(w) \/ SaveMatched(w) \/ SaveUnmatched(w) \/ DeleteItem(w)
          \/ Crash(w)

Spec == Init /\ [][Next]_vars

-----------------------------------------------------------------------------
(* Properties. *)

\* A transaction marked as matched has an item, whatever the rules, however stale the pages
\* that users match from and wherever a request dies: the item is inserted before the flag
\* is set, and the flag taken back before the item is deleted.  Not the other way round: of
\* two items of a transaction, removing one takes back the flag of both.
MatchedHasItem == \A t \in Imported : matched[t] => ItemsOf(t) # {}

\* The automatic match takes a ledger line once, even while users match and unmatch: the
\* lines, unlike the transactions, are queried again for every match.  A second item on a
\* line was made by hand, from a stale page.
AutoMatchesOnce ==
    \A l \in Lines : \A i, j \in ItemsOn(l) :
        item[i].type = "auto" /\ item[j].type = "auto" => i = j

\* services.py:77: the rules are executed "against unmatched items": an automatic match
\* takes a transaction that is unmatched at that moment.
AutoMatchTakesUnmatched ==
    [][\A i \in Items :
          item[i].type = "none" /\ item'[i].type = "auto" =>
              \A t \in item'[i].txns : ~matched[t]]_vars
=============================================================================
