----------------------------- MODULE MultiEntity ------------------------------
(***************************************************************************)
(* apps/multi_entity: intercompany transactions and their balances,        *)
(* consolidation runs that eliminate those balances, their reversal, and   *)
(* GAAP adjustments.  All of them post journal entries, numbered by the    *)
(* highest number read just before; an entry whose number was taken in     *)
(* between raises, and every view here turns that into a message.          *)
(***************************************************************************)
EXTENDS Naturals, FiniteSets, Sums

CONSTANTS
    Workers,       \* the server processes
    Transactions,  \* the intercompany transactions that may be entered, each of amount 1
    Adjustments,   \* the GAAP adjustments that may be entered, each of amount 1
    Runs,          \* the consolidation runs that may be created, all of one group and period
    Pairs,         \* the pairs of entities, each with its balance in the period
    PairOf,        \* the pair of each transaction
    MaxRules,      \* the group has 0..MaxRules active, automatic elimination rules
    MaxEntries,    \* bound: how many journal entries are posted
    MaxAborts      \* bound: how many requests may die half-way, or fail on a number

Docs == Transactions \cup Adjustments \cup Runs
Entries == 1..MaxEntries

VARIABLES
    rules,     \* table EliminationRule: how many rules are active
    doc,       \* status of each transaction, adjustment and run
    balance,   \* table IntercompanyBalance: balance
    entry,     \* table JournalEntry, all posted, by entry_number
    elim,      \* table EliminationEntry: the entries each run has recorded
    total,     \* table ConsolidationRun: total_eliminations
    req,       \* what each worker holds of the request it serves
    aborts     \* how many requests have ended half-way

vars == <<rules, doc, balance, entry, elim, total, req, aborts>>

Statuses == {"none", "draft", "confirmed", "posted", "in_progress", "completed", "failed",
             "reversed"}

\* What an entry was posted for, and the entry it reverses, 0 for none.
Entry == [of : Docs \cup {"none"}, undo : Entries \cup {0}, amt : Nat, lines : BOOLEAN]
NoEntry == [of |-> "none", undo |-> 0, amt |-> 0, lines |-> FALSE]
NoBalances == [p \in Pairs |-> 0]

Request ==
    [op : {"none", "post", "adjust", "execute", "reverse", "reconcile"},
     pc : {"idle", "begin", "rule", "number", "insert", "lines", "track", "save", "fail",
           "balance", "save_balance"},
     d : Docs \cup Pairs \cup {"none"},    \* the row it works on
     new : Entry,                          \* the entry it is posting
     n : Entries \cup {0},                 \* its number
     left : Nat,                           \* entries of the same document, or rules, to come
     due : [Pairs -> Nat],                 \* the balances the current rule has to eliminate
     back : SUBSET Entries,                \* the entries it has to reverse
     sum : Nat]                            \* total_elim, or the local copy of a balance

Idle == [op |-> "none", pc |-> "idle", d |-> "none", new |-> NoEntry, n |-> 0, left |-> 0,
         due |-> NoBalances, back |-> {}, sum |-> 0]

TypeOK ==
    /\ rules \in 0..MaxRules
    /\ doc \in [Docs -> Statuses]
    /\ balance \in [Pairs -> Nat]
    /\ entry \in [Entries -> Entry]
    /\ elim \in [Runs -> SUBSET Entries]
    /\ total \in [Runs -> Nat]
    /\ req \in [Workers -> Request]
    /\ aborts \in Nat

Init ==
    /\ rules \in 0..MaxRules
    /\ doc = [d \in Docs |-> "none"]
    /\ balance = NoBalances
    /\ entry = [n \in Entries |-> NoEntry]
    /\ elim = [r \in Runs |-> {}]
    /\ total = [r \in Runs |-> 0]
    /\ req = [w \in Workers |-> Idle]
    /\ aborts = 0

-----------------------------------------------------------------------------
At(w, label) == req[w].pc = label
Busy(w) == ~At(w, "idle")
Finish(w) == req' = [req EXCEPT ![w] = Idle]

\* The pair a request is about, besides its row.
Touches(w) ==
    {req[w].d} \cup (IF req[w].d \in Transactions THEN {PairOf[req[w].d]} ELSE {})

\* The code locks nothing; users do not work on one document or one pair of entities in
\* two places at once.
MayStart(w, what) ==
    /\ ~Busy(w)
    /\ \A v \in Workers : Touches(v) \cap what = {}

\* One INSERT: the forms, which give every document its number and its draft status.
Create(d) ==
    /\ doc[d] = "none"
    /\ doc' = [doc EXCEPT ![d] = "draft"]
    /\ UNCHANGED <<rules, balance, entry, elim, total, req, aborts>>

\* One UPDATE of a row that nobody else works on.
Confirm(t) ==
    /\ doc[t] = "draft" /\ \A w \in Workers : t \notin Touches(w)
    /\ doc' = [doc EXCEPT ![t] = "confirmed"]
    /\ UNCHANGED <<rules, balance, entry, elim, total, req, aborts>>

\* Two entries: one for each side.
Post(w, t) ==
    /\ MayStart(w, {t, PairOf[t]})
    /\ doc[t] = "confirmed"
    /\ req' = [req EXCEPT ![w] = [Idle EXCEPT !.op = "post", !.pc = "number", !.d = t,
                                              !.left = 2, !.new = [NoEntry EXCEPT !.of = t, !.amt = 1]]]
    /\ UNCHANGED <<rules, doc, balance, entry, elim, total, aborts>>

PostAdjustment(w, a) ==
    /\ MayStart(w, {a})
    /\ doc[a] = "draft"
    /\ req' = [req EXCEPT ![w] = [Idle EXCEPT !.op = "adjust", !.pc = "number", !.d = a,
                                              !.left = 1, !.new = [NoEntry EXCEPT !.of = a, !.amt = 1]]]
    /\ UNCHANGED <<rules, doc, balance, entry, elim, total, aborts>>

Execute(w, r) ==
    /\ MayStart(w, {r})
    /\ doc[r] = "draft"
    /\ req' = [req EXCEPT ![w] = [Idle EXCEPT !.op = "execute", !.pc = "begin", !.d = r,
                                              !.left = rules]]
    /\ UNCHANGED <<rules, doc, balance, entry, elim, total, aborts>>

Reverse(w, r) ==
    /\ MayStart(w, {r})
    /\ doc[r] = "completed"
    /\ req' = [req EXCEPT ![w] = [Idle EXCEPT !.op = "reverse", !.d = r, !.back = elim[r],
                                              !.pc = IF elim[r] = {} THEN "save" ELSE "number"]]
    /\ UNCHANGED <<rules, doc, balance, entry, elim, total, aborts>>

-----------------------------------------------------------------------------
(* Posting one journal entry. *)

\* Which entry comes next: of the pairs and of the entries to reverse, any one.
Chosen(w) ==
    CASE req[w].op = "execute" ->
            {[NoEntry EXCEPT !.of = req[w].d, !.amt = req[w].due[p]] :
                p \in {q \in Pairs : req[w].due[q] > 0}}
      [] req[w].op = "reverse" ->
            {[of |-> req[w].d, undo |-> m, amt |-> entry[m].amt, lines |-> FALSE] :
                m \in req[w].back}
      [] OTHER -> {req[w].new}

GenerateNumber(w) ==
    /\ At(w, "number")
    /\ \E n \in Entries :
          /\ \A m \in Entries : entry[m].of = "none" <=> m >= n
          /\ req' = [req EXCEPT ![w].n = n, ![w].pc = "insert"]
    /\ UNCHANGED <<rules, doc, balance, entry, elim, total, aborts>>

InsertEntry(w) ==
    /\ At(w, "insert")
    /\ entry[req[w].n].of = "none"
    /\ \E e \in Chosen(w) :
          /\ entry' = [entry EXCEPT ![req[w].n] = e]
          /\ req' = [req EXCEPT ![w].new = e, ![w].pc = "lines"]
    /\ UNCHANGED <<rules, doc, balance, elim, total, aborts>>

\* Another request took the number.  A run is marked failed; the others end.
InsertFails(w) ==
    /\ At(w, "insert")
    /\ entry[req[w].n].of # "none" /\ aborts < MaxAborts
    /\ aborts' = aborts + 1
    /\ IF req[w].op = "execute" THEN req' = [req EXCEPT ![w].pc = "fail"] ELSE Finish(w)
    /\ UNCHANGED <<rules, doc, balance, entry, elim, total>>

\* Both lines in one step: no request reads them before the entry is recorded, and to
\* die between the two leaves as much undone as to die before the first.
InsertLines(w) ==
    /\ At(w, "lines")
    /\ entry' = [entry EXCEPT ![req[w].n].lines = TRUE]
    /\ LET back == req[w].back \ {req[w].new.undo} IN
          req' = [req EXCEPT ![w].back = back,
                             ![w].left = IF req[w].op \in {"post", "adjust"} THEN @ - 1 ELSE @,
                             ![w].pc = CASE req[w].op = "execute" -> "track"
                                         [] req[w].op = "reverse" /\ back # {} -> "number"
                                         [] req[w].op = "post" /\ req[w].left = 2 -> "number"
                                         [] OTHER -> "save"]
    /\ UNCHANGED <<rules, doc, balance, elim, total, aborts>>

-----------------------------------------------------------------------------
(* execute_consolidation. *)

BeginRun(w) ==
    /\ At(w, "begin")
    /\ doc' = [doc EXCEPT ![req[w].d] = "in_progress"]
    /\ req' = [req EXCEPT ![w].pc = "rule"]
    /\ UNCHANGED <<rules, balance, entry, elim, total, aborts>>

\* Every rule queries the balances again, and eliminates all of them.  The minority
\* interests that follow the last rule are rows of amount 0 that nothing reads.
NextRule(w) ==
    /\ At(w, "rule")
    /\ IF req[w].left = 0 THEN req' = [req EXCEPT ![w].pc = "save"]
       ELSE req' = [req EXCEPT ![w].left = @ - 1, ![w].due = balance,
                               ![w].pc = IF balance = NoBalances THEN "rule" ELSE "number"]
    /\ UNCHANGED <<rules, doc, balance, entry, elim, total, aborts>>

\* Mutant: the amount is not added to the total of the run.
TrackUncounted(w) ==
    /\ At(w, "track")
    /\ elim' = [elim EXCEPT ![req[w].d] = @ \cup {req[w].n}]
    /\ \E p \in Pairs :
          /\ req[w].due[p] = req[w].new.amt
          /\ LET due == [req[w].due EXCEPT ![p] = 0] IN
                req' = [req EXCEPT ![w].due = due,
                             ![w].pc = IF due = NoBalances THEN "rule" ELSE "number"]
    /\ UNCHANGED <<rules, doc, balance, entry, total, aborts>>

\* The EliminationEntry, which takes its pair from the entry just posted.
Track(w) ==
    /\ At(w, "track")
    /\ elim' = [elim EXCEPT ![req[w].d] = @ \cup {req[w].n}]
    /\ \E p \in Pairs :
          /\ req[w].due[p] = req[w].new.amt
          /\ LET due == [req[w].due EXCEPT ![p] = 0] IN
                req' = [req EXCEPT ![w].sum = @ + req[w].new.amt, ![w].due = due,
                                   ![w].pc = IF due = NoBalances THEN "rule" ELSE "number"]
    /\ UNCHANGED <<rules, doc, balance, entry, total, aborts>>

MarkFailed(w) ==
    /\ At(w, "fail")
    /\ doc' = [doc EXCEPT ![req[w].d] = "failed"]
    /\ Finish(w)
    /\ UNCHANGED <<rules, balance, entry, elim, total, aborts>>

-----------------------------------------------------------------------------
(* The documents are saved last, except for the balance of a transaction. *)

NewStatus(op) ==
    CASE op \in {"post", "adjust"} -> "posted"
      [] op = "execute" -> "completed"
      [] op = "reverse" -> "reversed"

Save(w) ==
    /\ At(w, "save")
    /\ doc' = [doc EXCEPT ![req[w].d] = NewStatus(req[w].op)]
    /\ total' = IF req[w].op = "execute" THEN [total EXCEPT ![req[w].d] = req[w].sum] ELSE total
    /\ IF req[w].op = "post" THEN req' = [req EXCEPT ![w].pc = "balance"] ELSE Finish(w)
    /\ UNCHANGED <<rules, balance, entry, elim, aborts>>

\* Mutant: the row is found, but its amount is not added to.
BalanceFromZero(w) ==
    /\ At(w, "balance")
    /\ req' = [req EXCEPT ![w].sum = 1, ![w].pc = "save_balance"]
    /\ UNCHANGED <<rules, doc, balance, entry, elim, total, aborts>>

\* get_or_create loads the balance; ic_balance_reconcile does too.
LoadBalance(w) ==
    /\ At(w, "balance")
    /\ req' = [req EXCEPT ![w].sum = balance[PairOf[req[w].d]] + 1, ![w].pc = "save_balance"]
    /\ UNCHANGED <<rules, doc, balance, entry, elim, total, aborts>>

Reconcile(w, p) ==
    /\ MayStart(w, {p})
    /\ balance[p] > 0                 \* there is a row
    /\ req' = [req EXCEPT ![w] = [Idle EXCEPT !.op = "reconcile", !.d = p, !.sum = balance[p],
                                              !.pc = "save_balance"]]
    /\ UNCHANGED <<rules, doc, balance, entry, elim, total, aborts>>

\* Both save the whole row.
SaveBalance(w) ==
    /\ At(w, "save_balance")
    /\ balance' = [balance EXCEPT
          ![IF req[w].op = "post" THEN PairOf[req[w].d] ELSE req[w].d] = req[w].sum]
    /\ Finish(w)
    /\ UNCHANGED <<rules, doc, entry, elim, total, aborts>>

Crash(w) ==
    /\ Busy(w) /\ aborts < MaxAborts
    /\ aborts' = aborts + 1
    /\ Finish(w)
    /\ UNCHANGED <<rules, doc, balance, entry, elim, total>>

Continue(w) ==
    \/ GenerateNumber(w) \/ InsertEntry(w) \/ InsertFails(w) \/ InsertLines(w)
    \/ BeginRun(w) \/ NextRule(w) \/ Track(w) \/ MarkFailed(w)
    \/ Save(w) \/ LoadBalance(w) \/ SaveBalance(w)

Next ==
    \/ \E d \in Docs : Create(d)
    \/ \E t \in Transactions : Confirm(t)
    \/ \E w \in Workers :
          \/ \E t \in Transactions : Post(w, t)
          \/ \E a \in Adjustments : PostAdjustment(w, a)
          \/ \E r \in Runs : Execute(w, r) \/ Reverse(w, r)
          \/ \E p \in Pairs : Reconcile(w, p)
          \/ Continue(w) \/ Crash(w)

Spec == Init /\ [][Next]_vars

-----------------------------------------------------------------------------
(* Properties. *)

Amount(ns) == SumOf([n \in ns |-> entry[n].amt])

\* The balance of a pair is what its posted transactions add up to, unless a request on
\* it is under way or one has ended half-way.
BalanceIsPosted ==
    aborts = 0 => \A p \in Pairs : (\A w \in Workers : p \notin Touches(w)) =>
        balance[p] = Cardinality({t \in Transactions : PairOf[t] = p /\ doc[t] = "posted"})

\* A posted transaction has an entry with lines for each side, a posted adjustment has
\* one, and more than that only after a request that ended half-way.
PostedHasEntries ==
    \A d \in Transactions \cup Adjustments : doc[d] = "posted" =>
        LET own == {n \in Entries : entry[n].of = d /\ entry[n].lines}
            wanted == IF d \in Transactions THEN 2 ELSE 1 IN
        /\ Cardinality(own) >= wanted
        /\ Cardinality(own) <= wanted * (1 + aborts)

\* The total of a completed run is what it has posted and recorded.
TotalIsEliminated ==
    \A r \in Runs : doc[r] = "completed" /\ (\A w \in Workers : r \notin Touches(w)) =>
        /\ total[r] = Amount(elim[r])
        /\ aborts = 0 => elim[r] = {n \in Entries : entry[n].of = r}

\* The reversal of a run has a contra entry of the same amount for each of its
\* eliminations, two only after a request that ended half-way.
ReversedNetsZero ==
    \A r \in Runs : doc[r] = "reversed" => \A n \in elim[r] :
        LET contras == {m \in Entries : entry[m].undo = n} IN
        /\ \E m \in contras : entry[m].lines /\ entry[m].amt = entry[n].amt
        /\ Cardinality(contras) <= 1 + aborts

\* A consolidation agrees with its entries, while it is completed and after its reversal.
ConsolidationAddsUp == TotalIsEliminated /\ ReversedNetsZero
=============================================================================
