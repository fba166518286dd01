---------------------------- MODULE PostedLedger ----------------------------
(***************************************************************************)
(* What the general ledger promises, without requests, approvals or rows:  *)
(* entries are prepared in an open period, then posted for good or         *)
(* discarded; a posted entry balances and never changes; a closed period   *)
(* has nothing left to post and takes nothing new until it is reopened.    *)
(***************************************************************************)
EXTENDS Naturals

CONSTANTS Journals, Periods

VARIABLES book, closed

Nothing == [kind |-> "none", per |-> 0, dr |-> 0, cr |-> 0]
Prepared(p) == [kind |-> "open", per |-> p, dr |-> 0, cr |-> 0]
Discarded(p) == [kind |-> "rejected", per |-> p, dr |-> 0, cr |-> 0]
Posting(p, a) == [kind |-> "posted", per |-> p, dr |-> a, cr |-> a]

Init ==
    /\ book = [j \in Journals |-> Nothing]
    /\ closed = [p \in Periods |-> FALSE]

\* A new entry, or a draft moved to another open period.
Prepare(j, p) ==
    /\ ~closed[p]
    /\ book[j].kind \in {"none", "open"}
    /\ book' = [book EXCEPT ![j] = Prepared(p)]
    /\ UNCHANGED closed

Post(j) ==
    /\ book[j].kind = "open"
    /\ ~closed[book[j].per]
    /\ book'[j].dr \in Nat    \* any amount, debited and credited alike
    /\ book' = [book EXCEPT ![j] = Posting(book[j].per, book'[j].dr)]
    /\ UNCHANGED closed

Discard(j) ==
    /\ book[j].kind = "open"
    /\ book' = [book EXCEPT ![j] = Discarded(book[j].per)]
    /\ UNCHANGED closed

Close(p) ==
    /\ \A j \in Journals : book[j] # Prepared(p)
    /\ closed' = [closed EXCEPT ![p] = TRUE]
    /\ UNCHANGED book

Reopen(p) ==
    /\ closed' = [closed EXCEPT ![p] = FALSE]
    /\ UNCHANGED book

Next ==
    \/ \E j \in Journals : (\E p \in Periods : Prepare(j, p)) \/ Post(j) \/ Discard(j)
    \/ \E p \in Periods : Close(p) \/ Reopen(p)

Spec == Init /\ [][Next]_<<book, closed>>
=============================================================================
