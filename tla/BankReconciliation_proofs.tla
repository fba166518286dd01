---------------------- MODULE BankReconciliation_proofs ----------------------
(***************************************************************************)
(* Theorems about BankReconciliation, for any number of workers,           *)
(* transactions, ledger lines and rules: a transaction that is marked as   *)
(* matched has an item, and an automatic match takes no ledger line twice. *)
(***************************************************************************)
EXTENDS BankReconciliation, TLAPS

\* What the constants are.
Bounds ==
    /\ MaxItems \in Nat
    /\ RuleBooks \subseteq Seq({"exact_amount", "reference_match"})

-----------------------------------------------------------------------------
(* Types, and what each statement needs of the local values.                   *)

Placed(q) ==
    /\ q.op = "none" => q.pc = "idle"
    /\ q.pc \in {"query", "next"} => q.op = "auto"
    /\ q.pc = "idle" => q.op = "none"
    /\ q.pc \in {"unflag", "delete"} => q.op = "unmatch" /\ q.i \in Items
    /\ q.pc = "flag" => q.i \in Items

Local == {q \in Request : Placed(q)}

TypeInv == TypeOK /\ req \in [Workers -> Local]

LEMMA IdleIsLocal == Idle \in Local
  BY DEF Idle, Local, Request, Placed

LEMMA InitTypes == Init => TypeInv
<1> SUFFICES ASSUME Init PROVE TypeInv
  OBVIOUS
<1>1. NoItem \in Item
  BY DEF NoItem, Item
<1>2. Local \subseteq Request
  BY DEF Local
<1> QED
  BY <1>1, <1>2, IdleIsLocal DEF Init, TypeInv, TypeOK, Imported

\* A request that goes on, or ends, holds what it held.
LEMMA NextTypes == TypeInv /\ [Next]_vars => TypeInv'
<1> SUFFICES ASSUME TypeInv, [Next]_vars PROVE TypeInv'
  OBVIOUS
<1> USE DEF TypeInv, TypeOK
<1>0. Local \subseteq Request /\ Idle \in Local
  BY IdleIsLocal DEF Local
<1>1. CASE StartReconciliation
  BY <1>1 DEF StartReconciliation, Imported
<1>2. CASE CompleteReconciliation
  BY <1>2 DEF CompleteReconciliation, Imported
<1>3. ASSUME NEW t \in Txns, ImportRow(t) PROVE TypeInv'
  BY <1>3 DEF ImportRow, Imported
<1>4. ASSUME NEW w \in Workers, AutoMatch(w) PROVE TypeInv'
  <2>1. PICK n \in Nat : n = 1 /\ n >= 1
    OBVIOUS
  <2>2. [Idle EXCEPT !.op = "auto", !.pc = "query", !.k = n] \in Local
    BY <2>1 DEF Idle, Local, Request, Placed
  <2> QED
    BY <1>0, <1>4, <2>1, <2>2 DEF AutoMatch, Imported
<1>5. ASSUME NEW w \in Workers, QueryTxns(w) PROVE TypeInv'
  <2> DEFINE found == IF req[w].k = 1 THEN UnmatchedTxns ELSE req[w].cache
  <2>1. found \in SUBSET Txns
    BY DEF UnmatchedTxns, Imported, Local, Request
  <2>2. [req[w] EXCEPT !.pc = "next", !.todo = found, !.cache = found] \in Local
    BY <1>5, <2>1, ZenonT(40) DEF QueryTxns, Local, Request, Placed
  <2> QED
    BY <1>0, <1>5, <2>2 DEF QueryTxns, Imported
<1>6. ASSUME NEW w \in Workers, NextTxn(w) PROVE TypeInv'
  <2>0. req[w] \in Local /\ req[w].pc = "next"
    BY <1>6 DEF NextTxn
  <2>1. PICK t \in req[w].todo :
          /\ Candidates(w, t) = {} => req' = [req EXCEPT ![w].todo = @ \ {t}]
          /\ Candidates(w, t) # {} => \E l \in Candidates(w, t) :
                req' = [req EXCEPT ![w].todo = @ \ {t}, ![w].pc = "insert",
                                   ![w].txn = {t}, ![w].line = {l}]
    BY <1>6, Zenon DEF NextTxn
  <2>2. CASE Candidates(w, t) = {}
    <3>1. [req[w] EXCEPT !.todo = @ \ {t}] \in Local
      BY <2>0 DEF Local, Request, Placed
    <3>2. req' = [req EXCEPT ![w].todo = @ \ {t}]
      BY <2>1, <2>2, Zenon
    <3> QED
      BY <1>0, <1>6, <3>1, <3>2 DEF NextTxn, Imported
  <2>3. CASE Candidates(w, t) # {}
    <3>1. PICK l \in Candidates(w, t) :
            req' = [req EXCEPT ![w].todo = @ \ {t}, ![w].pc = "insert",
                               ![w].txn = {t}, ![w].line = {l}]
      BY <2>1, <2>3
    <3>2. l \in Lines /\ t \in Txns
      BY DEF Candidates, UnmatchedLines, Local, Request
    <3>3. [req[w] EXCEPT !.todo = @ \ {t}, !.pc = "insert", !.txn = {t}, !.line = {l}] \in Local
      BY <2>0, <3>2 DEF Local, Request, Placed
    <3> QED
      BY <1>0, <1>6, <3>1, <3>3 DEF NextTxn, Imported
  <2> QED
    BY <2>2, <2>3
<1>7. ASSUME NEW w \in Workers, NextRule(w) PROVE TypeInv'
  <2>1. req[w] \in Local /\ req[w].pc = "next"
    BY <1>7 DEF NextRule
  <2>2. PICK n \in Nat : n = req[w].k + 1 /\ n >= 1
    BY <2>1 DEF Local, Request
  <2>3. [req[w] EXCEPT !.pc = "query", !.k = n] \in Local
    BY <2>1, <2>2 DEF Local, Request, Placed
  <2> QED
    BY <1>0, <1>7, <2>2, <2>3 DEF NextRule, Finish, Imported
<1>8. ASSUME NEW w \in Workers, NEW t \in Txns, NEW l \in Lines, Match(w, t, l) PROVE TypeInv'
  <2>1. [Idle EXCEPT !.op = "match", !.pc = "insert", !.txn = {t}, !.line = {l}] \in Local
    BY DEF Idle, Local, Request, Placed
  <2> QED
    BY <1>0, <1>8, <2>1 DEF Match, Imported
<1>9. ASSUME NEW w \in Workers, NEW i \in Items, Unmatch(w, i) PROVE TypeInv'
  <2>1. [Idle EXCEPT !.op = "unmatch", !.pc = "unflag", !.i = i,
                     !.txn = item[i].txns] \in Local
    BY DEF Idle, Local, Request, Placed, Item
  <2> QED
    BY <1>0, <1>9, <2>1 DEF Unmatch, Imported
<1>10. ASSUME NEW w \in Workers, InsertItem(w) PROVE TypeInv'
  <2>1. PICK i \in Items :
          /\ item' = [item EXCEPT ![i] = [type |-> IF req[w].op = "auto" THEN "auto" ELSE "manual",
                                          txns |-> req[w].txn, lines |-> req[w].line]]
          /\ req' = [req EXCEPT ![w].pc = "flag", ![w].i = i]
    BY <1>10, Zenon DEF InsertItem
  <2>2. req' = [req EXCEPT ![w].pc = "flag", ![w].i = i]
    BY <2>1
  <2>3. req[w].pc = "insert"
    BY <1>10 DEF InsertItem
  <2>4. [req[w] EXCEPT !.pc = "flag", !.i = i] \in Local
    BY <2>3 DEF Local, Request, Placed
  <2>5. item' \in [Items -> Item]
    BY <2>1 DEF Local, Request, Item
  <2> QED
    BY <1>0, <1>10, <2>2, <2>4, <2>5 DEF InsertItem, Imported
<1>11. ASSUME NEW w \in Workers, SaveMatched(w) PROVE TypeInv'
  <2>1. req[w].op = "auto" => [req[w] EXCEPT !.pc = "next"] \in Local
    BY DEF Local, Request, Placed
  <2> QED
    BY <1>0, <1>11, <2>1 DEF SaveMatched, Finish, Imported
<1>12. ASSUME NEW w \in Workers, SaveUnmatched(w) PROVE TypeInv'
  <2>1. req[w].pc = "unflag" => [req[w] EXCEPT !.pc = "delete"] \in Local
    BY DEF Local, Request, Placed
  <2> QED
    BY <1>0, <1>12, <2>1 DEF SaveUnmatched, Imported
<1>13. ASSUME NEW w \in Workers, DeleteItem(w) PROVE TypeInv'
  <2>1. [NoItem EXCEPT !.type = "deleted"] \in Item
    BY DEF NoItem, Item
  <2> QED
    BY <1>0, <1>13, <2>1 DEF DeleteItem, Finish, Imported
<1>14. ASSUME NEW w \in Workers, Crash(w) PROVE TypeInv'
  BY <1>0, <1>14 DEF Crash, Finish, Imported
<1>15. CASE UNCHANGED vars
  BY <1>15 DEF vars, Imported
<1> QED
  BY <1>1, <1>2, <1>3, <1>4, <1>5, <1>6, <1>7, <1>8, <1>9, <1>10, <1>11, <1>12, <1>13, <1>14,
     <1>15 DEF Next

\* Every variable has its type, and a request the local values its statement needs.
THEOREM TypeCorrect == Spec => []TypeOK
<1>1. TypeInv => TypeOK
  BY DEF TypeInv
<1> QED
  BY <1>1, InitTypes, NextTypes, PTL DEF Spec

-----------------------------------------------------------------------------
(* What a step does to the request of its worker and to the tables, pointwise: *)
(* every statement once, for the invariants below.                             *)

Others(w) == \A v \in Workers \ {w} : req'[v] = req[v]

SameTables == matched' = matched /\ item' = item

\* A request is taken; two automatic matches do not overlap, and nobody removes the match
\* of a request that is about to set its flag.
Arrives(w) ==
    LET q == req'[w] IN
    /\ SameTables /\ req[w].pc = "idle"
    /\ \/ q.op = "auto" /\ q.pc = "query" /\ ~AutoIsRunning
       \/ q.op = "match" /\ q.pc = "insert"
       \/ /\ q.op = "unmatch" /\ q.pc = "unflag"
          /\ Live(q.i) /\ ~BeingMade(q.i) /\ q.txn = item[q.i].txns

\* The loops of run_auto_match between two matches.
Looks(w) ==
    LET q == req'[w] IN
    /\ SameTables
    /\ req[w].op = "auto" /\ req[w].pc \in {"query", "next"}
    /\ q.op = "auto"
    /\ \/ q.pc \in {"query", "next"}
       \/ q.pc = "insert" /\ q.line \subseteq UnmatchedLines

Inserts(w) ==
    /\ req[w].pc = "insert" /\ req'[w].pc = "flag"
    /\ req'[w].op = req[w].op /\ req'[w].txn = req[w].txn
    /\ matched' = matched
    /\ LET i == req'[w].i IN
          /\ item[i].type = "none"
          /\ item'[i].type = (IF req[w].op = "auto" THEN "auto" ELSE "manual")
          /\ item'[i].txns = req[w].txn /\ item'[i].lines = req[w].line
          /\ \A j \in Items \ {i} : item'[j] = item[j]

Flags(w) ==
    /\ req[w].pc = "flag" /\ item' = item
    /\ Imported' = Imported
    /\ \A t \in Imported : matched'[t] = (t \in req[w].txn \/ matched[t])
    /\ req'[w] = Idle \/ (req'[w].pc = "next" /\ req'[w].op = req[w].op)

Unflags(w) ==
    /\ req[w].pc = "unflag" /\ req'[w].pc = "delete"
    /\ req'[w].op = req[w].op /\ req'[w].txn = req[w].txn /\ req'[w].i = req[w].i
    /\ item' = item
    /\ Imported' = Imported
    /\ \A t \in Imported : matched'[t] = (t \notin req[w].txn /\ matched[t])

Deletes(w) ==
    /\ req[w].pc = "delete" /\ req'[w] = Idle
    /\ matched' = matched
    /\ item'[req[w].i].type = "deleted"
    /\ item'[req[w].i].txns = {}
    /\ \A j \in Items \ {req[w].i} : item'[j] = item[j]

\* The loops are over, or the request dies.
Ends(w) == SameTables /\ req'[w] = Idle

Effect(w) ==
    /\ Others(w)
    /\ \/ Arrives(w) \/ Looks(w) \/ Inserts(w) \/ Flags(w) \/ Unflags(w) \/ Deletes(w) \/ Ends(w)

\* Rows are imported unmatched, and the period changes its status.
Aside ==
    /\ req' = req /\ item' = item
    /\ \A t \in Imported' : matched'[t] = (t \in Imported /\ matched[t])

LEMMA Effects ==
    ASSUME Bounds, TypeInv, [Next]_vars
    PROVE  Aside \/ \E w \in Workers : Effect(w)
<1> USE DEF TypeInv, TypeOK
<1>0. /\ \A w \in Workers : req[w] \in Local /\ req[w] \in Request
      /\ matched \in [Imported -> BOOLEAN]
  BY DEF Local
<1>1. CASE StartReconciliation \/ CompleteReconciliation \/ UNCHANGED vars
  BY <1>0, <1>1 DEF StartReconciliation, CompleteReconciliation, vars, Aside, Imported
<1>2. ASSUME NEW t \in Txns, ImportRow(t) PROVE Aside
  BY <1>0, <1>2 DEF ImportRow, Aside, Imported
<1>3. ASSUME NEW w \in Workers, AutoMatch(w) PROVE Effect(w)
  BY <1>0, <1>3 DEF AutoMatch, MayStart, Busy, Idle, Effect, Others, Arrives, SameTables
<1>4. ASSUME NEW w \in Workers, QueryTxns(w) PROVE Effect(w)
  <2> DEFINE found == IF req[w].k = 1 THEN UnmatchedTxns ELSE req[w].cache
  <2>1. req' = [req EXCEPT ![w].pc = "next", ![w].todo = found, ![w].cache = found]
    BY <1>4 DEF QueryTxns
  <2>2. req'[w].op = req[w].op /\ req'[w].pc = "next"
    BY <1>0, <2>1 DEF Request
  <2> QED
    BY <1>0, <1>4, <2>1, <2>2
       DEF QueryTxns, Effect, Others, Looks, SameTables, Local, Placed
<1>5. ASSUME NEW w \in Workers, NextTxn(w) PROVE Effect(w)
  <2>1. PICK t \in req[w].todo :
          /\ Candidates(w, t) = {} => req' = [req EXCEPT ![w].todo = @ \ {t}]
          /\ Candidates(w, t) # {} => \E l \in Candidates(w, t) :
                req' = [req EXCEPT ![w].todo = @ \ {t}, ![w].pc = "insert",
                                   ![w].txn = {t}, ![w].line = {l}]
    BY <1>5, Zenon DEF NextTxn
  <2>2. req[w].pc = "next" /\ req[w].op = "auto" /\ req[w] \in Request
    BY <1>0, <1>5 DEF NextTxn, Local, Placed
  <2>3. CASE Candidates(w, t) = {}
    <3>1. req' = [req EXCEPT ![w].todo = @ \ {t}]
      BY <2>1, <2>3, Zenon
    <3> QED
      BY <1>0, <1>5, <2>2, <3>1 DEF NextTxn, Effect, Others, Looks, SameTables, Request
  <2>4. CASE Candidates(w, t) # {}
    <3>1. PICK l \in Candidates(w, t) :
            req' = [req EXCEPT ![w].todo = @ \ {t}, ![w].pc = "insert",
                               ![w].txn = {t}, ![w].line = {l}]
      BY <2>1, <2>4
    <3>2. l \in UnmatchedLines
      BY DEF Candidates
    <3>3. req'[w].op = "auto" /\ req'[w].pc = "insert" /\ req'[w].line = {l}
      BY <2>2, <3>1 DEF Request
    <3> QED
      BY <1>0, <1>5, <2>2, <3>1, <3>2, <3>3 DEF NextTxn, Effect, Others, Looks, SameTables
  <2> QED
    BY <2>3, <2>4
<1>6. ASSUME NEW w \in Workers, NextRule(w) PROVE Effect(w)
  <2>1. req[w].pc = "next" /\ req[w].op = "auto" /\ req[w] \in Request
    BY <1>0, <1>6 DEF NextRule, Local, Placed
  <2>2. CASE req[w].k < Len(rules)
    <3>1. req' = [req EXCEPT ![w].pc = "query", ![w].k = @ + 1]
      BY <1>6, <2>2 DEF NextRule
    <3>2. req'[w].op = "auto" /\ req'[w].pc = "query"
      BY <2>1, <3>1 DEF Request
    <3> QED
      BY <1>0, <1>6, <2>1, <3>1, <3>2 DEF NextRule, Effect, Others, Looks, SameTables
  <2>3. CASE ~(req[w].k < Len(rules))
    BY <1>0, <1>6, <2>3 DEF NextRule, Finish, Effect, Others, Ends, SameTables
  <2> QED
    BY <2>2, <2>3
<1>7. ASSUME NEW w \in Workers, NEW t \in Txns, NEW l \in Lines, Match(w, t, l)
      PROVE  Effect(w)
  BY <1>0, <1>7 DEF Match, MayStart, Busy, Idle, Effect, Others, Arrives, SameTables
<1>8. ASSUME NEW w \in Workers, NEW i \in Items, Unmatch(w, i) PROVE Effect(w)
  BY <1>0, <1>8 DEF Unmatch, MayStart, Busy, Idle, Effect, Others, Arrives, SameTables
<1>9. ASSUME NEW w \in Workers, InsertItem(w) PROVE Effect(w)
  <2>1. PICK i \in Items :
          /\ \A j \in Items : item[j].type = "none" <=> j >= i
          /\ item' = [item EXCEPT ![i] =
                [type |-> IF req[w].op = "auto" THEN "auto" ELSE "manual",
                 txns |-> req[w].txn, lines |-> req[w].line]]
          /\ req' = [req EXCEPT ![w].pc = "flag", ![w].i = i]
    BY <1>9, Zenon DEF InsertItem
  <2>2. item[i].type = "none"
    BY <2>1 DEF Bounds, Items
  <2>3. /\ item'[i].type = (IF req[w].op = "auto" THEN "auto" ELSE "manual")
        /\ item'[i].txns = req[w].txn /\ item'[i].lines = req[w].line
        /\ \A j \in Items \ {i} : item'[j] = item[j]
    BY <2>1
  <2>4. /\ req[w].pc = "insert" /\ req'[w].pc = "flag" /\ req'[w].i = i
        /\ req'[w].op = req[w].op /\ req'[w].txn = req[w].txn
        /\ Others(w)
    BY <1>0, <1>9, <2>1 DEF InsertItem, Others, Request
  <2> QED
    BY <1>9, <2>2, <2>3, <2>4 DEF InsertItem, Effect, Inserts
<1>10. ASSUME NEW w \in Workers, SaveMatched(w) PROVE Effect(w)
  BY <1>0, <1>10 DEF SaveMatched, Finish, Effect, Others, Flags, Imported, Request
<1>11. ASSUME NEW w \in Workers, SaveUnmatched(w) PROVE Effect(w)
  BY <1>0, <1>11 DEF SaveUnmatched, Effect, Others, Unflags, Imported, Request
<1>12. ASSUME NEW w \in Workers, DeleteItem(w) PROVE Effect(w)
  BY <1>0, <1>12 DEF DeleteItem, Finish, NoItem, Effect, Others, Deletes, Local, Placed
<1>13. ASSUME NEW w \in Workers, Crash(w) PROVE Effect(w)
  BY <1>0, <1>13 DEF Crash, Finish, Effect, Others, Ends, SameTables
<1> QED
  BY <1>1, <1>2, <1>3, <1>4, <1>5, <1>6, <1>7, <1>8, <1>9, <1>10, <1>11, <1>12, <1>13 DEF Next

-----------------------------------------------------------------------------
(* Flags.  The item that keeps a transaction marked as matched is one that no  *)
(* request is about to delete: a request that removes a match has taken back   *)
(* the flags of its transactions by then.  What a request is about to flag has *)
(* its item, which no request removes meanwhile.                               *)

Removes(v, i) == req[v].pc \in {"unflag", "delete"} /\ req[v].i = i
Deleting(i) == \E v \in Workers : req[v].pc = "delete" /\ req[v].i = i

Firm(t) == \E i \in ItemsOf(t) : ~Deleting(i)

Made(w) ==
    LET i == req[w].i IN
    /\ i \in Items /\ Live(i) /\ item[i].txns = req[w].txn
    /\ \A v \in Workers : ~Removes(v, i)

Removable(w) == item[req[w].i].type # "none" /\ item[req[w].i].txns \subseteq req[w].txn

FlagInv ==
    /\ \A t \in Imported : matched[t] => Firm(t)
    /\ \A w \in Workers :
          /\ req[w].pc = "flag" => Made(w)
          /\ req[w].pc \in {"unflag", "delete"} => Removable(w)

LEMMA FlagsHold ==
    ASSUME TypeInv, TypeInv', FlagInv, NEW w \in Workers, Effect(w)
    PROVE  FlagInv'
<1>0. /\ \A v \in Workers : Placed(req[v]) /\ Placed(req'[v])
      /\ \A v \in Workers : req[v] \in Request /\ req'[v] \in Request
      /\ \A v \in Workers \ {w} : req'[v] = req[v]
      /\ matched \in [Imported -> BOOLEAN]
  BY DEF TypeInv, TypeOK, Local, Effect, Others
<1>1. Imported' = Imported
  BY DEF Effect, Arrives, Looks, Inserts, Flags, Unflags, Deletes, Ends, SameTables, Imported
\* An item that is not deleted by this step stays as it is.
<1>2. \A i \in Items : item[i].type # "none" /\ ~Deleting(i) => item'[i] = item[i]
  BY <1>0 DEF Effect, Arrives, Looks, Inserts, Flags, Unflags, Deletes, Ends, SameTables, Deleting
<1>3. \A i \in Items : item[i].type # "none" =>
          item'[i].type # "none" /\ item'[i].txns \subseteq item[i].txns
  BY <1>0 DEF Effect, Arrives, Looks, Inserts, Flags, Unflags, Deletes, Ends, SameTables
\* Who removes an item from now on has found it live, and not in the making.
<1>4. ASSUME NEW v \in Workers, NEW i \in Items, Removes(v, i)', ~Removes(v, i)
      PROVE  v = w /\ Arrives(w) /\ Live(i) /\ ~BeingMade(i) /\ item' = item
                /\ req'[w].txn = item[i].txns
  BY <1>0, <1>4 DEF Removes, Effect, Arrives, Looks, Inserts, Flags, Unflags, Deletes, Ends,
     SameTables, Idle
<1>5. ASSUME NEW t \in Imported, matched'[t] PROVE Firm(t)'
  <2>1. PICK i \in Items : /\ Live(i) /\ t \in item[i].txns /\ ~Deleting(i)
                           /\ ~(Unflags(w) /\ req[w].i = i)
    <3>1. CASE Unflags(w)
      <4>1. matched[t] /\ t \notin req[w].txn /\ item[req[w].i].txns \subseteq req[w].txn
        BY <1>5, <3>1 DEF Unflags, FlagInv, Removable
      <4> QED
        BY <4>1 DEF FlagInv, Firm, ItemsOf
    <3>2. CASE Flags(w)
      <4>1. ~Unflags(w)
        BY <3>2 DEF Flags, Unflags
      <4>2. CASE matched[t]
        BY <4>1, <4>2 DEF FlagInv, Firm, ItemsOf
      <4>3. CASE ~matched[t]
        <5>1. t \in req[w].txn /\ Made(w)
          BY <1>5, <3>2, <4>3 DEF Flags, FlagInv
        <5> QED
          BY <4>1, <5>1 DEF Made, Removes, Deleting
      <4> QED
        BY <4>2, <4>3
    <3>3. CASE ~Unflags(w) /\ ~Flags(w)
      <4>1. matched[t]
        BY <1>5, <3>3 DEF Effect, Arrives, Looks, Inserts, Deletes, Ends, SameTables
      <4> QED
        BY <3>3, <4>1 DEF FlagInv, Firm, ItemsOf
    <3> QED
      BY <3>1, <3>2, <3>3
  <2>2. item'[i] = item[i]
    BY <1>2, <2>1 DEF Live
  <2>3. ~Deleting(i)'
    BY <1>0, <2>1 DEF Deleting, Effect, Arrives, Looks, Inserts, Flags, Unflags, Deletes, Ends, Idle
  <2> QED
    BY <2>1, <2>2, <2>3 DEF Firm, ItemsOf, Live
<1>6. ASSUME NEW v \in Workers, req'[v].pc = "flag" PROVE Made(v)'
  <2>1. CASE v = w
    <3>1. Inserts(w)
      BY <1>6, <2>1 DEF Effect, Arrives, Looks, Flags, Unflags, Deletes, Ends, Idle
    <3>2. PICK i \in Items : i = req'[w].i
      BY <1>0, <1>6, <2>1 DEF Placed
    <3>3. /\ item[i].type = "none" /\ item'[i].type \in {"auto", "manual"}
          /\ item'[i].txns = req'[w].txn
      BY <3>1, <3>2 DEF Inserts
    <3>4. \A u \in Workers : ~Removes(u, i)
      BY <3>3 DEF FlagInv, Removes, Removable
    <3>5. \A u \in Workers : ~Removes(u, i)'
      BY <1>4, <3>2, <3>3, <3>4 DEF Live
    <3> QED
      BY <2>1, <3>2, <3>3, <3>5 DEF Made, Live, Removes
  <2>2. CASE v # w
    <3>1. req'[v] = req[v] /\ req[v].pc = "flag" /\ Made(v)
      BY <1>0, <1>6, <2>2 DEF FlagInv
    <3>2. item'[req[v].i] = item[req[v].i]
      BY <1>2, <3>1 DEF Made, Removes, Deleting, Live
    <3>3. \A u \in Workers : ~Removes(u, req[v].i)'
      BY <1>4, <3>1 DEF Made, BeingMade
    <3> QED
      BY <3>1, <3>2, <3>3 DEF Made, Live, Removes
  <2> QED
    BY <2>1, <2>2
<1>7. ASSUME NEW v \in Workers, req'[v].pc \in {"unflag", "delete"} PROVE Removable(v)'
  <2>0. PICK i \in Items : i = req'[v].i
    BY <1>0, <1>7 DEF Placed
  <2>1. Removes(v, i)'
    BY <1>7, <2>0 DEF Removes
  <2>2. CASE Removes(v, i)
    <3>1. req'[v].txn = req[v].txn
      BY <1>0, <1>7, <2>2 DEF Removes, Effect, Arrives, Looks, Inserts, Flags, Unflags, Deletes,
         Ends, Idle
    <3>2. item[i].type # "none" /\ item[i].txns \subseteq req[v].txn
      BY <2>2 DEF FlagInv, Removes, Removable
    <3> QED
      BY <1>3, <2>0, <3>1, <3>2 DEF Removable
  <2>3. CASE ~Removes(v, i)
    BY <1>4, <2>0, <2>1, <2>3 DEF Removable, Live
  <2> QED
    BY <2>2, <2>3
<1> QED
  BY <1>1, <1>5, <1>6, <1>7 DEF FlagInv

LEMMA FlagsHoldAside ==
    ASSUME TypeInv, FlagInv, Aside
    PROVE  FlagInv'
<1>1. \A t \in Imported' : matched'[t] => t \in Imported /\ matched[t]
  BY DEF Aside
<1>2. \A t : Firm(t)' = Firm(t)
  BY DEF Aside, Firm, ItemsOf, Live, Deleting
<1>3. \A w \in Workers : Made(w)' = Made(w) /\ Removable(w)' = Removable(w)
  BY DEF Aside, Made, Removable, Live, Removes
<1>4. req' = req
  BY DEF Aside
<1> QED
  BY <1>1, <1>2, <1>3, <1>4 DEF FlagInv

\* A transaction that is marked as matched has an item, whatever rules there are, however
\* stale the pages are from which users match and unmatch, and wherever a request dies.
THEOREM MatchedHaveItems ==
    ASSUME Bounds
    PROVE  Spec => []MatchedHasItem
<1>1. Init => FlagInv
  BY DEF Init, FlagInv, Idle, Imported
<1>2. TypeInv /\ TypeInv' /\ FlagInv /\ [Next]_vars => FlagInv'
  <2> SUFFICES ASSUME TypeInv, TypeInv', FlagInv, [Next]_vars PROVE FlagInv'
    OBVIOUS
  <2>1. CASE Aside
    BY <2>1, FlagsHoldAside
  <2>2. ASSUME NEW w \in Workers, Effect(w) PROVE FlagInv'
    BY <2>2, FlagsHold
  <2> QED
    BY <2>1, <2>2, Effects
<1>3. FlagInv => MatchedHasItem
  BY DEF FlagInv, Firm, MatchedHasItem
<1> QED
  BY <1>1, <1>2, <1>3, InitTypes, NextTypes, PTL DEF Spec

-----------------------------------------------------------------------------
(* Lines.  There is one automatic match at a time, and the line that it is     *)
(* about to take has no automatic match yet: what users match by hand          *)
(* meanwhile does not count as one.                                            *)

AutosOn(l) == {i \in ItemsOn(l) : item[i].type = "auto"}

LineInv ==
    /\ \A v, w \in Workers : req[v].op = "auto" /\ req[w].op = "auto" => v = w
    /\ \A w \in Workers : req[w].op = "auto" /\ req[w].pc = "insert" =>
          \A l \in req[w].line : AutosOn(l) = {}
    /\ \A l \in Lines : \A i, j \in AutosOn(l) : i = j

LEMMA LinesHold ==
    ASSUME TypeInv, TypeInv', LineInv, NEW w \in Workers, Effect(w)
    PROVE  LineInv'
<1>0. /\ \A v \in Workers : Placed(req[v]) /\ Placed(req'[v])
      /\ \A v \in Workers : req[v].line \subseteq Lines /\ req'[v].line \subseteq Lines
      /\ \A v \in Workers \ {w} : req'[v] = req[v]
  BY DEF TypeInv, TypeOK, Local, Request, Effect, Others
<1>1. \A v, u \in Workers : req'[v].op = "auto" /\ req'[u].op = "auto" => v = u
  <2>1. req'[w].op = "auto" => req[w].op = "auto" \/ ~AutoIsRunning
    BY DEF Effect, Arrives, Looks, Inserts, Flags, Unflags, Deletes, Ends, Idle
  <2> QED
    BY <1>0, <2>1 DEF LineInv, AutoIsRunning
\* Only the automatic match adds one, on its own line.
<1>2. ASSUME NEW l \in Lines, ~(Inserts(w) /\ req[w].op = "auto" /\ l \in req[w].line)
      PROVE  AutosOn(l)' \subseteq AutosOn(l)
  <2>1. CASE Inserts(w)
    <3>1. req[w].op = "auto" => item'[req'[w].i].lines = req[w].line
      BY <2>1 DEF Inserts
    <3>2. req[w].op # "auto" => item'[req'[w].i].type = "manual"
      BY <2>1 DEF Inserts
    <3>3. \A j \in Items \ {req'[w].i} : item'[j] = item[j]
      BY <2>1 DEF Inserts
    <3>4. \A j \in Items : j \in AutosOn(l)' => j # req'[w].i
      BY <1>2, <2>1, <3>1, <3>2 DEF AutosOn, ItemsOn, Live
    <3> QED
      BY <3>3, <3>4 DEF AutosOn, ItemsOn, Live
  <2>2. CASE Deletes(w)
    BY <1>0, <2>2 DEF Deletes, AutosOn, ItemsOn, Live, Placed
  <2>3. CASE item' = item
    BY <2>3 DEF AutosOn, ItemsOn, Live
  <2> QED
    BY <2>1, <2>2, <2>3 DEF Effect, Arrives, Looks, Flags, Unflags, Ends, SameTables
<1>3. ASSUME NEW l \in Lines, NEW i \in AutosOn(l)', NEW j \in AutosOn(l)' PROVE i = j
  <2>1. CASE Inserts(w) /\ req[w].op = "auto" /\ l \in req[w].line
    <3>1. AutosOn(l) = {}
      BY <2>1 DEF LineInv, Inserts
    <3>2. \A k \in Items \ {req'[w].i} : item'[k] = item[k]
      BY <2>1 DEF Inserts
    <3> QED
      BY <3>1, <3>2 DEF AutosOn, ItemsOn, Live
  <2>2. CASE ~(Inserts(w) /\ req[w].op = "auto" /\ l \in req[w].line)
    <3>1. i \in AutosOn(l) /\ j \in AutosOn(l)
      BY <1>2, <2>2
    <3> QED
      BY <3>1 DEF LineInv
  <2> QED
    BY <2>1, <2>2
<1>4. ASSUME NEW v \in Workers, req'[v].op = "auto", req'[v].pc = "insert", NEW l \in req'[v].line
      PROVE  AutosOn(l)' = {}
  <2>1. CASE v = w
    <3>1. SameTables /\ l \in UnmatchedLines
      BY <1>4, <2>1 DEF Effect, Arrives, Looks, Inserts, Flags, Unflags, Deletes, Ends, Idle
    <3> QED
      BY <3>1 DEF SameTables, UnmatchedLines, AutosOn, ItemsOn, Live
  <2>2. CASE v # w
    <3>1. req[v].op = "auto" /\ req[v].pc = "insert" /\ l \in req[v].line /\ l \in Lines
      BY <1>0, <1>4, <2>2
    <3>2. req[w].op # "auto" /\ AutosOn(l) = {}
      BY <2>2, <3>1 DEF LineInv
    <3> QED
      BY <1>2, <3>1, <3>2
  <2> QED
    BY <2>1, <2>2
<1> QED
  BY <1>1, <1>3, <1>4 DEF LineInv

\* No line of the ledger is taken twice by an automatic match, whatever users match and
\* unmatch meanwhile and wherever a request dies.
THEOREM AutosMatchOnce ==
    ASSUME Bounds
    PROVE  Spec => []AutoMatchesOnce
<1>1. Init => LineInv
  BY DEF Init, LineInv, AutosOn, ItemsOn, Live, NoItem, Idle
<1>2. TypeInv /\ TypeInv' /\ LineInv /\ [Next]_vars => LineInv'
  <2> SUFFICES ASSUME TypeInv, TypeInv', LineInv, [Next]_vars PROVE LineInv'
    OBVIOUS
  <2>1. CASE Aside
    BY <2>1 DEF Aside, LineInv, AutosOn, ItemsOn, Live
  <2>2. ASSUME NEW w \in Workers, Effect(w) PROVE LineInv'
    BY <2>2, LinesHold
  <2> QED
    BY <2>1, <2>2, Effects
<1>3. LineInv => AutoMatchesOnce
  BY DEF LineInv, AutoMatchesOnce, AutosOn
<1> QED
  BY <1>1, <1>2, <1>3, InitTypes, NextTypes, PTL DEF Spec
=============================================================================
