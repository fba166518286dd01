------------------------------ MODULE Inventory -------------------------------
(***************************************************************************)
(* apps/inventory: adjustments and scrap of an item, the cost of goods     *)
(* sold out of its cost layers, reorder suggestions and requisitions that  *)
(* become purchase orders, and transfers between warehouses.               *)
(*                                                                         *)
(* No journal entry of this app is given a fiscal period, which the column *)
(* does not allow: posting a goods receipt, a calculation or a cycle count *)
(* fails at its first statement and changes nothing, so the model has none *)
(* of them; an adjustment fails at its last statement.                     *)
(***************************************************************************)
EXTENDS Integers, Sequences, FiniteSets, Sums

CONSTANTS
    Workers,       \* the server processes
    Layers,        \* the item's cost layers, 1..n in the order of their receipt
    Received,      \* the original quantity of each layer
    Adjustments,   \* the quantities an adjustment may be of
    ReorderPoint,  \* the item's
    Suggestions,   \* bound: the reorder suggestions that may be made, 1..n
    Requisitions,  \* bound: the purchase requisitions that may be made
    Transfers,     \* bound: the transfers that may be made
    MaxLines,      \* how many lines a transfer has
    MaxMoves,      \* bound: how many adjustments are entered
    MaxRuns,       \* bound: how many calculations are made
    MaxAborts,     \* bound: how many requests may die half-way
    Offerings      \* sets of kinds of request: in a behaviour, users make those of one set

Sources == Suggestions \cup Requisitions

VARIABLES
    onhand,     \* table Item: quantity_on_hand
    moves,      \* table InventoryTransaction: the adjustments and scraps, in order
    entries,    \* table JournalEntry: how many have been posted for them
    layer,      \* table CostLayer: quantity_on_hand
    used,       \* table COGSEntry: what its rows say they used of each layer
    runs,       \* table COGSCalculation: how many rows
    source,     \* status of each suggestion and requisition
    order,      \* table PurchaseOrder: how many rows were made from each
    transfer,   \* table InventoryTransfer: status
    out, in,    \* table InventoryTransaction: the rows of each line of a transfer
    req, offered, aborts

stock == <<onhand, moves, entries>>
cogs == <<layer, used, runs>>
planning == <<source, order>>
transfers == <<transfer, out, in>>
vars == <<stock, cogs, planning, transfers, req, offered, aborts>>

NoUse == [l \in Layers |-> 0]

Request ==
    [op : {"none", "adjust", "cogs", "generate", "order", "transfer"},
     pc : {"idle", "item", "entry", "load", "layer", "cogs_entry", "check", "suggest",
           "po", "ordered", "out", "in", "complete"},
     d : Sources \cup Transfers \cup {0},
     q : Int,                       \* the quantity entered, or left to consume
     copy : Int,                    \* its local copy of quantity_on_hand
     rows : [Layers -> Nat],        \* its local copies of the layers
     taken : [Layers -> Nat],       \* layers_used
     line : 0..MaxLines]            \* the line of the transfer it works on

Idle == [op |-> "none", pc |-> "idle", d |-> 0, q |-> 0, copy |-> 0, rows |-> NoUse,
         taken |-> NoUse, line |-> 0]

TypeOK ==
    /\ onhand \in Int /\ entries \in Nat /\ Len(moves) <= MaxMoves
    /\ \A i \in DOMAIN moves : moves[i].q \in Int /\ moves[i].scrap \in BOOLEAN
    /\ layer \in [Layers -> Nat] /\ used \in [Layers -> Nat] /\ runs \in 0..MaxRuns
    /\ source \in [Sources -> {"none", "pending", "draft", "submitted", "approved",
                               "dismissed", "rejected", "ordered", "converted"}]
    /\ order \in [Sources -> Nat]
    /\ transfer \in [Transfers -> {"none", "draft", "completed"}]
    /\ out \in [Transfers -> [1..MaxLines -> Nat]]
    /\ in \in [Transfers -> [1..MaxLines -> Nat]]
    /\ req \in [Workers -> Request]
    /\ offered \in Offerings /\ aborts \in Nat

\* The layers are those of the demonstration data: no receipt can be posted.
Init ==
    /\ onhand = ReorderPoint /\ moves = <<>> /\ entries = 0
    /\ layer = Received /\ used = NoUse /\ runs = 0
    /\ source = [s \in Sources |-> "none"]
    /\ order = [s \in Sources |-> 0]
    /\ transfer = [t \in Transfers |-> "none"]
    /\ out = [t \in Transfers |-> [k \in 1..MaxLines |-> 0]] /\ in = out
    /\ req = [w \in Workers |-> Idle]
    /\ offered \in Offerings /\ aborts = 0

-----------------------------------------------------------------------------
At(w, label) == req[w].pc = label
Busy(w) == ~At(w, "idle")
Goto(w, label) == req' = [req EXCEPT ![w].pc = label]
Finish(w) == req' = [req EXCEPT ![w] = Idle]

\* The code locks nothing; users do not make two requests of one of these kinds at once,
\* nor work on one document in two places.
MayStart(w, op, d) ==
    /\ op \in offered
    /\ ~Busy(w)
    /\ op \in {"adjust", "cogs", "generate"} => \A v \in Workers : req[v].op # op
    /\ op \in {"order", "transfer"} => \A v \in Workers : req[v].d # d

-----------------------------------------------------------------------------
(* transaction_adjustment and transaction_scrap. *)

\* The form loads the item; a scrap is entered with its quantity negated.
Adjust(w, q, scrap) ==
    /\ MayStart(w, "adjust", 0)
    /\ Len(moves) < MaxMoves
    /\ scrap => q < 0
    /\ req' = [req EXCEPT ![w] = [Idle EXCEPT !.op = "adjust", !.pc = "item", !.q = q,
                                              !.copy = onhand]]
    /\ moves' = Append(moves, [q |-> q, scrap |-> scrap])
    /\ UNCHANGED <<onhand, entries, cogs, planning, transfers, aborts>>

SaveQuantity(w) ==
    /\ At(w, "item")
    /\ onhand' = req[w].copy + req[w].q
    /\ Goto(w, "entry")
    /\ UNCHANGED <<moves, entries, cogs, planning, transfers, aborts>>

\* The INSERT lacks the fiscal period: the response is a 500 and nothing is posted.
EntryFails(w) ==
    /\ At(w, "entry")
    /\ Finish(w)
    /\ UNCHANGED <<stock, cogs, planning, transfers, aborts>>

-----------------------------------------------------------------------------
(* cogs_calculate, by the FIFO and LIFO methods. *)

Scrapped == -SumOf([i \in DOMAIN moves |-> IF moves[i].scrap THEN moves[i].q ELSE 0])

\* The calculation is inserted; its issues are all that was scrapped in the period,
\* whatever an earlier calculation of the period has counted.
Calculate(w) ==
    /\ MayStart(w, "cogs", 0)
    /\ runs < MaxRuns
    /\ runs' = runs + 1
    /\ Scrapped > 0 =>
          req' = [req EXCEPT ![w] = [Idle EXCEPT !.op = "cogs", !.pc = "load", !.q = Scrapped]]
    /\ Scrapped = 0 => UNCHANGED req
    /\ UNCHANGED <<stock, layer, used, planning, transfers, aborts>>

\* for layer in layers: the queryset loads all of them.
LoadLayers(w) ==
    /\ At(w, "load")
    /\ req' = [req EXCEPT ![w].rows = layer, ![w].pc = "layer"]
    /\ UNCHANGED <<stock, cogs, planning, transfers, aborts>>

\* The layers that are next in one of the two orders; of two layers, the first that is
\* taken decides on the order.
NextLayers(w) ==
    LET left == {l \in Layers : req[w].rows[l] > 0} IN
    {l \in left : (\A k \in left : l <= k) \/ (\A k \in left : l >= k)}

\* Mutant: all that remains is taken, whatever the layer has.
ConsumeAll(w) ==
    /\ At(w, "layer")
    /\ req[w].q > 0
    /\ \E l \in NextLayers(w) :
          /\ layer' = [layer EXCEPT ![l] = req[w].rows[l] - req[w].q]
          /\ req' = [req EXCEPT ![w].q = 0, ![w].taken[l] = @ + req[w].q]
    /\ UNCHANGED <<stock, used, runs, planning, transfers, aborts>>

\* The quantity taken from the local copy of the layer, which is then saved.
ConsumeLayer(w) ==
    /\ At(w, "layer")
    /\ req[w].q > 0
    /\ \E l \in NextLayers(w) :
          LET some == IF req[w].rows[l] < req[w].q THEN req[w].rows[l] ELSE req[w].q IN
          /\ layer' = [layer EXCEPT ![l] = req[w].rows[l] - some]
          /\ req' = [req EXCEPT ![w].q = @ - some, ![w].rows[l] = @ - some,
                                ![w].taken[l] = @ + some]
    /\ UNCHANGED <<stock, used, runs, planning, transfers, aborts>>

\* The loop ends when nothing remains, or silently when the layers run out.
EndLoop(w) ==
    /\ At(w, "layer")
    /\ req[w].q = 0 \/ \A l \in Layers : req[w].rows[l] = 0
    /\ Goto(w, "cogs_entry")
    /\ UNCHANGED <<stock, cogs, planning, transfers, aborts>>

\* Mutant: layers_used is overwritten instead of appended to.
SaveLastLayer(w) ==
    /\ At(w, "cogs_entry")
    /\ \E l \in Layers :
          /\ req[w].taken[l] > 0
          /\ used' = [used EXCEPT ![l] = @ + req[w].taken[l]]
    /\ Finish(w)
    /\ UNCHANGED <<stock, layer, runs, planning, transfers, aborts>>

SaveCogsEntry(w) ==
    /\ At(w, "cogs_entry")
    /\ used' = [l \in Layers |-> used[l] + req[w].taken[l]]
    /\ Finish(w)
    /\ UNCHANGED <<stock, layer, runs, planning, transfers, aborts>>

-----------------------------------------------------------------------------
(* Reorder suggestions and requisitions. *)

Generate(w) ==
    /\ MayStart(w, "generate", 0)
    /\ req' = [req EXCEPT ![w] = [Idle EXCEPT !.op = "generate", !.pc = "check",
                                              !.copy = onhand]]
    /\ UNCHANGED <<stock, cogs, planning, transfers, aborts>>

Pending(st) == st = "pending"

CheckPending(w) ==
    /\ At(w, "check")
    /\ IF req[w].copy <= ReorderPoint /\ \A s \in Suggestions : ~Pending(source[s])
       THEN Goto(w, "suggest") ELSE Finish(w)
    /\ UNCHANGED <<stock, cogs, planning, transfers, aborts>>

InsertSuggestion(w) ==
    /\ At(w, "suggest")
    /\ \E s \in Suggestions :
          /\ \A r \in Suggestions : source[r] = "none" <=> r >= s
          /\ source' = [source EXCEPT ![s] = "pending"]
    /\ Finish(w)
    /\ UNCHANGED <<stock, cogs, order, transfers, aborts>>

SourceMoves == {<<"pending", "approved">>, <<"pending", "dismissed">>, <<"draft", "submitted">>,
                <<"submitted", "approved">>, <<"submitted", "rejected">>}

\* The statuses one UPDATE changes, the form that enters a requisition, and the vendor of
\* a suggestion, which must be there for it to be ordered and is taken to be given.
ChangeSource(s, to) ==
    /\ "order" \in offered
    /\ \A w \in Workers : req[w].d # s
    /\ <<source[s], to>> \in SourceMoves \/ (s \in Requisitions /\ source[s] = "none" /\ to = "draft")
    /\ source' = [source EXCEPT ![s] = to]
    /\ UNCHANGED <<stock, cogs, order, transfers, req, aborts>>

\* reorder_create_po and requisition_convert.
Order(w, s) ==
    /\ MayStart(w, "order", s)
    /\ source[s] = "approved"
    /\ req' = [req EXCEPT ![w] = [Idle EXCEPT !.op = "order", !.pc = "po", !.d = s]]
    /\ UNCHANGED <<stock, cogs, planning, transfers, aborts>>

\* The order and then its lines and total, which no other request reads before.
InsertOrder(w) ==
    /\ At(w, "po")
    /\ order' = [order EXCEPT ![req[w].d] = @ + 1]
    /\ Goto(w, "ordered")
    /\ UNCHANGED <<stock, cogs, source, transfers, aborts>>

SaveSource(w) ==
    /\ At(w, "ordered")
    /\ source' = [source EXCEPT ![req[w].d] =
                     IF req[w].d \in Suggestions THEN "ordered" ELSE "converted"]
    /\ Finish(w)
    /\ UNCHANGED <<stock, cogs, order, transfers, aborts>>

-----------------------------------------------------------------------------
(* Transfers. *)

CreateTransfer(t) ==
    /\ "transfer" \in offered
    /\ transfer[t] = "none"
    /\ transfer' = [transfer EXCEPT ![t] = "draft"]
    /\ UNCHANGED <<stock, cogs, planning, out, in, req, aborts>>

CompleteTransfer(w, t) ==
    /\ MayStart(w, "transfer", t)
    /\ transfer[t] = "draft"
    /\ req' = [req EXCEPT ![w] = [Idle EXCEPT !.op = "transfer", !.pc = "out", !.d = t,
                                              !.line = 1]]
    /\ UNCHANGED <<stock, cogs, planning, transfers, aborts>>

TakeOut(w) ==
    /\ At(w, "out")
    /\ out' = [out EXCEPT ![req[w].d][req[w].line] = @ + 1]
    /\ Goto(w, "in")
    /\ UNCHANGED <<stock, cogs, planning, transfer, in, aborts>>

\* Mutant: the transfer is completed after its first line.
PutOneIn(w) ==
    /\ At(w, "in")
    /\ in' = [in EXCEPT ![req[w].d][req[w].line] = @ + 1]
    /\ Goto(w, "complete")
    /\ UNCHANGED <<stock, cogs, planning, transfer, out, aborts>>

PutIn(w) ==
    /\ At(w, "in")
    /\ in' = [in EXCEPT ![req[w].d][req[w].line] = @ + 1]
    /\ req' = [req EXCEPT ![w].line = IF @ < MaxLines THEN @ + 1 ELSE 0,
                          ![w].pc = IF req[w].line < MaxLines THEN "out" ELSE "complete"]
    /\ UNCHANGED <<stock, cogs, planning, transfer, out, aborts>>

SaveTransfer(w) ==
    /\ At(w, "complete")
    /\ transfer' = [transfer EXCEPT ![req[w].d] = "completed"]
    /\ Finish(w)
    /\ UNCHANGED <<stock, cogs, planning, out, in, aborts>>

-----------------------------------------------------------------------------
Crash(w) ==
    /\ Busy(w) /\ aborts < MaxAborts
    /\ aborts' = aborts + 1
    /\ Finish(w)
    /\ UNCHANGED <<stock, cogs, planning, transfers>>

Continue(w) ==
    \/ SaveQuantity(w) \/ EntryFails(w)
    \/ LoadLayers(w) \/ ConsumeLayer(w) \/ EndLoop(w) \/ SaveCogsEntry(w)
    \/ CheckPending(w) \/ InsertSuggestion(w) \/ InsertOrder(w) \/ SaveSource(w)
    \/ TakeOut(w) \/ PutIn(w) \/ SaveTransfer(w)

Step ==
    \/ \E s \in Sources, to \in {"draft", "submitted", "approved", "dismissed", "rejected"} :
          ChangeSource(s, to)
    \/ \E t \in Transfers : CreateTransfer(t)
    \/ \E w \in Workers :
          \/ \E q \in Adjustments, scrap \in BOOLEAN : Adjust(w, q, scrap)
          \/ Calculate(w) \/ Generate(w)
          \/ \E s \in Sources : Order(w, s)
          \/ \E t \in Transfers : CompleteTransfer(w, t)
          \/ Continue(w) \/ Crash(w)

Next == Step /\ UNCHANGED offered

Spec == Init /\ [][Next]_vars

-----------------------------------------------------------------------------
(* Properties. *)

Quiet(op) == \A w \in Workers : req[w].op # op

\* README.md:1598: an inventory transaction has a "GL journal entry for adjustments":
\* when no request is under way and none has died, there is one for each.
AdjustmentInLedger ==
    aborts = 0 /\ Quiet("adjust") => entries = Len(moves)

\* The stock is what the item started with and its adjustments and scraps, although
\* every one of their requests ends with an error.
StockIsMoves ==
    aborts = 0 /\ Quiet("adjust") =>
        onhand = ReorderPoint + SumOf([i \in DOMAIN moves |-> moves[i].q])

\* What is gone from a layer is what the entries of the calculations used of it.
UseIsRecorded ==
    aborts = 0 /\ Quiet("cogs") => \A l \in Layers : layer[l] + used[l] = Received[l]

\* An item has one pending suggestion, and a suggestion or requisition becomes one
\* purchase order; more than one only after a request that died.
OrderedOnce ==
    /\ Cardinality({s \in Suggestions : source[s] = "pending"}) <= 1
    /\ \A s \in Sources :
          /\ order[s] <= 1 + aborts
          /\ source[s] \in {"ordered", "converted"} => order[s] >= 1

\* A completed transfer has taken out and put in each of its lines, more than once only
\* after a request that died.
TransferMovesAll ==
    \A t \in Transfers : transfer[t] = "completed" => \A k \in 1..MaxLines :
        out[t][k] \in 1..1 + aborts /\ in[t][k] \in 1..1 + aborts
=============================================================================
