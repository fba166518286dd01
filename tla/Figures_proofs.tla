---------------------------- MODULE Figures_proofs ----------------------------
(***************************************************************************)
(* Theorems about the components of MCOperations that count and add up:    *)
(* stock, entities, payroll, projects and taxes.                           *)
(***************************************************************************)
EXTENDS MCOperations, Sums_proofs, SequenceTheorems

-----------------------------------------------------------------------------
(* Stock.  The invariant has a part for each of the four things that requests are  *)
(* about: movements, cost layers, purchase orders and transfers.  A request of one *)
(* kind leaves the tables of the others alone.                                     *)

LEMMA StockBehaves == Operations => Stock!Spec
<1>1. Start => Stock!Init
  BY DEF Start
<1>2. [Step]_allVars => [Stock!Next]_(Stock!vars)
  <2>1. StepStock => Stock!Next
    BY DEF StepStock
  <2>2. Step => StepStock \/ UNCHANGED stockVars
    BY DEF Step, StepBank, StepEntities, StepAssets, StepTaxes, StepRecurring,
       StepPlans, StepPayroll, StepProjects, StepRecords, StepPeople
  <2>3. UNCHANGED allVars => UNCHANGED stockVars
    BY DEF allVars
  <2>4. UNCHANGED stockVars => UNCHANGED Stock!vars
    BY DEF stockVars, Stock!vars, Stock!stock, Stock!cogs, Stock!planning, Stock!transfers
  <2> QED BY <2>1, <2>2, <2>3, <2>4
<1> QED BY <1>1, <1>2, PTL DEF Operations, Stock!Spec

\* The instance has copies of its own of the operators of the library.
LEMMA SameStockSum == \A g : Stock!SumOf(g) = SumOf(g)
  BY DEF Stock!SumOf, Stock!MapThenSumSet, Stock!MapThenFoldSet,
     SumOf, MapThenSumSet, MapThenFoldSet

LEMMA SameStockCount == \A S : Stock!Cardinality(S) = Cardinality(S)
  BY DEF Stock!Cardinality, Cardinality

\* What the constants of stock are.
StockConstants ==
    /\ Received \in [Layers -> Nat] /\ ReorderPoint \in Int /\ Adjustments \subseteq Int
    /\ Suggestions \subseteq Nat /\ MaxLines \in Nat \ {0}
    /\ MaxMoves \in Nat /\ MaxRuns \in Nat

MoveLabels == {"item", "entry"}
CogsLabels == {"load", "layer", "cogs_entry"}
PlanLabels == {"check", "suggest"}
OrderLabels == {"po", "ordered"}
TransferLabels == {"out", "in", "complete"}

\* Which labels a request comes to, and the document it has by then.
StockPlaced(q) ==
    /\ q.pc = "idle" => q = Stock!Idle
    /\ q.pc \in MoveLabels <=> q.op = "adjust"
    /\ q.pc \in CogsLabels <=> q.op = "cogs"
    /\ q.pc \in PlanLabels <=> q.op = "generate"
    /\ q.pc \in OrderLabels <=> q.op = "order"
    /\ q.pc \in TransferLabels <=> q.op = "transfer"
    /\ IF q.op \in {"order", "transfer"} THEN q.d # 0 ELSE q.d = 0
    /\ q.op = "order" => q.d \in Stock!Sources
    /\ q.op = "transfer" => q.d \in StockTransfers
    /\ q.pc \in {"out", "in"} => q.line \in 1..MaxLines
    /\ q.op = "cogs" => q.q \in Nat

MoveRow == [q : Int, scrap : BOOLEAN]

StockTypeInv ==
    /\ Stock!TypeOK
    /\ moves \in Seq(MoveRow)
    /\ \A i \in DOMAIN moves : moves[i].scrap => moves[i].q < 0
    /\ \A w \in Workers : StockPlaced(inv_req[w])

\* MayStart: no two requests of one of three kinds, nor on one document.
StockApart ==
    \A v, w \in Workers : v # w =>
        /\ inv_req[v].op \in {"adjust", "cogs", "generate"} => inv_req[w].op # inv_req[v].op
        /\ inv_req[v].d # 0 => inv_req[w].d # inv_req[v].d

\* What the types say of the local values of one worker.
LEMMA StockLocal ==
    ASSUME StockTypeInv, NEW w \in Workers
    PROVE  /\ inv_req[w] \in Stock!Request /\ StockPlaced(inv_req[w])
           /\ inv_req[w].q \in Int /\ inv_req[w].copy \in Int
           /\ inv_req[w].rows \in [Layers -> Nat] /\ inv_req[w].taken \in [Layers -> Nat]
           /\ inv_req[w].line \in 0..MaxLines
           /\ inv_req[w].d \in Stock!Sources \cup StockTransfers \cup {0}
  BY DEF StockTypeInv, Stock!TypeOK, Stock!Request

LEMMA StockIdle ==
    ASSUME StockConstants
    PROVE  Stock!Idle \in Stock!Request /\ StockPlaced(Stock!Idle)
  BY DEF StockConstants, Stock!Idle, Stock!Request, Stock!NoUse, StockPlaced, MoveLabels,
     CogsLabels, PlanLabels, OrderLabels, TransferLabels

\* A step of one worker keeps the types if its new local values and the tables have them.
StockTables ==
    /\ onhand' \in Int /\ entries' \in Nat
    /\ layer' \in [Layers -> Nat] /\ used' \in [Layers -> Nat] /\ runs' \in 0..MaxRuns
    /\ source' \in [Stock!Sources -> {"none", "pending", "draft", "submitted", "approved",
                                     "dismissed", "rejected", "ordered", "converted"}]
    /\ order' \in [Stock!Sources -> Nat]
    /\ stock_transfer' \in [StockTransfers -> {"none", "draft", "completed"}]
    /\ out' \in [StockTransfers -> [1..MaxLines -> Nat]]
    /\ in' \in [StockTransfers -> [1..MaxLines -> Nat]]
    /\ inv_offered' \in StockOfferings /\ inv_aborts' \in Nat

LEMMA StockLocalStep ==
    ASSUME StockTypeInv, NEW w \in Workers, NEW q \in Stock!Request, StockPlaced(q),
           inv_req' = [inv_req EXCEPT ![w] = q], StockTables, UNCHANGED moves
    PROVE  StockTypeInv'
<1>1. inv_req' \in [Workers -> Stock!Request]
  BY DEF StockTypeInv, Stock!TypeOK
<1>2. \A v \in Workers : StockPlaced(inv_req'[v])
  BY DEF StockTypeInv, Stock!TypeOK
<1>3. Stock!TypeOK'
  BY <1>1 DEF StockTables, StockTypeInv, Stock!TypeOK
<1> QED BY <1>2, <1>3 DEF StockTypeInv

\* What a calculation counts as issued is a number.
LEMMA ScrappedIsNumber == StockTypeInv => Stock!Scrapped \in Nat
<1> SUFFICES ASSUME StockTypeInv PROVE Stock!Scrapped \in Nat
  OBVIOUS
<1> DEFINE S == DOMAIN moves
           g == [i \in S |-> IF moves[i].scrap THEN moves[i].q ELSE 0]
<1>1. IsFiniteSet(S)
  <2>1. S = 1..Len(moves) /\ Len(moves) \in Nat
    BY DEF StockTypeInv
  <2> QED BY <2>1, FS_Interval
<1>2. \A i \in S : moves[i] \in MoveRow /\ (moves[i].scrap => moves[i].q < 0)
  BY DEF StockTypeInv
<1>3. g \in [S -> Int] /\ \A i \in S : g[i] <= 0
  BY <1>2 DEF MoveRow
<1>4. Stock!Scrapped = -SumOf(g)
  BY SameStockSum DEF Stock!Scrapped
<1> HIDE DEF S, g
<1> QED BY <1>1, <1>3, <1>4, SumNegative

\* One more row of a line of a transfer.
LEMMA CountsCount ==
    ASSUME NEW D, NEW K, NEW f \in [D -> [K -> Nat]], NEW d \in D, NEW k \in K
    PROVE  /\ [f EXCEPT ![d][k] = @ + 1] \in [D -> [K -> Nat]]
           /\ \A e \in D, j \in K :
                 [f EXCEPT ![d][k] = @ + 1][e][j] = IF e = d /\ j = k THEN f[e][j] + 1 ELSE f[e][j]
  OBVIOUS

LEMMA StockTypeStep ==
    ASSUME StockConstants, StockTypeInv, Stock!Next
    PROVE  StockTypeInv'
<1> USE DEF StockPlaced, MoveLabels, CogsLabels, PlanLabels, OrderLabels, TransferLabels
<1>t. /\ onhand \in Int /\ entries \in Nat
      /\ layer \in [Layers -> Nat] /\ used \in [Layers -> Nat] /\ runs \in 0..MaxRuns
      /\ source \in [Stock!Sources -> {"none", "pending", "draft", "submitted", "approved",
                                       "dismissed", "rejected", "ordered", "converted"}]
      /\ order \in [Stock!Sources -> Nat]
      /\ stock_transfer \in [StockTransfers -> {"none", "draft", "completed"}]
      /\ out \in [StockTransfers -> [1..MaxLines -> Nat]]
      /\ in \in [StockTransfers -> [1..MaxLines -> Nat]]
      /\ inv_offered \in StockOfferings /\ inv_aborts \in Nat
  BY DEF StockTypeInv, Stock!TypeOK
<1>c. inv_offered' = inv_offered /\ Stock!Step
  BY DEF Stock!Next
<1> USE DEF Stock!stock, Stock!cogs, Stock!planning, Stock!transfers
<1>1. ASSUME NEW s \in Stock!Sources,
             NEW to \in {"draft", "submitted", "approved", "dismissed", "rejected"},
             Stock!ChangeSource(s, to)
      PROVE  StockTypeInv'
  BY <1>1, <1>t, <1>c DEF Stock!ChangeSource, StockTypeInv, Stock!TypeOK
<1>2. ASSUME NEW t \in StockTransfers, Stock!CreateTransfer(t)
      PROVE  StockTypeInv'
  BY <1>2, <1>t, <1>c DEF Stock!CreateTransfer, StockTypeInv, Stock!TypeOK
<1>3. ASSUME NEW w \in Workers, NEW n \in Adjustments, NEW scrap \in BOOLEAN,
             Stock!Adjust(w, n, scrap)
      PROVE  StockTypeInv'
  <2> DEFINE q == [Stock!Idle EXCEPT !.op = "adjust", !.pc = "item", !.q = n, !.copy = onhand]
             row == [q |-> n, scrap |-> scrap]
  <2>1. q \in Stock!Request /\ StockPlaced(q)
    BY <1>t, StockIdle DEF StockConstants, Stock!Request, Stock!Idle
  <2>2. row \in MoveRow /\ (row.scrap => row.q < 0)
    BY <1>3 DEF Stock!Adjust, MoveRow, StockConstants
  <2>3. /\ inv_req' = [inv_req EXCEPT ![w] = q] /\ moves' = Append(moves, row)
        /\ Len(moves) < MaxMoves
    BY <1>3 DEF Stock!Adjust
  <2>4. moves \in Seq(MoveRow) /\ \A i \in DOMAIN moves : moves[i].scrap => moves[i].q < 0
    BY DEF StockTypeInv
  <2> HIDE DEF row, q
  <2>5. /\ moves' \in Seq(MoveRow) /\ Len(moves') <= MaxMoves
        /\ DOMAIN moves' = 1..Len(moves) + 1
        /\ \A i \in 1..Len(moves) : moves'[i] = moves[i]
        /\ moves'[Len(moves) + 1] = row
    BY <2>2, <2>3, <2>4 DEF StockConstants
  <2>6. \A i \in DOMAIN moves' : moves'[i] \in MoveRow /\ (moves'[i].scrap => moves'[i].q < 0)
    BY <2>2, <2>4, <2>5
  <2>7. StockTables
    BY <1>3, <1>t, <1>c DEF Stock!Adjust, StockTables
  <2>8. inv_req' \in [Workers -> Stock!Request] /\ \A v \in Workers : StockPlaced(inv_req'[v])
    BY <2>1, <2>3 DEF StockTypeInv, Stock!TypeOK
  <2>9. Stock!TypeOK'
    BY <2>5, <2>6, <2>7, <2>8 DEF Stock!TypeOK, StockTables, MoveRow
  <2> QED BY <2>5, <2>6, <2>8, <2>9 DEF StockTypeInv
<1>4. ASSUME NEW w \in Workers, Stock!SaveQuantity(w)
      PROVE  StockTypeInv'
  <2> DEFINE q == [inv_req[w] EXCEPT !.pc = "entry"]
  <2>1. q \in Stock!Request /\ StockPlaced(q)
    BY <1>4, <1>t, StockLocal, StockIdle DEF Stock!SaveQuantity, Stock!MayStart, Stock!At, Stock!Busy,
       StockConstants, Stock!Request, Stock!Idle, Stock!Sources
  <2>2. inv_req' = [inv_req EXCEPT ![w] = q] /\ UNCHANGED moves
    BY <1>4 DEF Stock!SaveQuantity, Stock!Goto, Stock!Finish
  <2>3. StockTables
    BY <1>4, <1>t, <1>c, StockLocal DEF Stock!SaveQuantity, StockTables, Stock!At
  <2> QED BY <2>1, <2>2, <2>3, StockLocalStep
<1>5. ASSUME NEW w \in Workers, Stock!EntryFails(w)
      PROVE  StockTypeInv'
  <2> DEFINE q == Stock!Idle
  <2>1. q \in Stock!Request /\ StockPlaced(q)
    BY <1>5, <1>t, StockLocal, StockIdle DEF Stock!EntryFails, Stock!MayStart, Stock!At, Stock!Busy,
       StockConstants, Stock!Request, Stock!Idle, Stock!Sources
  <2>2. inv_req' = [inv_req EXCEPT ![w] = q] /\ UNCHANGED moves
    BY <1>5 DEF Stock!EntryFails, Stock!Goto, Stock!Finish
  <2>3. StockTables
    BY <1>5, <1>t, <1>c, StockLocal DEF Stock!EntryFails, StockTables, Stock!At
  <2> QED BY <2>1, <2>2, <2>3, StockLocalStep
<1>6. ASSUME NEW w \in Workers, Stock!Calculate(w)
      PROVE  StockTypeInv'
  <2>1. PICK n \in Nat : n = Stock!Scrapped
    BY ScrappedIsNumber
  <2> DEFINE q == [Stock!Idle EXCEPT !.op = "cogs", !.pc = "load", !.q = n]
  <2>2. q \in Stock!Request /\ StockPlaced(q)
    <3>1. q \in Stock!Request
      <4>1. n \in Int
        OBVIOUS
      <4> QED BY <4>1, StockIdle DEF Stock!Request
    <3>2. q.op = "cogs" /\ q.pc = "load" /\ q.q = n /\ q.d = 0
      BY DEF Stock!Idle
    <3> HIDE DEF q
    <3> QED BY <3>1, <3>2
  <2>3. UNCHANGED moves /\ (inv_req' = [inv_req EXCEPT ![w] = q] \/ inv_req' = inv_req)
    BY <1>6, <2>1 DEF Stock!Calculate
  <2>4. StockTables
    BY <1>6, <1>t, <1>c DEF Stock!Calculate, StockTables, StockConstants
  <2>5. CASE inv_req' = [inv_req EXCEPT ![w] = q]
    BY <2>2, <2>3, <2>4, <2>5, StockLocalStep
  <2>6. CASE inv_req' = inv_req
    BY <2>3, <2>4, <2>6 DEF StockTables, StockTypeInv, Stock!TypeOK
  <2> QED BY <2>3, <2>5, <2>6
<1>7. ASSUME NEW w \in Workers, Stock!LoadLayers(w)
      PROVE  StockTypeInv'
  <2> DEFINE q == [inv_req[w] EXCEPT !.rows = layer, !.pc = "layer"]
  <2>1. q \in Stock!Request /\ StockPlaced(q)
    BY <1>7, <1>t, StockLocal, StockIdle DEF Stock!LoadLayers, Stock!MayStart, Stock!At, Stock!Busy,
       StockConstants, Stock!Request, Stock!Idle, Stock!Sources
  <2>2. inv_req' = [inv_req EXCEPT ![w] = q] /\ UNCHANGED moves
    BY <1>7 DEF Stock!LoadLayers, Stock!Goto, Stock!Finish
  <2>3. StockTables
    BY <1>7, <1>t, <1>c, StockLocal DEF Stock!LoadLayers, StockTables, Stock!At
  <2> QED BY <2>1, <2>2, <2>3, StockLocalStep
<1>8. ASSUME NEW w \in Workers, Stock!ConsumeLayer(w)
      PROVE  StockTypeInv'
  <2>1. PICK l \in Stock!NextLayers(w) :
           LET some == IF inv_req[w].rows[l] < inv_req[w].q
                       THEN inv_req[w].rows[l] ELSE inv_req[w].q IN
           /\ layer' = [layer EXCEPT ![l] = inv_req[w].rows[l] - some]
           /\ inv_req' = [inv_req EXCEPT ![w].q = @ - some, ![w].rows[l] = @ - some,
                                         ![w].taken[l] = @ + some]
    BY <1>8, Zenon DEF Stock!ConsumeLayer
  <2>2. /\ inv_req[w].pc = "layer" /\ inv_req[w].q \in Nat /\ l \in Layers
        /\ inv_req[w].op = "cogs" /\ inv_req[w].d = 0
        /\ inv_req[w].rows[l] \in Nat /\ inv_req[w].taken[l] \in Nat
    BY <1>8, StockLocal DEF Stock!ConsumeLayer, Stock!At, Stock!NextLayers
  <2>3. PICK some \in Nat : some = IF inv_req[w].rows[l] < inv_req[w].q
                                   THEN inv_req[w].rows[l] ELSE inv_req[w].q
    BY <2>2
  <2>4. PICK left \in Nat, rest \in Nat, all \in Nat :
           /\ left = inv_req[w].q - some /\ rest = inv_req[w].rows[l] - some
           /\ all = inv_req[w].taken[l] + some
    BY <2>2, <2>3
  <2>5. PICK r \in [Layers -> Nat], t \in [Layers -> Nat] :
           r = [inv_req[w].rows EXCEPT ![l] = rest] /\ t = [inv_req[w].taken EXCEPT ![l] = all]
    BY StockLocal
  <2> DEFINE q == [inv_req[w] EXCEPT !.q = left, !.rows = r, !.taken = t]
  <2>6. q \in Stock!Request /\ StockPlaced(q)
    <3>1. q \in Stock!Request
      <4>1. left \in Int /\ inv_req[w] \in Stock!Request
        BY StockLocal
      <4> QED BY <4>1 DEF Stock!Request
    <3>2. q.op = "cogs" /\ q.pc = "layer" /\ q.q = left /\ q.d = 0
      BY <2>2, StockLocal DEF Stock!Request
    <3> HIDE DEF q
    <3> QED BY <3>1, <3>2
  <2>7. inv_req' = [inv_req EXCEPT ![w].q = @ - some, ![w].rows[l] = @ - some,
                                  ![w].taken[l] = @ + some]
    BY <2>1, <2>3, Zenon
  <2>8. inv_req' = [inv_req EXCEPT ![w] = q]
    <3>1. inv_req' = [inv_req EXCEPT ![w] = [inv_req[w] EXCEPT !.q = inv_req[w].q - some,
                        !.rows = [inv_req[w].rows EXCEPT ![l] = inv_req[w].rows[l] - some],
                        !.taken = [inv_req[w].taken EXCEPT ![l] = inv_req[w].taken[l] + some]]]
      BY <2>7, Zenon
    <3> QED BY <2>4, <2>5, <3>1, Zenon
  <2>9. layer' = [layer EXCEPT ![l] = rest]
    BY <2>1, <2>3, <2>4
  <2>10. StockTables /\ UNCHANGED moves
    BY <1>8, <2>9, <2>2, <1>t, <1>c DEF Stock!ConsumeLayer, StockTables
  <2> QED BY <2>6, <2>8, <2>10, StockLocalStep
<1>9. ASSUME NEW w \in Workers, Stock!EndLoop(w)
      PROVE  StockTypeInv'
  <2> DEFINE q == [inv_req[w] EXCEPT !.pc = "cogs_entry"]
  <2>1. q \in Stock!Request /\ StockPlaced(q)
    BY <1>9, <1>t, StockLocal, StockIdle DEF Stock!EndLoop, Stock!MayStart, Stock!At, Stock!Busy,
       StockConstants, Stock!Request, Stock!Idle, Stock!Sources
  <2>2. inv_req' = [inv_req EXCEPT ![w] = q] /\ UNCHANGED moves
    BY <1>9 DEF Stock!EndLoop, Stock!Goto, Stock!Finish
  <2>3. StockTables
    BY <1>9, <1>t, <1>c, StockLocal DEF Stock!EndLoop, StockTables, Stock!At
  <2> QED BY <2>1, <2>2, <2>3, StockLocalStep
<1>10. ASSUME NEW w \in Workers, Stock!SaveCogsEntry(w)
      PROVE  StockTypeInv'
  <2> DEFINE q == Stock!Idle
  <2>1. q \in Stock!Request /\ StockPlaced(q)
    BY <1>10, <1>t, StockLocal, StockIdle DEF Stock!SaveCogsEntry, Stock!MayStart, Stock!At, Stock!Busy,
       StockConstants, Stock!Request, Stock!Idle, Stock!Sources
  <2>2. inv_req' = [inv_req EXCEPT ![w] = q] /\ UNCHANGED moves
    BY <1>10 DEF Stock!SaveCogsEntry, Stock!Goto, Stock!Finish
  <2>3. StockTables
    BY <1>10, <1>t, <1>c, StockLocal DEF Stock!SaveCogsEntry, StockTables, Stock!At
  <2> QED BY <2>1, <2>2, <2>3, StockLocalStep
<1>11. ASSUME NEW w \in Workers, Stock!Generate(w)
      PROVE  StockTypeInv'
  <2> DEFINE q == [Stock!Idle EXCEPT !.op = "generate", !.pc = "check", !.copy = onhand]
  <2>1. q \in Stock!Request /\ StockPlaced(q)
    BY <1>11, <1>t, StockLocal, StockIdle DEF Stock!Generate, Stock!MayStart, Stock!At, Stock!Busy,
       StockConstants, Stock!Request, Stock!Idle, Stock!Sources
  <2>2. inv_req' = [inv_req EXCEPT ![w] = q] /\ UNCHANGED moves
    BY <1>11 DEF Stock!Generate, Stock!Goto, Stock!Finish
  <2>3. StockTables
    BY <1>11, <1>t, <1>c, StockLocal DEF Stock!Generate, StockTables, Stock!At
  <2> QED BY <2>1, <2>2, <2>3, StockLocalStep
<1>12. ASSUME NEW w \in Workers, Stock!CheckPending(w)
      PROVE  StockTypeInv'
  <2> DEFINE q == [inv_req[w] EXCEPT !.pc = "suggest"]
  <2>1. q \in Stock!Request /\ StockPlaced(q)
    BY <1>12, StockLocal DEF Stock!CheckPending, Stock!At, Stock!Request
  <2>2. /\ inv_req' = [inv_req EXCEPT ![w] = q] \/ inv_req' = [inv_req EXCEPT ![w] = Stock!Idle]
        /\ UNCHANGED moves
    BY <1>12 DEF Stock!CheckPending, Stock!Goto, Stock!Finish
  <2>3. StockTables
    BY <1>12, <1>t, <1>c DEF Stock!CheckPending, StockTables
  <2> QED BY <2>1, <2>2, <2>3, StockLocalStep, StockIdle
<1>13. ASSUME NEW w \in Workers, Stock!InsertSuggestion(w)
      PROVE  StockTypeInv'
  <2> DEFINE q == Stock!Idle
  <2>1. q \in Stock!Request /\ StockPlaced(q)
    BY <1>13, <1>t, StockLocal, StockIdle DEF Stock!InsertSuggestion, Stock!MayStart, Stock!At, Stock!Busy,
       StockConstants, Stock!Request, Stock!Idle, Stock!Sources
  <2>2. inv_req' = [inv_req EXCEPT ![w] = q] /\ UNCHANGED moves
    BY <1>13 DEF Stock!InsertSuggestion, Stock!Goto, Stock!Finish
  <2>3. StockTables
    BY <1>13, <1>t, <1>c, StockLocal DEF Stock!InsertSuggestion, StockTables, Stock!At, Stock!Sources
  <2> QED BY <2>1, <2>2, <2>3, StockLocalStep
<1>14. ASSUME NEW w \in Workers, NEW s \in Stock!Sources, Stock!Order(w, s)
      PROVE  StockTypeInv'
  <2> DEFINE q == [Stock!Idle EXCEPT !.op = "order", !.pc = "po", !.d = s]
  <2>0. s # 0
    BY <1>14, StockLocal DEF Stock!Order, Stock!MayStart, Stock!Busy, Stock!At, Stock!Idle
  <2>1. q \in Stock!Request /\ StockPlaced(q)
    BY <2>0, StockIdle DEF StockConstants, Stock!Request, Stock!Idle
  <2>2. inv_req' = [inv_req EXCEPT ![w] = q] /\ UNCHANGED moves
    BY <1>14 DEF Stock!Order, Stock!Goto, Stock!Finish
  <2>3. StockTables
    BY <1>14, <1>t, <1>c, StockLocal DEF Stock!Order, StockTables, Stock!At
  <2> QED BY <2>1, <2>2, <2>3, StockLocalStep
<1>15. ASSUME NEW w \in Workers, Stock!InsertOrder(w)
      PROVE  StockTypeInv'
  <2> DEFINE q == [inv_req[w] EXCEPT !.pc = "ordered"]
  <2>1. q \in Stock!Request /\ StockPlaced(q)
    BY <1>15, <1>t, StockLocal, StockIdle DEF Stock!InsertOrder, Stock!MayStart, Stock!At, Stock!Busy,
       StockConstants, Stock!Request, Stock!Idle, Stock!Sources
  <2>2. inv_req' = [inv_req EXCEPT ![w] = q] /\ UNCHANGED moves
    BY <1>15 DEF Stock!InsertOrder, Stock!Goto, Stock!Finish
  <2>3. StockTables
    BY <1>15, <1>t, <1>c, StockLocal DEF Stock!InsertOrder, StockTables, Stock!At
  <2> QED BY <2>1, <2>2, <2>3, StockLocalStep
<1>16. ASSUME NEW w \in Workers, Stock!SaveSource(w)
      PROVE  StockTypeInv'
  <2> DEFINE q == Stock!Idle
  <2>1. q \in Stock!Request /\ StockPlaced(q)
    BY <1>16, <1>t, StockLocal, StockIdle DEF Stock!SaveSource, Stock!MayStart, Stock!At, Stock!Busy,
       StockConstants, Stock!Request, Stock!Idle, Stock!Sources
  <2>2. inv_req' = [inv_req EXCEPT ![w] = q] /\ UNCHANGED moves
    BY <1>16 DEF Stock!SaveSource, Stock!Goto, Stock!Finish
  <2>3. StockTables
    BY <1>16, <1>t, <1>c, StockLocal DEF Stock!SaveSource, StockTables, Stock!At
  <2> QED BY <2>1, <2>2, <2>3, StockLocalStep
<1>17. ASSUME NEW w \in Workers, NEW t \in StockTransfers, Stock!CompleteTransfer(w, t)
      PROVE  StockTypeInv'
  <2> DEFINE q == [Stock!Idle EXCEPT !.op = "transfer", !.pc = "out", !.d = t, !.line = 1]
  <2>0. t # 0
    BY <1>17, StockLocal DEF Stock!CompleteTransfer, Stock!MayStart, Stock!Busy, Stock!At, Stock!Idle
  <2>1. q \in Stock!Request /\ StockPlaced(q)
    <3>1. q \in Stock!Request
      <4>1. 1 \in 0..MaxLines /\ t \in Stock!Sources \cup StockTransfers \cup {0}
        BY DEF StockConstants
      <4> QED BY <4>1, StockIdle DEF Stock!Request
    <3>2. /\ q.op = "transfer" /\ q.pc = "out" /\ q.d = t /\ q.line = 1
          /\ 1 \in 1..MaxLines
      BY DEF Stock!Idle, StockConstants
    <3> HIDE DEF q
    <3> QED BY <2>0, <3>1, <3>2
  <2>2. inv_req' = [inv_req EXCEPT ![w] = q] /\ UNCHANGED moves
    BY <1>17 DEF Stock!CompleteTransfer, Stock!Goto, Stock!Finish
  <2>3. StockTables
    BY <1>17, <1>t, <1>c, StockLocal DEF Stock!CompleteTransfer, StockTables, Stock!At
  <2> QED BY <2>1, <2>2, <2>3, StockLocalStep
<1>18. ASSUME NEW w \in Workers, Stock!TakeOut(w)
      PROVE  StockTypeInv'
  <2> DEFINE q == [inv_req[w] EXCEPT !.pc = "in"]
  <2>1. q \in Stock!Request /\ StockPlaced(q)
    BY <1>18, <1>t, StockLocal, StockIdle DEF Stock!TakeOut, Stock!MayStart, Stock!At, Stock!Busy,
       StockConstants, Stock!Request, Stock!Idle, Stock!Sources
  <2>2. inv_req' = [inv_req EXCEPT ![w] = q] /\ UNCHANGED moves
    BY <1>18 DEF Stock!TakeOut, Stock!Goto, Stock!Finish
  <2>3. /\ inv_req[w].d \in StockTransfers /\ inv_req[w].line \in 1..MaxLines
    BY <1>18, StockLocal DEF Stock!TakeOut, Stock!At
  <2>4. out' = [out EXCEPT ![inv_req[w].d][inv_req[w].line] = @ + 1]
    BY <1>18 DEF Stock!TakeOut
  <2>5. out' \in [StockTransfers -> [1..MaxLines -> Nat]]
    <3>1. PICK d \in StockTransfers, k \in 1..MaxLines : d = inv_req[w].d /\ k = inv_req[w].line
      BY <2>3
    <3>2. out' = [out EXCEPT ![d][k] = @ + 1]
      BY <2>4, <3>1, Zenon
    <3> DEFINE K == 1..MaxLines
    <3>3. out \in [StockTransfers -> [K -> Nat]] /\ k \in K
      BY <1>t
    <3> HIDE DEF K
    <3>4. [out EXCEPT ![d][k] = @ + 1] \in [StockTransfers -> [K -> Nat]]
      BY <3>3, CountsCount
    <3> USE DEF K
    <3> QED BY <3>2, <3>4
  <2>6. StockTables
    BY <1>18, <2>5, <1>t, <1>c DEF Stock!TakeOut, StockTables
  <2> QED BY <2>1, <2>2, <2>6, StockLocalStep
<1>19. ASSUME NEW w \in Workers, Stock!PutIn(w)
      PROVE  StockTypeInv'
  <2>1. PICK k \in 1..MaxLines : k = inv_req[w].line
    BY <1>19, StockLocal DEF Stock!PutIn, Stock!At
  <2>2. /\ inv_req[w].pc = "in" /\ inv_req[w].op = "transfer"
        /\ inv_req[w].d \in StockTransfers /\ inv_req[w].d # 0
    BY <1>19, StockLocal DEF Stock!PutIn, Stock!At
  <2>3. PICK n \in 0..MaxLines, label \in {"out", "complete"} :
           /\ n = IF k < MaxLines THEN k + 1 ELSE 0
           /\ label = IF k < MaxLines THEN "out" ELSE "complete"
    BY DEF StockConstants
  <2> DEFINE q == [inv_req[w] EXCEPT !.line = n, !.pc = label]
  <2>4. q \in Stock!Request /\ StockPlaced(q)
    <3>1. q \in Stock!Request
      BY StockLocal DEF Stock!Request
    <3>2. q.op = "transfer" /\ q.pc = label /\ q.d = inv_req[w].d /\ q.line = n
      BY <2>2, StockLocal DEF Stock!Request
    <3>3. label = "out" => n \in 1..MaxLines
      BY <2>3 DEF StockConstants
    <3> HIDE DEF q
    <3> QED BY <2>2, <3>1, <3>2, <3>3
  <2>5. inv_req' = [inv_req EXCEPT ![w] = q] /\ UNCHANGED moves
    BY <1>19, <2>1, <2>3, StockLocal DEF Stock!PutIn, Stock!Request, StockTypeInv, Stock!TypeOK
  <2>6. in' = [in EXCEPT ![inv_req[w].d][inv_req[w].line] = @ + 1]
    BY <1>19 DEF Stock!PutIn
  <2>7. in' \in [StockTransfers -> [1..MaxLines -> Nat]]
    <3>1. PICK d \in StockTransfers : d = inv_req[w].d
      BY <2>2
    <3>2. in' = [in EXCEPT ![d][k] = @ + 1]
      BY <2>1, <2>6, <3>1, Zenon
    <3> DEFINE K == 1..MaxLines
    <3>3. in \in [StockTransfers -> [K -> Nat]] /\ k \in K
      BY <1>t
    <3> HIDE DEF K
    <3>4. [in EXCEPT ![d][k] = @ + 1] \in [StockTransfers -> [K -> Nat]]
      BY <3>3, CountsCount
    <3> USE DEF K
    <3> QED BY <3>2, <3>4
  <2>8. StockTables
    BY <1>19, <2>7, <1>t, <1>c DEF Stock!PutIn, StockTables
  <2> QED BY <2>4, <2>5, <2>8, StockLocalStep
<1>20. ASSUME NEW w \in Workers, Stock!SaveTransfer(w)
      PROVE  StockTypeInv'
  <2> DEFINE q == Stock!Idle
  <2>1. q \in Stock!Request /\ StockPlaced(q)
    BY <1>20, <1>t, StockLocal, StockIdle DEF Stock!SaveTransfer, Stock!MayStart, Stock!At, Stock!Busy,
       StockConstants, Stock!Request, Stock!Idle, Stock!Sources
  <2>2. inv_req' = [inv_req EXCEPT ![w] = q] /\ UNCHANGED moves
    BY <1>20 DEF Stock!SaveTransfer, Stock!Goto, Stock!Finish
  <2>3. StockTables
    BY <1>20, <1>t, <1>c, StockLocal DEF Stock!SaveTransfer, StockTables, Stock!At
  <2> QED BY <2>1, <2>2, <2>3, StockLocalStep
<1>21. ASSUME NEW w \in Workers, Stock!Crash(w)
      PROVE  StockTypeInv'
  <2>1. inv_req' = [inv_req EXCEPT ![w] = Stock!Idle] /\ UNCHANGED moves
    BY <1>21 DEF Stock!Crash, Stock!Finish
  <2>2. StockTables
    BY <1>21, <1>t, <1>c DEF Stock!Crash, StockTables
  <2> QED BY <2>1, <2>2, StockIdle, StockLocalStep
<1> QED
  BY <1>c, <1>1, <1>2, <1>3, <1>4, <1>5, <1>6, <1>7, <1>8, <1>9, <1>10, <1>11, <1>12, <1>13, <1>14, <1>15, <1>16, <1>17, <1>18, <1>19, <1>20, <1>21
     DEF Stock!Step, Stock!Continue

-----------------------------------------------------------------------------
(* What a step does to the requests: one worker's, and of one kind. *)

AdjustSteps(w) ==
    \/ \E q \in Adjustments, scrap \in BOOLEAN : Stock!Adjust(w, q, scrap)
    \/ Stock!SaveQuantity(w) \/ Stock!EntryFails(w)

CogsSteps(w) ==
    \/ Stock!Calculate(w) \/ Stock!LoadLayers(w) \/ Stock!ConsumeLayer(w)
    \/ Stock!EndLoop(w) \/ Stock!SaveCogsEntry(w)

GenerateSteps(w) == Stock!Generate(w) \/ Stock!CheckPending(w) \/ Stock!InsertSuggestion(w)

OrderSteps(w) ==
    \/ \E s \in Stock!Sources : Stock!Order(w, s)
    \/ Stock!InsertOrder(w) \/ Stock!SaveSource(w)

TransferSteps(w) ==
    \/ \E t \in StockTransfers : Stock!CompleteTransfer(w, t)
    \/ Stock!TakeOut(w) \/ Stock!PutIn(w) \/ Stock!SaveTransfer(w)

OneRequest(w, op) ==
    /\ \A v \in Workers : v # w => inv_req'[v] = inv_req[v]
    /\ inv_req[w].op \in {"none", op} /\ inv_req'[w].op \in {"none", op}
    /\ inv_req[w].op = "none" =>
          /\ op \in {"adjust", "cogs", "generate"} => \A v \in Workers : inv_req[v].op # op
          /\ inv_req'[w].d # 0 => \A v \in Workers : inv_req[v].d # inv_req'[w].d
    /\ inv_req[w].op # "none" => inv_req'[w].d \in {0, inv_req[w].d}

LEMMA AdjustRequest ==
    ASSUME StockTypeInv, NEW w \in Workers, AdjustSteps(w)
    PROVE  OneRequest(w, "adjust")
<1> USE DEF StockPlaced, MoveLabels, CogsLabels, PlanLabels, OrderLabels, TransferLabels
<1>t. inv_req \in [Workers -> Stock!Request]
  BY DEF StockTypeInv, Stock!TypeOK
<1>1. ASSUME NEW q \in Adjustments, NEW scrap \in BOOLEAN, Stock!Adjust(w, q, scrap)
      PROVE  OneRequest(w, "adjust")
  BY <1>1, <1>t, StockLocal DEF Stock!Adjust, OneRequest, Stock!MayStart, Stock!Busy, Stock!At,
     Stock!Idle
<1>2. CASE Stock!SaveQuantity(w)
  BY <1>2, <1>t, StockLocal DEF Stock!SaveQuantity, OneRequest, Stock!Goto, Stock!At, Stock!Request
<1>3. CASE Stock!EntryFails(w)
  BY <1>3, <1>t, StockLocal DEF Stock!EntryFails, OneRequest, Stock!Finish, Stock!At, Stock!Idle
<1> QED BY <1>1, <1>2, <1>3 DEF AdjustSteps

LEMMA CogsRequest ==
    ASSUME StockTypeInv, NEW w \in Workers, CogsSteps(w)
    PROVE  OneRequest(w, "cogs")
<1> USE DEF StockPlaced, MoveLabels, CogsLabels, PlanLabels, OrderLabels, TransferLabels
<1>t. inv_req \in [Workers -> Stock!Request]
  BY DEF StockTypeInv, Stock!TypeOK
<1>1. CASE Stock!Calculate(w)
  <2>1. PICK n \in Nat : n = Stock!Scrapped
    BY ScrappedIsNumber
  <2>2. \/ inv_req' = inv_req
        \/ inv_req' = [inv_req EXCEPT ![w] = [Stock!Idle EXCEPT !.op = "cogs", !.pc = "load",
                                                                !.q = n]]
    BY <1>1, <2>1 DEF Stock!Calculate
  <2>3. inv_req[w].pc = "idle" /\ \A v \in Workers : inv_req[v].op # "cogs"
    BY <1>1 DEF Stock!Calculate, Stock!MayStart, Stock!Busy, Stock!At
  <2>4. inv_req[w].op = "none" /\ inv_req[w].d = 0
    BY <2>3, StockLocal DEF Stock!Idle
  <2>5. CASE inv_req' = inv_req
    BY <2>3, <2>4, <2>5 DEF OneRequest
  <2>6. CASE inv_req' # inv_req
    <3> DEFINE q == [Stock!Idle EXCEPT !.op = "cogs", !.pc = "load", !.q = n]
    <3>1. q.op = "cogs" /\ q.d = 0
      BY DEF Stock!Idle
    <3>2. inv_req' = [inv_req EXCEPT ![w] = q]
      BY <2>2, <2>6
    <3> HIDE DEF q
    <3> QED BY <2>3, <2>4, <3>1, <3>2, <1>t DEF OneRequest
  <2> QED BY <2>5, <2>6
<1>2. CASE Stock!LoadLayers(w)
  BY <1>2, <1>t, StockLocal DEF Stock!LoadLayers, OneRequest, Stock!At, Stock!Request
<1>3. CASE Stock!ConsumeLayer(w)
  <2>1. PICK l \in Stock!NextLayers(w) :
           LET some == IF inv_req[w].rows[l] < inv_req[w].q
                       THEN inv_req[w].rows[l] ELSE inv_req[w].q IN
           /\ layer' = [layer EXCEPT ![l] = inv_req[w].rows[l] - some]
           /\ inv_req' = [inv_req EXCEPT ![w].q = @ - some, ![w].rows[l] = @ - some,
                                         ![w].taken[l] = @ + some]
    BY <1>3, Zenon DEF Stock!ConsumeLayer
  <2> DEFINE some == IF inv_req[w].rows[l] < inv_req[w].q
                     THEN inv_req[w].rows[l] ELSE inv_req[w].q
             q == [inv_req[w] EXCEPT
                     !.q = inv_req[w].q - some,
                     !.rows = [inv_req[w].rows EXCEPT ![l] = inv_req[w].rows[l] - some],
                     !.taken = [inv_req[w].taken EXCEPT ![l] = inv_req[w].taken[l] + some]]
  <2>2. inv_req' = [inv_req EXCEPT ![w] = q]
    BY <2>1, Zenon
  <2> HIDE DEF some
  <2>3. q.op = inv_req[w].op /\ q.d = inv_req[w].d
    BY <1>t DEF Stock!Request
  <2>4. inv_req[w].pc = "layer"
    BY <1>3 DEF Stock!ConsumeLayer, Stock!At
  <2> HIDE DEF q
  <2> QED BY <2>2, <2>3, <2>4, <1>t, StockLocal DEF OneRequest
<1>4. CASE Stock!EndLoop(w)
  BY <1>4, <1>t, StockLocal DEF Stock!EndLoop, OneRequest, Stock!Goto, Stock!At, Stock!Request
<1>5. CASE Stock!SaveCogsEntry(w)
  BY <1>5, <1>t, StockLocal DEF Stock!SaveCogsEntry, OneRequest, Stock!Finish, Stock!At, Stock!Idle
<1> QED BY <1>1, <1>2, <1>3, <1>4, <1>5 DEF CogsSteps

LEMMA GenerateRequest ==
    ASSUME StockTypeInv, NEW w \in Workers, GenerateSteps(w)
    PROVE  OneRequest(w, "generate")
<1> USE DEF StockPlaced, MoveLabels, CogsLabels, PlanLabels, OrderLabels, TransferLabels
<1>t. inv_req \in [Workers -> Stock!Request]
  BY DEF StockTypeInv, Stock!TypeOK
<1>1. CASE Stock!Generate(w)
  BY <1>1, <1>t, StockLocal DEF Stock!Generate, OneRequest, Stock!MayStart, Stock!Busy, Stock!At,
     Stock!Idle
<1>2. CASE Stock!CheckPending(w)
  BY <1>2, <1>t, StockLocal DEF Stock!CheckPending, OneRequest, Stock!Goto, Stock!Finish, Stock!At,
     Stock!Idle, Stock!Request
<1>3. CASE Stock!InsertSuggestion(w)
  BY <1>3, <1>t, StockLocal DEF Stock!InsertSuggestion, OneRequest, Stock!Finish, Stock!At,
     Stock!Idle
<1> QED BY <1>1, <1>2, <1>3 DEF GenerateSteps

LEMMA OrderRequest ==
    ASSUME StockTypeInv, NEW w \in Workers, OrderSteps(w)
    PROVE  OneRequest(w, "order")
<1> USE DEF StockPlaced, MoveLabels, CogsLabels, PlanLabels, OrderLabels, TransferLabels
<1>t. inv_req \in [Workers -> Stock!Request]
  BY DEF StockTypeInv, Stock!TypeOK
<1>1. ASSUME NEW s \in Stock!Sources, Stock!Order(w, s)
      PROVE  OneRequest(w, "order")
  BY <1>1, <1>t, StockLocal DEF Stock!Order, OneRequest, Stock!MayStart, Stock!Busy, Stock!At,
     Stock!Idle
<1>2. CASE Stock!InsertOrder(w)
  BY <1>2, <1>t, StockLocal DEF Stock!InsertOrder, OneRequest, Stock!Goto, Stock!At, Stock!Request
<1>3. CASE Stock!SaveSource(w)
  BY <1>3, <1>t, StockLocal DEF Stock!SaveSource, OneRequest, Stock!Finish, Stock!At, Stock!Idle
<1> QED BY <1>1, <1>2, <1>3 DEF OrderSteps

LEMMA TransferRequest ==
    ASSUME StockTypeInv, NEW w \in Workers, TransferSteps(w)
    PROVE  OneRequest(w, "transfer")
<1> USE DEF StockPlaced, MoveLabels, CogsLabels, PlanLabels, OrderLabels, TransferLabels
<1>t. inv_req \in [Workers -> Stock!Request]
  BY DEF StockTypeInv, Stock!TypeOK
<1>1. ASSUME NEW t \in StockTransfers, Stock!CompleteTransfer(w, t)
      PROVE  OneRequest(w, "transfer")
  BY <1>1, <1>t, StockLocal DEF Stock!CompleteTransfer, OneRequest, Stock!MayStart, Stock!Busy,
     Stock!At, Stock!Idle
<1>2. CASE Stock!TakeOut(w)
  BY <1>2, <1>t, StockLocal DEF Stock!TakeOut, OneRequest, Stock!Goto, Stock!At, Stock!Request
<1>3. CASE Stock!PutIn(w)
  BY <1>3, <1>t, StockLocal DEF Stock!PutIn, OneRequest, Stock!At, Stock!Request
<1>4. CASE Stock!SaveTransfer(w)
  BY <1>4, <1>t, StockLocal DEF Stock!SaveTransfer, OneRequest, Stock!Finish, Stock!At, Stock!Idle
<1> QED BY <1>1, <1>2, <1>3, <1>4 DEF TransferSteps

LEMMA CrashRequest ==
    ASSUME StockTypeInv, NEW w \in Workers, Stock!Crash(w)
    PROVE  OneRequest(w, inv_req[w].op) /\ inv_req'[w] = Stock!Idle
<1>t. inv_req \in [Workers -> Stock!Request]
  BY DEF StockTypeInv, Stock!TypeOK
<1>1. inv_req' = [inv_req EXCEPT ![w] = Stock!Idle] /\ inv_req[w].pc # "idle"
  BY DEF Stock!Crash, Stock!Finish, Stock!Busy, Stock!At
<1>2. inv_req[w].op # "none"
  BY <1>1, StockLocal DEF StockPlaced, MoveLabels, CogsLabels, PlanLabels, OrderLabels,
     TransferLabels, Stock!Request
<1> QED BY <1>1, <1>2, <1>t DEF OneRequest, Stock!Idle

\* The steps of one of the kinds, and those that no request takes.
StockKinds ==
    {"adjust", "cogs", "generate", "order", "transfer"}

LEMMA StockSteps ==
    ASSUME Stock!Step
    PROVE  \/ \E s \in Stock!Sources,
                 to \in {"draft", "submitted", "approved", "dismissed", "rejected"} :
                 Stock!ChangeSource(s, to)
           \/ \E t \in StockTransfers : Stock!CreateTransfer(t)
           \/ \E w \in Workers :
                 \/ AdjustSteps(w) \/ CogsSteps(w) \/ GenerateSteps(w) \/ OrderSteps(w)
                 \/ TransferSteps(w) \/ Stock!Crash(w)
  BY Zenon DEF Stock!Step, Stock!Continue, AdjustSteps, CogsSteps, GenerateSteps, OrderSteps,
     TransferSteps

\* The tables that each kind of request leaves alone.
LEMMA StockFrames ==
    ASSUME NEW w \in Workers
    PROVE  /\ AdjustSteps(w) => UNCHANGED <<layer, used, source, order, stock_transfer, out, in,
                                           inv_aborts>>
           /\ CogsSteps(w) => UNCHANGED <<onhand, moves, source, order, stock_transfer, out, in,
                                         inv_aborts>>
           /\ GenerateSteps(w) => UNCHANGED <<onhand, moves, layer, used, order, stock_transfer,
                                             out, in, inv_aborts>>
           /\ OrderSteps(w) => UNCHANGED <<onhand, moves, layer, used, stock_transfer, out, in,
                                          inv_aborts>>
           /\ TransferSteps(w) => UNCHANGED <<onhand, moves, layer, used, source, order,
                                             inv_aborts>>
<1> USE DEF Stock!stock, Stock!cogs, Stock!planning, Stock!transfers
<1>1. ASSUME AdjustSteps(w)
      PROVE  UNCHANGED <<layer, used, source, order, stock_transfer, out, in, inv_aborts>>
  <2>1. CASE \E q \in Adjustments, scrap \in BOOLEAN : Stock!Adjust(w, q, scrap)
    BY <2>1 DEF Stock!Adjust
  <2>2. CASE Stock!SaveQuantity(w)
    BY <2>2 DEF Stock!SaveQuantity
  <2>3. CASE Stock!EntryFails(w)
    BY <2>3 DEF Stock!EntryFails
  <2> QED BY <1>1, <2>1, <2>2, <2>3 DEF AdjustSteps
<1>2. ASSUME CogsSteps(w)
      PROVE  UNCHANGED <<onhand, moves, source, order, stock_transfer, out, in, inv_aborts>>
  <2>1. CASE Stock!Calculate(w)
    BY <2>1 DEF Stock!Calculate
  <2>2. CASE Stock!LoadLayers(w)
    BY <2>2 DEF Stock!LoadLayers
  <2>3. CASE Stock!ConsumeLayer(w)
    BY <2>3 DEF Stock!ConsumeLayer
  <2>4. CASE Stock!EndLoop(w)
    BY <2>4 DEF Stock!EndLoop
  <2>5. CASE Stock!SaveCogsEntry(w)
    BY <2>5 DEF Stock!SaveCogsEntry
  <2> QED BY <1>2, <2>1, <2>2, <2>3, <2>4, <2>5 DEF CogsSteps
<1>3. ASSUME GenerateSteps(w)
      PROVE  UNCHANGED <<onhand, moves, layer, used, order, stock_transfer, out, in, inv_aborts>>
  <2>1. CASE Stock!Generate(w)
    BY <2>1 DEF Stock!Generate
  <2>2. CASE Stock!CheckPending(w)
    BY <2>2 DEF Stock!CheckPending
  <2>3. CASE Stock!InsertSuggestion(w)
    BY <2>3 DEF Stock!InsertSuggestion
  <2> QED BY <1>3, <2>1, <2>2, <2>3 DEF GenerateSteps
<1>4. ASSUME OrderSteps(w)
      PROVE  UNCHANGED <<onhand, moves, layer, used, stock_transfer, out, in, inv_aborts>>
  <2>1. CASE \E s \in Stock!Sources : Stock!Order(w, s)
    BY <2>1 DEF Stock!Order
  <2>2. CASE Stock!InsertOrder(w)
    BY <2>2 DEF Stock!InsertOrder
  <2>3. CASE Stock!SaveSource(w)
    BY <2>3 DEF Stock!SaveSource
  <2> QED BY <1>4, <2>1, <2>2, <2>3 DEF OrderSteps
<1>5. ASSUME TransferSteps(w)
      PROVE  UNCHANGED <<onhand, moves, layer, used, source, order, inv_aborts>>
  <2>1. CASE \E t \in StockTransfers : Stock!CompleteTransfer(w, t)
    BY <2>1 DEF Stock!CompleteTransfer
  <2>2. CASE Stock!TakeOut(w)
    BY <2>2 DEF Stock!TakeOut
  <2>3. CASE Stock!PutIn(w)
    BY <2>3 DEF Stock!PutIn
  <2>4. CASE Stock!SaveTransfer(w)
    BY <2>4 DEF Stock!SaveTransfer
  <2> QED BY <1>5, <2>1, <2>2, <2>3, <2>4 DEF TransferSteps
<1> QED BY <1>1, <1>2, <1>3, <1>4, <1>5

LEMMA StockApartStep ==
    ASSUME StockTypeInv, StockApart, Stock!Next
    PROVE  StockApart'
<1>1. ASSUME NEW w \in Workers, NEW op, OneRequest(w, op)
      PROVE  StockApart'
  <2>1. \A v \in Workers : inv_req[v].op = "none" => inv_req[v].d = 0
    BY StockLocal DEF StockPlaced
  <2> QED BY <1>1, <2>1 DEF StockApart, OneRequest
<1>2. ASSUME UNCHANGED inv_req PROVE StockApart'
  BY <1>2 DEF StockApart
<1>3. ASSUME NEW w \in Workers,
             \/ AdjustSteps(w) \/ CogsSteps(w) \/ GenerateSteps(w) \/ OrderSteps(w)
             \/ TransferSteps(w) \/ Stock!Crash(w)
      PROVE  \E op : OneRequest(w, op)
  BY <1>3, AdjustRequest, CogsRequest, GenerateRequest, OrderRequest, TransferRequest, CrashRequest
<1>4. ASSUME NEW s, NEW to, Stock!ChangeSource(s, to) PROVE UNCHANGED inv_req
  BY <1>4 DEF Stock!ChangeSource
<1>5. ASSUME NEW t, Stock!CreateTransfer(t) PROVE UNCHANGED inv_req
  BY <1>5 DEF Stock!CreateTransfer
<1> QED BY <1>1, <1>2, <1>3, <1>4, <1>5, StockSteps DEF Stock!Next

-----------------------------------------------------------------------------
(* The movements: between the row that is inserted and the quantity that is saved  *)
(* the item is behind its rows by what the request was entered with.               *)

TotalMoves(m) == SumOf([i \in DOMAIN m |-> m[i].q])

Movements ==
    inv_aborts = 0 =>
        /\ \A w \in Workers : inv_req[w].pc = "item" =>
              /\ inv_req[w].copy = onhand
              /\ onhand + inv_req[w].q = ReorderPoint + TotalMoves(moves)
        /\ (\A w \in Workers : inv_req[w].pc # "item") =>
              onhand = ReorderPoint + TotalMoves(moves)

LEMMA MovesAppend ==
    ASSUME NEW m \in Seq(MoveRow), NEW row \in MoveRow
    PROVE  TotalMoves(Append(m, row)) = TotalMoves(m) + row.q
<1> DEFINE n == Len(m)
           g == [i \in DOMAIN m |-> m[i].q]
           h == [i \in DOMAIN Append(m, row) |-> Append(m, row)[i].q]
<1>1. n \in Nat /\ DOMAIN m = 1..n /\ DOMAIN Append(m, row) = 1..n + 1
  OBVIOUS
<1>2. \A i \in 1..n : m[i] \in MoveRow /\ Append(m, row)[i] = m[i]
  OBVIOUS
<1>3. Append(m, row)[n + 1] = row
  OBVIOUS
<1>4. g \in [1..n -> Int] /\ h \in [1..n + 1 -> Int]
  BY <1>1, <1>2, <1>3 DEF MoveRow
<1>5. h[n + 1] = row.q /\ \A i \in 1..n : h[i] = g[i]
  BY <1>1, <1>2, <1>3
<1>6. TotalMoves(Append(m, row)) = SumOf(h) /\ TotalMoves(m) = SumOf(g)
  BY DEF TotalMoves
<1> HIDE DEF g, h, n
<1> QED BY <1>1, <1>4, <1>5, <1>6, SumAppend

LEMMA MovesNumber == \A m \in Seq(MoveRow) : TotalMoves(m) \in Int
<1> TAKE m \in Seq(MoveRow)
<1> DEFINE g == [i \in DOMAIN m |-> m[i].q]
<1>1. DOMAIN m = 1..Len(m) /\ Len(m) \in Nat /\ \A i \in DOMAIN m : m[i] \in MoveRow
  OBVIOUS
<1>2. IsFiniteSet(DOMAIN m)
  BY <1>1, FS_Interval
<1>3. g \in [DOMAIN m -> Int]
  BY <1>1 DEF MoveRow
<1>4. TotalMoves(m) = SumOf(g)
  BY DEF TotalMoves
<1> HIDE DEF g
<1> QED BY <1>2, <1>3, <1>4, SumIsInteger

\* Requests of the other kinds change neither the item nor its rows.
LEMMA OthersKeepMoves ==
    ASSUME StockTypeInv, StockTypeInv', NEW w \in Workers, NEW op, op # "adjust",
           OneRequest(w, op), UNCHANGED <<onhand, moves, inv_aborts>>, Movements
    PROVE  Movements'
<1>1. inv_req[w].pc # "item" /\ inv_req'[w].pc # "item"
  BY StockLocal DEF OneRequest, StockTypeInv, StockPlaced, MoveLabels
<1>2. \A v \in Workers : inv_req'[v].pc = "item" \/ inv_req[v].pc = "item" =>
         inv_req'[v] = inv_req[v]
  BY <1>1 DEF OneRequest
<1> QED BY <1>2 DEF Movements

LEMMA MovementsStep ==
    ASSUME StockConstants, StockTypeInv, StockTypeInv', StockApart, Movements, Stock!Next
    PROVE  Movements'
<1> USE DEF Stock!stock, Stock!cogs, Stock!planning, Stock!transfers
<1>t. /\ inv_req \in [Workers -> Stock!Request] /\ onhand \in Int /\ moves \in Seq(MoveRow)
      /\ ReorderPoint \in Int /\ TotalMoves(moves) \in Int
  BY MovesNumber DEF StockTypeInv, Stock!TypeOK, StockConstants
<1>1. ASSUME NEW s, NEW to, Stock!ChangeSource(s, to) PROVE Movements'
  BY <1>1 DEF Stock!ChangeSource, Movements
<1>2. ASSUME NEW t, Stock!CreateTransfer(t) PROVE Movements'
  BY <1>2 DEF Stock!CreateTransfer, Movements
<1>3. ASSUME NEW w \in Workers, CogsSteps(w) PROVE Movements'
  <2>1. UNCHANGED <<onhand, moves, inv_aborts>>
    BY <1>3, StockFrames
  <2> QED BY <1>3, <2>1, CogsRequest, OthersKeepMoves
<1>4. ASSUME NEW w \in Workers, GenerateSteps(w) PROVE Movements'
  <2>1. UNCHANGED <<onhand, moves, inv_aborts>>
    BY <1>4, StockFrames
  <2> QED BY <1>4, <2>1, GenerateRequest, OthersKeepMoves
<1>5. ASSUME NEW w \in Workers, OrderSteps(w) PROVE Movements'
  <2>1. UNCHANGED <<onhand, moves, inv_aborts>>
    BY <1>5, StockFrames
  <2> QED BY <1>5, <2>1, OrderRequest, OthersKeepMoves
<1>6. ASSUME NEW w \in Workers, TransferSteps(w) PROVE Movements'
  <2>1. UNCHANGED <<onhand, moves, inv_aborts>>
    BY <1>6, StockFrames
  <2> QED BY <1>6, <2>1, TransferRequest, OthersKeepMoves
<1>7. ASSUME NEW w \in Workers, Stock!Crash(w) PROVE Movements'
  <2>1. inv_aborts' # 0
    BY <1>7 DEF Stock!Crash, StockTypeInv, Stock!TypeOK
  <2> QED BY <2>1 DEF Movements
<1>8. ASSUME NEW w \in Workers, NEW q \in Adjustments, NEW scrap \in BOOLEAN,
             Stock!Adjust(w, q, scrap)
      PROVE  Movements'
  <2> DEFINE row == [q |-> q, scrap |-> scrap]
  <2>1. row \in MoveRow /\ row.q = q /\ moves' = Append(moves, row) /\ q \in Int
    BY <1>8 DEF Stock!Adjust, MoveRow, StockConstants
  <2> HIDE DEF row
  <2>2. TotalMoves(moves') = TotalMoves(moves) + q
    BY <2>1, <1>t, MovesAppend
  <2>3. \A v \in Workers : inv_req[v].op # "adjust"
    BY <1>8 DEF Stock!Adjust, Stock!MayStart
  <2>4. \A v \in Workers : inv_req[v].pc # "item"
    BY <2>3, StockLocal DEF StockPlaced, MoveLabels
  <2>5. /\ inv_req'[w].pc = "item" /\ inv_req'[w].copy = onhand /\ inv_req'[w].q = q
        /\ \A v \in Workers : v # w => inv_req'[v] = inv_req[v]
    BY <1>8, <1>t DEF Stock!Adjust, Stock!Idle
  <2>6. onhand' = onhand /\ inv_aborts' = inv_aborts
    BY <1>8 DEF Stock!Adjust
  <2>7. ASSUME inv_aborts = 0 PROVE onhand + q = ReorderPoint + TotalMoves(moves')
    <3>1. onhand = ReorderPoint + TotalMoves(moves)
      BY <2>4, <2>7 DEF Movements
    <3> QED BY <3>1, <2>1, <2>2, <1>t
  <2>8. \A v \in Workers : inv_req'[v].pc = "item" <=> v = w
    BY <2>4, <2>5
  <2> QED BY <2>5, <2>6, <2>7, <2>8 DEF Movements
<1>9. ASSUME NEW w \in Workers, Stock!SaveQuantity(w) PROVE Movements'
  <2>1. inv_req[w].pc = "item" /\ inv_req[w].op = "adjust"
    BY <1>9, StockLocal DEF Stock!SaveQuantity, Stock!At, StockPlaced, MoveLabels
  <2>2. /\ inv_req'[w].pc = "entry" /\ \A v \in Workers : v # w => inv_req'[v] = inv_req[v]
        /\ onhand' = inv_req[w].copy + inv_req[w].q /\ moves' = moves /\ inv_aborts' = inv_aborts
    BY <1>9, <1>t DEF Stock!SaveQuantity, Stock!Goto, Stock!Request
  <2>3. \A v \in Workers : v # w => inv_req[v].op # "adjust"
    BY <2>1 DEF StockApart
  <2>4. \A v \in Workers : v # w => inv_req[v].pc # "item"
    BY <2>3, StockLocal DEF StockPlaced, MoveLabels
  <2> QED BY <2>1, <2>2, <2>4, <1>t DEF Movements
<1>10. ASSUME NEW w \in Workers, Stock!EntryFails(w) PROVE Movements'
  <2>1. inv_req[w].pc = "entry"
    BY <1>10 DEF Stock!EntryFails, Stock!At
  <2>2. /\ inv_req'[w].pc = "idle" /\ \A v \in Workers : v # w => inv_req'[v] = inv_req[v]
        /\ UNCHANGED <<onhand, moves, inv_aborts>>
    BY <1>10, <1>t DEF Stock!EntryFails, Stock!Finish, Stock!Idle
  <2>3. \A v \in Workers : inv_req'[v].pc = "item" \/ inv_req[v].pc = "item" =>
           inv_req'[v] = inv_req[v]
    BY <2>1, <2>2
  <2> QED BY <2>2, <2>3 DEF Movements
<1>11. ASSUME NEW w \in Workers, AdjustSteps(w) PROVE Movements'
  BY <1>8, <1>9, <1>10, <1>11 DEF AdjustSteps
<1> QED BY <1>1, <1>2, <1>3, <1>4, <1>5, <1>6, <1>7, <1>11, StockSteps DEF Stock!Next

LEMMA MovementsAddUp == StockTypeInv /\ Movements => Stock!StockIsMoves
<1>1. Stock!SumOf([i \in DOMAIN moves |-> moves[i].q]) = TotalMoves(moves)
  BY SameStockSum DEF TotalMoves
<1>2. ASSUME StockTypeInv, Movements, inv_aborts = 0, Stock!Quiet("adjust")
      PROVE  onhand = ReorderPoint + TotalMoves(moves)
  <2>1. \A w \in Workers : inv_req[w].pc # "item"
    <3> SUFFICES ASSUME NEW w \in Workers PROVE inv_req[w].pc # "item"
      BY Zenon
    <3>1. StockPlaced(inv_req[w]) /\ inv_req[w].op # "adjust"
      BY <1>2, Zenon DEF StockTypeInv, Stock!Quiet
    <3>2. inv_req[w].pc \notin MoveLabels
      BY <3>1, Zenon DEF StockPlaced
    <3> QED BY <3>2 DEF MoveLabels
  <2> QED BY <1>2, <2>1 DEF Movements
<1> QED BY <1>1, <1>2 DEF Stock!StockIsMoves

-----------------------------------------------------------------------------
(* The layers: what a calculation has taken and not yet recorded is in its request. *)

CogsUsed ==
    inv_aborts = 0 => \A l \in Layers :
        /\ (\A w \in Workers : inv_req[w].op # "cogs") => layer[l] + used[l] = Received[l]
        /\ \A w \in Workers : inv_req[w].op = "cogs" =>
              /\ layer[l] + used[l] + inv_req[w].taken[l] = Received[l]
              /\ inv_req[w].pc = "layer" => inv_req[w].rows[l] = layer[l]
              /\ inv_req[w].pc = "load" => inv_req[w].taken[l] = 0

LEMMA OthersKeepLayers ==
    ASSUME StockTypeInv, StockTypeInv', NEW w \in Workers, NEW op, op # "cogs",
           OneRequest(w, op), UNCHANGED <<layer, used, inv_aborts>>, CogsUsed
    PROVE  CogsUsed'
<1>1. inv_req[w].op # "cogs" /\ inv_req'[w].op # "cogs"
  BY DEF OneRequest
<1>2. \A v \in Workers : inv_req'[v].op = "cogs" \/ inv_req[v].op = "cogs" =>
         inv_req'[v] = inv_req[v]
  BY <1>1 DEF OneRequest
<1> QED BY <1>2 DEF CogsUsed

LEMMA CogsUsedStep ==
    ASSUME StockConstants, StockTypeInv, StockTypeInv', StockApart, CogsUsed, Stock!Next
    PROVE  CogsUsed'
<1> USE DEF Stock!stock, Stock!cogs, Stock!planning, Stock!transfers
<1>t. /\ inv_req \in [Workers -> Stock!Request] /\ Received \in [Layers -> Nat]
      /\ layer \in [Layers -> Nat] /\ used \in [Layers -> Nat]
      /\ \A w \in Workers : inv_req[w].op = "cogs" <=> inv_req[w].pc \in CogsLabels
  BY StockLocal DEF StockTypeInv, Stock!TypeOK, StockConstants, StockPlaced
<1>1. ASSUME NEW s, NEW to, Stock!ChangeSource(s, to) PROVE CogsUsed'
  BY <1>1 DEF Stock!ChangeSource, CogsUsed
<1>2. ASSUME NEW t, Stock!CreateTransfer(t) PROVE CogsUsed'
  BY <1>2 DEF Stock!CreateTransfer, CogsUsed
<1>3. ASSUME NEW w \in Workers, AdjustSteps(w) PROVE CogsUsed'
  <2>1. UNCHANGED <<layer, used, inv_aborts>>
    BY <1>3, StockFrames
  <2> QED BY <1>3, <2>1, AdjustRequest, OthersKeepLayers
<1>4. ASSUME NEW w \in Workers, GenerateSteps(w) PROVE CogsUsed'
  <2>1. UNCHANGED <<layer, used, inv_aborts>>
    BY <1>4, StockFrames
  <2> QED BY <1>4, <2>1, GenerateRequest, OthersKeepLayers
<1>5. ASSUME NEW w \in Workers, OrderSteps(w) PROVE CogsUsed'
  <2>1. UNCHANGED <<layer, used, inv_aborts>>
    BY <1>5, StockFrames
  <2> QED BY <1>5, <2>1, OrderRequest, OthersKeepLayers
<1>6. ASSUME NEW w \in Workers, TransferSteps(w) PROVE CogsUsed'
  <2>1. UNCHANGED <<layer, used, inv_aborts>>
    BY <1>6, StockFrames
  <2> QED BY <1>6, <2>1, TransferRequest, OthersKeepLayers
<1>7. ASSUME NEW w \in Workers, Stock!Crash(w) PROVE CogsUsed'
  <2>1. inv_aborts' # 0
    BY <1>7 DEF Stock!Crash, StockTypeInv, Stock!TypeOK
  <2> QED BY <2>1 DEF CogsUsed
<1>a. ASSUME NEW w \in Workers, inv_req[w].op = "cogs"
      PROVE  \A v \in Workers : v # w => inv_req[v].op # "cogs"
  BY <1>a DEF StockApart
<1>8. ASSUME NEW w \in Workers, Stock!Calculate(w) PROVE CogsUsed'
  <2>1. PICK n \in Nat : n = Stock!Scrapped
    BY ScrappedIsNumber
  <2>2. \/ inv_req' = inv_req
        \/ inv_req' = [inv_req EXCEPT ![w] = [Stock!Idle EXCEPT !.op = "cogs", !.pc = "load",
                                                                !.q = n]]
    BY <1>8, <2>1 DEF Stock!Calculate
  <2>3. \A v \in Workers : inv_req[v].op # "cogs"
    BY <1>8 DEF Stock!Calculate, Stock!MayStart
  <2>4. UNCHANGED <<layer, used, inv_aborts>>
    BY <1>8 DEF Stock!Calculate
  <2>5. CASE inv_req' = inv_req
    BY <2>4, <2>5 DEF CogsUsed
  <2>6. CASE inv_req' # inv_req
    <3> DEFINE q == [Stock!Idle EXCEPT !.op = "cogs", !.pc = "load", !.q = n]
    <3>1. q.op = "cogs" /\ q.pc = "load" /\ \A l \in Layers : q.taken[l] = 0
      BY DEF Stock!Idle, Stock!NoUse
    <3>2. inv_req' = [inv_req EXCEPT ![w] = q]
      BY <2>2, <2>6
    <3> HIDE DEF q
    <3>3. inv_req'[w] = q /\ \A v \in Workers : v # w => inv_req'[v] = inv_req[v]
      BY <3>2, <1>t
    <3> QED BY <2>3, <2>4, <3>1, <3>3, <1>t DEF CogsUsed
  <2> QED BY <2>5, <2>6
<1>9. ASSUME NEW w \in Workers, Stock!LoadLayers(w) PROVE CogsUsed'
  <2>1. inv_req[w].pc = "load" /\ inv_req[w].op = "cogs"
    BY <1>9, <1>t DEF Stock!LoadLayers, Stock!At, CogsLabels
  <2>2. /\ inv_req'[w].pc = "layer" /\ inv_req'[w].rows = layer
        /\ inv_req'[w].taken = inv_req[w].taken /\ inv_req'[w].op = "cogs"
        /\ \A v \in Workers : v # w => inv_req'[v] = inv_req[v]
        /\ UNCHANGED <<layer, used, inv_aborts>>
    BY <1>9, <2>1, <1>t DEF Stock!LoadLayers, Stock!Request
  <2> QED BY <2>1, <2>2, <1>a DEF CogsUsed
<1>10. ASSUME NEW w \in Workers, Stock!ConsumeLayer(w) PROVE CogsUsed'
  <2>1. PICK l \in Stock!NextLayers(w) :
           LET some == IF inv_req[w].rows[l] < inv_req[w].q
                       THEN inv_req[w].rows[l] ELSE inv_req[w].q IN
           /\ layer' = [layer EXCEPT ![l] = inv_req[w].rows[l] - some]
           /\ inv_req' = [inv_req EXCEPT ![w].q = @ - some, ![w].rows[l] = @ - some,
                                         ![w].taken[l] = @ + some]
    BY <1>10, Zenon DEF Stock!ConsumeLayer
  <2>2. /\ inv_req[w].pc = "layer" /\ inv_req[w].op = "cogs" /\ inv_req[w].q \in Int
        /\ l \in Layers
        /\ inv_req[w].rows \in [Layers -> Nat] /\ inv_req[w].taken \in [Layers -> Nat]
        /\ UNCHANGED <<used, inv_aborts>>
    BY <1>10, StockLocal, <1>t
       DEF Stock!ConsumeLayer, Stock!At, Stock!NextLayers, CogsLabels
  <2>3. PICK some \in Int : some = IF inv_req[w].rows[l] < inv_req[w].q
                                   THEN inv_req[w].rows[l] ELSE inv_req[w].q
    BY <2>2
  <2> DEFINE q == [inv_req[w] EXCEPT
                     !.q = inv_req[w].q - some,
                     !.rows = [inv_req[w].rows EXCEPT ![l] = inv_req[w].rows[l] - some],
                     !.taken = [inv_req[w].taken EXCEPT ![l] = inv_req[w].taken[l] + some]]
  <2>4. layer' = [layer EXCEPT ![l] = inv_req[w].rows[l] - some]
    BY <2>1, <2>3, Zenon
  <2>5. inv_req' = [inv_req EXCEPT ![w] = q]
    BY <2>1, <2>3, Zenon
  <2>6. /\ q.op = "cogs" /\ q.pc = "layer"
        /\ q.rows = [inv_req[w].rows EXCEPT ![l] = inv_req[w].rows[l] - some]
        /\ q.taken = [inv_req[w].taken EXCEPT ![l] = inv_req[w].taken[l] + some]
    BY <2>2, <1>t DEF Stock!Request
  <2> HIDE DEF q
  <2>7. inv_req'[w] = q /\ \A v \in Workers : v # w => inv_req'[v] = inv_req[v]
    BY <2>5, <1>t
  <2>8. ASSUME inv_aborts = 0, NEW k \in Layers
        PROVE  /\ layer'[k] + used[k] + q.taken[k] = Received[k] /\ q.rows[k] = layer'[k]
    <3>1. /\ layer[k] + used[k] + inv_req[w].taken[k] = Received[k]
          /\ inv_req[w].rows[k] = layer[k]
      BY <2>2, <2>8 DEF CogsUsed
    <3>2. /\ layer[k] \in Nat /\ used[k] \in Nat /\ Received[k] \in Nat
          /\ inv_req[w].taken[k] \in Nat
      BY <1>t, <2>2
    <3>3. CASE k = l
      <4>1. layer'[k] = layer[k] - some /\ q.rows[k] = layer[k] - some
        BY <2>2, <2>4, <2>6, <3>1, <3>3, <1>t
      <4>2. q.taken[k] = inv_req[w].taken[k] + some
        BY <2>2, <2>6, <3>3
      <4> QED BY <3>1, <3>2, <4>1, <4>2
    <3>4. CASE k # l
      <4>1. layer'[k] = layer[k] /\ q.rows[k] = layer[k]
        BY <2>2, <2>4, <2>6, <3>1, <3>4, <1>t
      <4>2. q.taken[k] = inv_req[w].taken[k]
        BY <2>2, <2>6, <3>4
      <4> QED BY <3>1, <3>2, <4>1, <4>2
    <3> QED BY <3>3, <3>4
  <2>9. \A v \in Workers : v # w => inv_req'[v].op # "cogs"
    BY <2>2, <2>7, <1>a
  <2> QED BY <2>2, <2>6, <2>7, <2>8, <2>9 DEF CogsUsed
<1>11. ASSUME NEW w \in Workers, Stock!EndLoop(w) PROVE CogsUsed'
  <2>1. inv_req[w].pc = "layer" /\ inv_req[w].op = "cogs"
    BY <1>11, <1>t DEF Stock!EndLoop, Stock!At, CogsLabels
  <2>2. /\ inv_req'[w].pc = "cogs_entry" /\ inv_req'[w].op = "cogs"
        /\ inv_req'[w].taken = inv_req[w].taken
        /\ \A v \in Workers : v # w => inv_req'[v] = inv_req[v]
        /\ UNCHANGED <<layer, used, inv_aborts>>
    BY <1>11, <2>1, <1>t DEF Stock!EndLoop, Stock!Goto, Stock!Request
  <2> QED BY <2>1, <2>2, <1>a DEF CogsUsed
<1>12. ASSUME NEW w \in Workers, Stock!SaveCogsEntry(w) PROVE CogsUsed'
  <2>1. inv_req[w].pc = "cogs_entry" /\ inv_req[w].op = "cogs"
    BY <1>12, <1>t DEF Stock!SaveCogsEntry, Stock!At, CogsLabels
  <2>2. /\ inv_req'[w].op = "none" /\ \A v \in Workers : v # w => inv_req'[v] = inv_req[v]
        /\ used' = [l \in Layers |-> used[l] + inv_req[w].taken[l]]
        /\ UNCHANGED <<layer, inv_aborts>>
    BY <1>12, <1>t DEF Stock!SaveCogsEntry, Stock!Finish, Stock!Idle
  <2>3. \A v \in Workers : inv_req'[v].op # "cogs"
    BY <2>1, <2>2, <1>a
  <2>4. ASSUME inv_aborts = 0, NEW l \in Layers PROVE layer[l] + used'[l] = Received[l]
    <3>1. layer[l] + used[l] + inv_req[w].taken[l] = Received[l]
      BY <2>1, <2>4 DEF CogsUsed
    <3>2. layer[l] \in Nat /\ used[l] \in Nat /\ inv_req[w].taken[l] \in Nat
      BY <1>t, StockLocal
    <3>3. used'[l] = used[l] + inv_req[w].taken[l]
      BY <2>2
    <3> QED BY <3>1, <3>2, <3>3
  <2> QED BY <2>2, <2>3, <2>4 DEF CogsUsed
<1>13. ASSUME NEW w \in Workers, CogsSteps(w) PROVE CogsUsed'
  BY <1>8, <1>9, <1>10, <1>11, <1>12, <1>13 DEF CogsSteps
<1> QED BY <1>1, <1>2, <1>3, <1>4, <1>5, <1>6, <1>7, <1>13, StockSteps DEF Stock!Next

LEMMA CogsUseIsRecorded == CogsUsed => Stock!UseIsRecorded
  BY DEF CogsUsed, Stock!UseIsRecorded, Stock!Quiet

-----------------------------------------------------------------------------
(* Suggestions and requisitions: one that is not ordered has no purchase order but *)
(* those of requests that died, and the one a request has made and not yet noted.  *)

Final == {"ordered", "converted"}

OnePending ==
    /\ \A r, s \in Suggestions : source[r] = "pending" /\ source[s] = "pending" => r = s
    /\ \A w \in Workers : inv_req[w].pc = "suggest" => \A s \in Suggestions : source[s] # "pending"

Ordered(s) ==
    /\ order[s] <= 1 + inv_aborts
    /\ source[s] \in Final => order[s] >= 1
    /\ source[s] \notin Final /\ (\A w \in Workers : inv_req[w].pc = "ordered" => inv_req[w].d # s) =>
          order[s] <= inv_aborts
    /\ \A w \in Workers : inv_req[w].op = "order" /\ inv_req[w].d = s =>
          source[s] = "approved" /\ (inv_req[w].pc = "ordered" => order[s] >= 1)

Orders == \A s \in Stock!Sources : Ordered(s)

\* What a step that makes no order leaves of the orders and of the requests that make them.
LEMMA OthersKeepOrders ==
    ASSUME StockTypeInv, StockTypeInv', NEW w \in Workers, NEW op, op # "order",
           OneRequest(w, op), UNCHANGED <<order, inv_aborts>>, Orders,
           \A s \in Stock!Sources :
              \/ source'[s] = source[s]
              \/ source[s] # "approved" /\ source[s] \notin Final /\ source'[s] \notin Final
    PROVE  Orders'
<1>1. /\ inv_req[w].pc # "ordered" /\ inv_req'[w].pc # "ordered"
      /\ inv_req[w].op # "order" /\ inv_req'[w].op # "order"
  BY StockLocal DEF OneRequest, StockTypeInv, StockPlaced, OrderLabels
<1>2. \A v \in Workers : v # w => inv_req'[v] = inv_req[v]
  BY DEF OneRequest
<1> SUFFICES ASSUME NEW s \in Stock!Sources PROVE Ordered(s)'
  BY DEF Orders
<1>3. Ordered(s)
  BY DEF Orders
<1>4. /\ (\A v \in Workers : inv_req'[v].pc = "ordered" => inv_req'[v].d # s) <=>
           \A v \in Workers : inv_req[v].pc = "ordered" => inv_req[v].d # s
      /\ \A v \in Workers : inv_req'[v].op = "order" => inv_req'[v] = inv_req[v]
  BY <1>1, <1>2
<1> QED BY <1>3, <1>4 DEF Ordered

LEMMA OthersKeepPending ==
    ASSUME StockTypeInv, StockTypeInv', NEW w \in Workers, NEW op, op # "generate",
           OneRequest(w, op), OnePending,
           \A s \in Suggestions : source'[s] = "pending" => source[s] = "pending"
    PROVE  OnePending'
<1>1. inv_req'[w].pc # "suggest"
  BY DEF OneRequest, StockTypeInv, StockPlaced, PlanLabels
<1>2. \A v \in Workers : inv_req'[v].pc = "suggest" => inv_req[v].pc = "suggest"
  BY <1>1 DEF OneRequest
<1> QED BY <1>2 DEF OnePending

LEMMA PlanningStep ==
    ASSUME StockConstants, StockTypeInv, StockTypeInv', StockApart, OnePending, Orders, Stock!Next
    PROVE  OnePending' /\ Orders'
<1> USE DEF Stock!stock, Stock!cogs, Stock!planning, Stock!transfers
<1>t. /\ inv_req \in [Workers -> Stock!Request] /\ inv_aborts \in Nat
      /\ order \in [Stock!Sources -> Nat]
      /\ source \in [Stock!Sources -> {"none", "pending", "draft", "submitted", "approved",
                                      "dismissed", "rejected", "ordered", "converted"}]
      /\ Suggestions \subseteq Stock!Sources
      /\ \A w \in Workers : /\ inv_req[w].op = "order" <=> inv_req[w].pc \in OrderLabels
                            /\ inv_req[w].op = "order" => inv_req[w].d \in Stock!Sources
                            /\ inv_req[w].op = "generate" <=> inv_req[w].pc \in PlanLabels
                            /\ inv_req[w].op = "order" => inv_req[w].d # 0
  BY StockLocal DEF StockTypeInv, Stock!TypeOK, StockConstants, StockPlaced, Stock!Sources
<1>1. ASSUME NEW s \in Stock!Sources,
             NEW to \in {"draft", "submitted", "approved", "dismissed", "rejected"},
             Stock!ChangeSource(s, to)
      PROVE  OnePending' /\ Orders'
  <2>1. /\ \A w \in Workers : inv_req[w].d # s
        /\ source[s] \in {"none", "pending", "draft", "submitted"}
        /\ source' = [source EXCEPT ![s] = to] /\ UNCHANGED <<order, inv_req, inv_aborts>>
    BY <1>1 DEF Stock!ChangeSource, Stock!SourceMoves
  <2>2. /\ source'[s] = to /\ to \notin Final \cup {"pending"} /\ source[s] \notin Final
        /\ \A r \in Stock!Sources : r # s => source'[r] = source[r]
    BY <2>1, <1>t DEF Final
  <2>3. \A r \in Stock!Sources : source'[r] = "pending" => source[r] = "pending"
    BY <2>2
  <2>4. OnePending'
    BY <2>1, <2>3, <1>t DEF OnePending
  <2>5. ASSUME NEW r \in Stock!Sources PROVE Ordered(r)'
    BY <2>1, <2>2, <1>t DEF Orders, Ordered
  <2> QED BY <2>4, <2>5 DEF Orders
<1>2. ASSUME NEW t, Stock!CreateTransfer(t) PROVE OnePending' /\ Orders'
  BY <1>2 DEF Stock!CreateTransfer, OnePending, Orders, Ordered
<1>3. ASSUME NEW w \in Workers, AdjustSteps(w) PROVE OnePending' /\ Orders'
  <2>1. UNCHANGED <<source, order, inv_aborts>>
    BY <1>3, StockFrames
  <2> QED BY <1>3, <2>1, AdjustRequest, OthersKeepOrders, OthersKeepPending
<1>4. ASSUME NEW w \in Workers, CogsSteps(w) PROVE OnePending' /\ Orders'
  <2>1. UNCHANGED <<source, order, inv_aborts>>
    BY <1>4, StockFrames
  <2> QED BY <1>4, <2>1, CogsRequest, OthersKeepOrders, OthersKeepPending
<1>5. ASSUME NEW w \in Workers, TransferSteps(w) PROVE OnePending' /\ Orders'
  <2>1. UNCHANGED <<source, order, inv_aborts>>
    BY <1>5, StockFrames
  <2> QED BY <1>5, <2>1, TransferRequest, OthersKeepOrders, OthersKeepPending
<1>6. ASSUME NEW w \in Workers, Stock!Crash(w) PROVE OnePending' /\ Orders'
  <2>1. /\ \A v \in Workers : v # w => inv_req'[v] = inv_req[v]
        /\ inv_req'[w].pc = "idle" /\ inv_req'[w].op = "none"
        /\ inv_aborts' = inv_aborts + 1 /\ UNCHANGED <<source, order>>
    BY <1>6, <1>t, CrashRequest DEF Stock!Crash, OneRequest, Stock!Idle
  <2>2. OnePending'
    BY <2>1 DEF OnePending
  <2>3. ASSUME NEW s \in Stock!Sources PROVE Ordered(s)'
    <3>1. Ordered(s) /\ order[s] \in Nat
      BY <1>t DEF Orders
    <3>2. \A v \in Workers : inv_req'[v].op = "order" \/ inv_req'[v].pc = "ordered" =>
             inv_req'[v] = inv_req[v]
      BY <2>1
    <3> QED BY <3>1, <3>2, <2>1, <1>t DEF Ordered
  <2> QED BY <2>2, <2>3 DEF Orders
<1>7. ASSUME NEW w \in Workers, GenerateSteps(w) PROVE OnePending' /\ Orders'
  <2>1. OneRequest(w, "generate") /\ UNCHANGED <<order, inv_aborts>>
    BY <1>7, GenerateRequest, StockFrames
  <2>2. CASE Stock!Generate(w)
    <3>1. UNCHANGED source /\ inv_req'[w].pc = "check"
      BY <2>2, <1>t DEF Stock!Generate, Stock!Idle
    <3>2. \A v \in Workers : inv_req'[v].pc = "suggest" => inv_req[v].pc = "suggest"
      BY <2>1, <3>1 DEF OneRequest
    <3> QED BY <2>1, <3>1, <3>2, OthersKeepOrders DEF OnePending
  <2>3. CASE Stock!CheckPending(w)
    <3>1. /\ UNCHANGED source
          /\ inv_req'[w].pc = "suggest" => \A s \in Suggestions : source[s] # "pending"
      BY <2>3, <1>t DEF Stock!CheckPending, Stock!Pending, Stock!Goto, Stock!Finish, Stock!Idle,
         Stock!Request
    <3>2. \A v \in Workers : inv_req'[v].pc = "suggest" =>
             inv_req[v].pc = "suggest" \/ \A s \in Suggestions : source[s] # "pending"
      BY <2>1, <3>1 DEF OneRequest
    <3> QED BY <2>1, <3>1, <3>2, OthersKeepOrders DEF OnePending
  <2>4. CASE Stock!InsertSuggestion(w)
    <3>1. PICK s \in Suggestions :
             /\ \A r \in Suggestions : source[r] = "none" <=> r >= s
             /\ source' = [source EXCEPT ![s] = "pending"]
      BY <2>4 DEF Stock!InsertSuggestion
    <3>2. source[s] = "none" /\ source'[s] = "pending" /\ s \in Stock!Sources
      BY <3>1, <1>t DEF StockConstants
    <3>3. \A r \in Stock!Sources : r # s => source'[r] = source[r]
      BY <3>1, <1>t
    <3>4. inv_req[w].pc = "suggest" /\ inv_req'[w].pc = "idle"
      BY <2>4, <1>t DEF Stock!InsertSuggestion, Stock!At, Stock!Finish, Stock!Idle
    <3>5. \A r \in Suggestions : source[r] # "pending"
      BY <3>4 DEF OnePending
    <3>6. \A v \in Workers : v # w => inv_req'[v].pc # "suggest"
      BY <2>1, <3>4, <1>t DEF StockApart, OneRequest, PlanLabels
    <3>7. \A r \in Suggestions : source'[r] = "pending" => r = s
      BY <3>3, <3>5, <1>t
    <3>8. OnePending'
      BY <3>4, <3>6, <3>7 DEF OnePending
    <3>9. \A r \in Stock!Sources :
              \/ source'[r] = source[r]
              \/ source[r] # "approved" /\ source[r] \notin Final /\ source'[r] \notin Final
      <4> SUFFICES ASSUME NEW r \in Stock!Sources
                   PROVE  \/ source'[r] = source[r]
                          \/ /\ source[r] # "approved" /\ source[r] \notin Final
                             /\ source'[r] \notin Final
        OBVIOUS
      <4>1. CASE r = s
        BY <4>1, <3>2 DEF Final
      <4>2. CASE r # s
        BY <4>2, <3>3
      <4> QED BY <4>1, <4>2
    <3>10. Orders'
      <4> HIDE DEF Orders
      <4>1. ASSUME NEW r \in Stock!Sources PROVE Ordered(r)'
        <5>1. Ordered(r) /\ (\A v \in Workers : inv_req'[v].op = "order" \/ inv_req'[v].pc = "ordered"
                               \/ inv_req[v].pc = "ordered" => inv_req'[v] = inv_req[v])
          <6>1. inv_req[w].op = "generate" /\ inv_req'[w].op = "none"
            BY <2>4, <3>4, <1>t
               DEF Stock!InsertSuggestion, Stock!Finish, Stock!Idle, PlanLabels
          <6> QED BY <2>1, <3>4, <6>1 DEF OneRequest, Orders
        <5> QED BY <2>1, <3>9, <5>1 DEF Ordered
      <4> QED BY <4>1 DEF Orders
    <3> QED BY <3>8, <3>10
  <2> QED BY <1>7, <2>2, <2>3, <2>4 DEF GenerateSteps
<1>8. ASSUME NEW w \in Workers, OrderSteps(w) PROVE OnePending'
  <2>1. \A s \in Suggestions : source'[s] = "pending" => source[s] = "pending"
    <3>1. ASSUME NEW s \in Stock!Sources, Stock!Order(w, s) PROVE UNCHANGED source
      BY <3>1 DEF Stock!Order
    <3>2. CASE Stock!InsertOrder(w)
      BY <3>2 DEF Stock!InsertOrder
    <3>3. CASE Stock!SaveSource(w)
      BY <3>3, <1>t DEF Stock!SaveSource
    <3> QED BY <1>8, <3>1, <3>2, <3>3 DEF OrderSteps
  <2> QED BY <1>8, <2>1, OrderRequest, OthersKeepPending
<1>9. ASSUME NEW w \in Workers, OrderSteps(w) PROVE Orders'
  <2>1. /\ \A v \in Workers : v # w => inv_req'[v] = inv_req[v]
        /\ UNCHANGED inv_aborts
    BY <1>9, OrderRequest, StockFrames DEF OneRequest
  <2>2. ASSUME NEW s \in Stock!Sources, Stock!Order(w, s) PROVE Orders'
    <3>1. /\ source[s] = "approved" /\ UNCHANGED <<source, order>>
          /\ inv_req'[w].pc = "po" /\ inv_req'[w].d = s /\ inv_req[w].pc = "idle"
      BY <2>2, <1>t DEF Stock!Order, Stock!Idle, Stock!MayStart, Stock!Busy, Stock!At
    <3>2. ASSUME NEW r \in Stock!Sources PROVE Ordered(r)'
      <4>1. Ordered(r)
        BY DEF Orders
      <4>2. /\ (\A v \in Workers : inv_req'[v].pc = "ordered" => inv_req'[v].d # r) <=>
                  \A v \in Workers : inv_req[v].pc = "ordered" => inv_req[v].d # r
            /\ \A v \in Workers : v = w \/ inv_req'[v] = inv_req[v]
        BY <2>1, <3>1
      <4> QED BY <4>1, <4>2, <3>1, <2>1 DEF Ordered
    <3> QED BY <3>2 DEF Orders
  <2>3. CASE Stock!InsertOrder(w)
    <3>1. PICK s \in Stock!Sources : s = inv_req[w].d
      BY <2>3, <1>t DEF Stock!InsertOrder, Stock!At, OrderLabels
    <3>2. /\ inv_req[w].pc = "po" /\ inv_req[w].op = "order" /\ s # 0
          /\ order' = [order EXCEPT ![s] = @ + 1] /\ UNCHANGED source
          /\ inv_req'[w].pc = "ordered" /\ inv_req'[w].d = s
      BY <2>3, <3>1, <1>t DEF Stock!InsertOrder, Stock!At, Stock!Goto, Stock!Request, OrderLabels
    <3>3. \A v \in Workers : v # w => inv_req[v].d # s
      BY <3>1, <3>2 DEF StockApart
    <3>4. Ordered(s) /\ source[s] = "approved" /\ order[s] \in Nat /\ order[s] <= inv_aborts
      <4>1. Ordered(s) /\ order[s] \in Nat
        BY <1>t DEF Orders
      <4>2. source[s] = "approved"
        BY <3>1, <3>2, <4>1 DEF Ordered
      <4>3. \A v \in Workers : inv_req[v].pc = "ordered" => inv_req[v].d # s
        BY <3>2, <3>3
      <4> QED BY <4>1, <4>2, <4>3 DEF Ordered, Final
    <3>5. order'[s] = order[s] + 1 /\ \A r \in Stock!Sources : r # s => order'[r] = order[r]
      BY <3>2, <1>t
    <3>6. Ordered(s)'
      BY <3>2, <3>4, <3>5, <2>1, <1>t DEF Ordered, Final
    <3>7. ASSUME NEW r \in Stock!Sources, r # s PROVE Ordered(r)'
      <4>1. Ordered(r)
        BY DEF Orders
      <4>2. \A v \in Workers : v = w \/ inv_req'[v] = inv_req[v]
        BY <2>1
      <4> QED BY <4>1, <4>2, <3>1, <3>2, <3>5, <3>7, <2>1 DEF Ordered
    <3> QED BY <3>6, <3>7 DEF Orders
  <2>4. CASE Stock!SaveSource(w)
    <3>1. PICK s \in Stock!Sources : s = inv_req[w].d
      BY <2>4, <1>t DEF Stock!SaveSource, Stock!At, OrderLabels
    <3>2. /\ inv_req[w].pc = "ordered" /\ inv_req[w].op = "order" /\ s # 0
          /\ source' = [source EXCEPT ![s] = IF s \in Suggestions THEN "ordered" ELSE "converted"]
          /\ UNCHANGED order
          /\ inv_req'[w].pc = "idle" /\ inv_req'[w].op = "none"
      BY <2>4, <3>1, <1>t DEF Stock!SaveSource, Stock!At, Stock!Finish, Stock!Idle, OrderLabels
    <3>3. \A v \in Workers : v # w => inv_req[v].d # s
      BY <3>1, <3>2 DEF StockApart
    <3>4. Ordered(s) /\ order[s] >= 1
      BY <3>1, <3>2 DEF Orders, Ordered
    <3>5. source'[s] \in Final /\ \A r \in Stock!Sources : r # s => source'[r] = source[r]
      BY <3>2, <1>t DEF Final
    <3>6. Ordered(s)'
      BY <3>2, <3>3, <3>4, <3>5, <2>1 DEF Ordered
    <3>7. ASSUME NEW r \in Stock!Sources, r # s PROVE Ordered(r)'
      <4>1. Ordered(r)
        BY DEF Orders
      <4>2. \A v \in Workers : v = w \/ inv_req'[v] = inv_req[v]
        BY <2>1
      <4> QED BY <4>1, <4>2, <3>1, <3>2, <3>5, <3>7, <2>1 DEF Ordered
    <3> QED BY <3>6, <3>7 DEF Orders
  <2> QED BY <1>9, <2>2, <2>3, <2>4 DEF OrderSteps
<1> QED BY <1>1, <1>2, <1>3, <1>4, <1>5, <1>6, <1>7, <1>8, <1>9, StockSteps DEF Stock!Next

LEMMA AtMostOne ==
    ASSUME NEW S, \A x, y \in S : x = y
    PROVE  IsFiniteSet(S) /\ Cardinality(S) <= 1
<1>1. CASE S = {}
  BY <1>1, FS_EmptySet
<1>2. ASSUME NEW x \in S PROVE IsFiniteSet(S) /\ Cardinality(S) <= 1
  <2>1. S = {x}
    BY <1>2
  <2>2. IsFiniteSet({x}) /\ Cardinality({x}) = 1
    BY FS_Singleton
  <2>3. IsFiniteSet(S) /\ Cardinality(S) = 1
    BY <2>1, <2>2, Zenon
  <2> QED BY <2>3
<1> QED BY <1>1, <1>2

LEMMA OrdersAreOnce ==
    ASSUME StockTypeInv, OnePending, Orders
    PROVE  Stock!OrderedOnce
<1> DEFINE P == {s \in Suggestions : source[s] = "pending"}
<1>1. \A x, y \in P : x = y
  BY DEF OnePending
<1>2. Cardinality(P) <= 1
  <2> HIDE DEF P
  <2> QED BY <1>1, AtMostOne
<1>3. Stock!Cardinality(P) <= 1
  BY <1>2, SameStockCount
<1>4. \A s \in Stock!Sources :
          /\ order[s] <= 1 + inv_aborts
          /\ source[s] \in {"ordered", "converted"} => order[s] >= 1
  BY DEF Orders, Ordered, Final
<1> QED BY <1>3, <1>4 DEF Stock!OrderedOnce

-----------------------------------------------------------------------------
(* Transfers: the lines a request has moved are those before the one it is at, and *)
(* of a transfer in draft nothing is moved but by it and by requests that died.    *)

OutDone(q, k) == q.pc = "complete" \/ k < q.line \/ (q.pc = "in" /\ k = q.line)
InDone(q, k) == q.pc = "complete" \/ k < q.line

Moved(t, k) ==
    /\ out[t][k] <= 1 + inv_aborts /\ in[t][k] <= 1 + inv_aborts
    /\ stock_transfer[t] = "completed" => out[t][k] >= 1 /\ in[t][k] >= 1
    /\ \A w \in Workers : inv_req[w].op = "transfer" /\ inv_req[w].d = t =>
          /\ stock_transfer[t] = "draft"
          /\ OutDone(inv_req[w], k) => out[t][k] >= 1
          /\ InDone(inv_req[w], k) => in[t][k] >= 1
    /\ stock_transfer[t] # "completed" =>
          /\ (\A w \in Workers : inv_req[w].op = "transfer" /\ inv_req[w].d = t =>
                 ~OutDone(inv_req[w], k)) => out[t][k] <= inv_aborts
          /\ (\A w \in Workers : inv_req[w].op = "transfer" /\ inv_req[w].d = t =>
                 ~InDone(inv_req[w], k)) => in[t][k] <= inv_aborts

AllMoved == \A t \in StockTransfers, k \in 1..MaxLines : Moved(t, k)

\* A transfer that no request on it changes is moved as it was.
LEMMA OthersKeepMoved ==
    ASSUME NEW t, NEW k, Moved(t, k),
           out'[t][k] = out[t][k], in'[t][k] = in[t][k], inv_aborts' = inv_aborts,
           stock_transfer'[t] = stock_transfer[t],
           \A v \in Workers :
              \/ inv_req'[v] = inv_req[v]
              \/ /\ ~(inv_req[v].op = "transfer" /\ inv_req[v].d = t)
                 /\ ~(inv_req'[v].op = "transfer" /\ inv_req'[v].d = t)
    PROVE  Moved(t, k)'
<1>1. \A v \in Workers :
         /\ (inv_req'[v].op = "transfer" /\ inv_req'[v].d = t) <=>
               inv_req[v].op = "transfer" /\ inv_req[v].d = t
         /\ inv_req'[v].op = "transfer" /\ inv_req'[v].d = t => inv_req'[v] = inv_req[v]
  OBVIOUS
<1> QED BY <1>1 DEF Moved

LEMMA MovedStep ==
    ASSUME StockConstants, StockTypeInv, StockTypeInv', StockApart, AllMoved, Stock!Next
    PROVE  AllMoved'
<1> USE DEF Stock!stock, Stock!cogs, Stock!planning, Stock!transfers
<1>t. /\ inv_req \in [Workers -> Stock!Request] /\ inv_aborts \in Nat
      /\ stock_transfer \in [StockTransfers -> {"none", "draft", "completed"}]
      /\ out \in [StockTransfers -> [1..MaxLines -> Nat]]
      /\ in \in [StockTransfers -> [1..MaxLines -> Nat]] /\ MaxLines \in Nat \ {0}
  BY DEF StockTypeInv, Stock!TypeOK, StockConstants
<1>w. \A w \in Workers :
         /\ inv_req[w].op = "transfer" <=> inv_req[w].pc \in TransferLabels
         /\ inv_req[w].op = "transfer" => inv_req[w].d \in StockTransfers /\ inv_req[w].d # 0
         /\ inv_req[w].pc \in {"out", "in"} => inv_req[w].line \in 1..MaxLines
  BY StockLocal DEF StockPlaced
<1>a. ASSUME NEW w \in Workers, NEW op, op # "transfer", OneRequest(w, op),
             UNCHANGED <<out, in, stock_transfer, inv_aborts>>
      PROVE  AllMoved'
  <2>1. \A v \in Workers : \/ inv_req'[v] = inv_req[v]
                           \/ inv_req[v].op # "transfer" /\ inv_req'[v].op # "transfer"
    BY <1>a DEF OneRequest
  <2>2. ASSUME NEW t \in StockTransfers, NEW k \in 1..MaxLines PROVE Moved(t, k)'
    <3>1. Moved(t, k)
      BY DEF AllMoved
    <3> QED BY <3>1, <2>1, <1>a, OthersKeepMoved
  <2> QED BY <2>2 DEF AllMoved
<1>1. ASSUME NEW s, NEW to, Stock!ChangeSource(s, to) PROVE AllMoved'
  BY <1>1 DEF Stock!ChangeSource, AllMoved, Moved
<1>2. ASSUME NEW t \in StockTransfers, Stock!CreateTransfer(t) PROVE AllMoved'
  <2>1. /\ stock_transfer[t] = "none" /\ stock_transfer' = [stock_transfer EXCEPT ![t] = "draft"]
        /\ UNCHANGED <<out, in, inv_req, inv_aborts>>
    BY <1>2 DEF Stock!CreateTransfer
  <2>2. stock_transfer'[t] = "draft" /\ \A r \in StockTransfers : r # t =>
           stock_transfer'[r] = stock_transfer[r]
    BY <2>1, <1>t
  <2>3. ASSUME NEW r \in StockTransfers, NEW k \in 1..MaxLines PROVE Moved(r, k)'
    <3>1. Moved(r, k)
      BY DEF AllMoved
    <3>2. CASE r = t
      BY <3>1, <3>2, <2>1, <2>2 DEF Moved
    <3>3. CASE r # t
      BY <3>1, <3>3, <2>1, <2>2 DEF Moved
    <3> QED BY <3>2, <3>3
  <2> QED BY <2>3 DEF AllMoved
<1>3. ASSUME NEW w \in Workers, AdjustSteps(w) PROVE AllMoved'
  BY <1>3, <1>a, AdjustRequest, StockFrames
<1>4. ASSUME NEW w \in Workers, CogsSteps(w) PROVE AllMoved'
  BY <1>4, <1>a, CogsRequest, StockFrames
<1>5. ASSUME NEW w \in Workers, GenerateSteps(w) PROVE AllMoved'
  BY <1>5, <1>a, GenerateRequest, StockFrames
<1>6. ASSUME NEW w \in Workers, OrderSteps(w) PROVE AllMoved'
  BY <1>6, <1>a, OrderRequest, StockFrames
<1>7. ASSUME NEW w \in Workers, Stock!Crash(w) PROVE AllMoved'
  <2>1. /\ \A v \in Workers : v # w => inv_req'[v] = inv_req[v]
        /\ inv_req'[w].op = "none" /\ inv_aborts' = inv_aborts + 1
        /\ UNCHANGED <<out, in, stock_transfer>>
    BY <1>7, CrashRequest DEF Stock!Crash, OneRequest, Stock!Idle
  <2>2. \A v \in Workers : inv_req'[v].op = "transfer" => inv_req'[v] = inv_req[v]
    BY <2>1
  <2>3. ASSUME NEW t \in StockTransfers, NEW k \in 1..MaxLines PROVE Moved(t, k)'
    <3>1. Moved(t, k) /\ out[t][k] \in Nat /\ in[t][k] \in Nat
      BY <1>t DEF AllMoved
    <3> QED BY <3>1, <2>1, <2>2, <1>t DEF Moved
  <2> QED BY <2>3 DEF AllMoved
<1>8. ASSUME NEW w \in Workers, TransferSteps(w) PROVE AllMoved'
  <2>1. /\ \A v \in Workers : v # w => inv_req'[v] = inv_req[v]
        /\ UNCHANGED inv_aborts
    BY <1>8, TransferRequest, StockFrames DEF OneRequest
  <2>a. ASSUME NEW t, inv_req'[w].op = "transfer" => inv_req'[w].d = t,
               inv_req[w].op = "transfer" => inv_req[w].d = t,
               NEW r \in StockTransfers, r # t, NEW k \in 1..MaxLines,
               out'[r][k] = out[r][k], in'[r][k] = in[r][k], stock_transfer'[r] = stock_transfer[r]
        PROVE  Moved(r, k)'
    <3>1. Moved(r, k)
      BY DEF AllMoved
    <3>2. \A v \in Workers :
              \/ inv_req'[v] = inv_req[v]
              \/ /\ ~(inv_req[v].op = "transfer" /\ inv_req[v].d = r)
                 /\ ~(inv_req'[v].op = "transfer" /\ inv_req'[v].d = r)
      BY <2>1, <2>a
    <3> QED BY <2>a, <2>1, <3>1, <3>2, OthersKeepMoved
  <2>2. ASSUME NEW t \in StockTransfers, Stock!CompleteTransfer(w, t) PROVE AllMoved'
    <3>1. /\ stock_transfer[t] = "draft" /\ UNCHANGED <<out, in, stock_transfer>>
          /\ inv_req'[w].pc = "out" /\ inv_req'[w].d = t /\ inv_req'[w].op = "transfer"
          /\ inv_req'[w].line = 1 /\ inv_req[w].pc = "idle"
          /\ \A v \in Workers : inv_req[v].d # t
      BY <2>2, <1>t DEF Stock!CompleteTransfer, Stock!Idle, Stock!MayStart, Stock!Busy, Stock!At
    <3>2. inv_req[w].op # "transfer"
      BY <3>1, <1>w DEF TransferLabels
    <3>3. ASSUME NEW k \in 1..MaxLines PROVE Moved(t, k)'
      <4>1. Moved(t, k) /\ k \in Nat /\ k >= 1
        BY <1>t DEF AllMoved
      <4>2. ~OutDone(inv_req'[w], k) /\ ~InDone(inv_req'[w], k)
        BY <3>1, <4>1 DEF OutDone, InDone
      <4>3. \A v \in Workers : inv_req'[v].op = "transfer" /\ inv_req'[v].d = t => v = w
        BY <2>1, <3>1
      <4> QED BY <4>1, <4>2, <4>3, <3>1, <2>1 DEF Moved
    <3>4. ASSUME NEW r \in StockTransfers, r # t, NEW k \in 1..MaxLines PROVE Moved(r, k)'
      BY <3>1, <3>2, <3>4, <2>a
    <3> QED BY <3>3, <3>4 DEF AllMoved
  <2>b. ASSUME inv_req[w].pc \in TransferLabels
        PROVE  /\ inv_req[w].op = "transfer" /\ inv_req[w].d \in StockTransfers
               /\ \A v \in Workers : v # w => inv_req[v].d # inv_req[w].d
    BY <2>b, <1>w DEF StockApart
  <2>3. CASE Stock!TakeOut(w)
    <3>1. /\ inv_req[w].pc = "out" /\ inv_req[w].pc \in TransferLabels
          /\ out' = [out EXCEPT ![inv_req[w].d][inv_req[w].line] = @ + 1]
          /\ UNCHANGED <<in, stock_transfer>>
          /\ inv_req'[w] = [inv_req[w] EXCEPT !.pc = "in"]
      BY <2>3, <1>t DEF Stock!TakeOut, Stock!At, Stock!Goto, TransferLabels
    <3>2. PICK t \in StockTransfers, j \in 1..MaxLines : t = inv_req[w].d /\ j = inv_req[w].line
      BY <3>1, <2>b, <1>w
    <3>3. /\ inv_req'[w].pc = "in" /\ inv_req'[w].line = j /\ inv_req'[w].d = t
          /\ inv_req'[w].op = "transfer"
      BY <3>1, <3>2, <2>b, <1>t DEF Stock!Request
    <3>4. \A r \in StockTransfers, k \in 1..MaxLines :
             out'[r][k] = IF r = t /\ k = j THEN out[r][k] + 1 ELSE out[r][k]
      <4> DEFINE K == 1..MaxLines
      <4>1. out \in [StockTransfers -> [K -> Nat]] /\ j \in K
        BY <1>t
      <4>2. out' = [out EXCEPT ![t][j] = @ + 1]
        BY <3>1, <3>2, Zenon
      <4> HIDE DEF K
      <4>3. \A r \in StockTransfers, k \in K :
               out'[r][k] = IF r = t /\ k = j THEN out[r][k] + 1 ELSE out[r][k]
        BY <4>1, <4>2, CountsCount
      <4> QED BY <4>3, Zenon DEF K
    <3>5. ASSUME NEW k \in 1..MaxLines PROVE Moved(t, k)'
      <4>1. /\ Moved(t, k) /\ k \in Nat /\ j \in Nat /\ out[t][k] \in Nat /\ in[t][k] \in Nat
            /\ out'[t][k] = IF k = j THEN out[t][k] + 1 ELSE out[t][k]
        BY <1>t, <3>4 DEF AllMoved
      <4>2. /\ \A v \in Workers : inv_req'[v].op = "transfer" /\ inv_req'[v].d = t => v = w
            /\ \A v \in Workers : inv_req[v].op = "transfer" /\ inv_req[v].d = t => v = w
        BY <2>1, <2>b, <3>1, <3>2
      <4>3. /\ OutDone(inv_req'[w], k) <=> k = j \/ OutDone(inv_req[w], k)
            /\ OutDone(inv_req[w], k) <=> k < j
            /\ InDone(inv_req'[w], k) <=> InDone(inv_req[w], k)
        BY <3>1, <3>2, <3>3, <4>1 DEF OutDone, InDone
      <4>4. stock_transfer[t] = "draft"
        BY <4>1, <2>b, <3>1, <3>2 DEF Moved
      <4>5. /\ OutDone(inv_req[w], k) => out[t][k] >= 1
            /\ ~OutDone(inv_req[w], k) => out[t][k] <= inv_aborts
            /\ out[t][k] <= 1 + inv_aborts /\ in[t][k] <= 1 + inv_aborts
            /\ InDone(inv_req[w], k) => in[t][k] >= 1
            /\ ~InDone(inv_req[w], k) => in[t][k] <= inv_aborts
        BY <4>1, <4>2, <4>4, <2>b, <3>1, <3>2 DEF Moved
      <4>6. /\ OutDone(inv_req'[w], k) => out'[t][k] >= 1
            /\ ~OutDone(inv_req'[w], k) => out'[t][k] <= inv_aborts
            /\ out'[t][k] <= 1 + inv_aborts
        BY <4>1, <4>3, <4>5, <1>t
      <4> QED BY <4>2, <4>3, <4>4, <4>5, <4>6, <2>1, <3>1, <3>3 DEF Moved
    <3>6. ASSUME NEW r \in StockTransfers, r # t, NEW k \in 1..MaxLines PROVE Moved(r, k)'
      <4>1. out'[r][k] = out[r][k]
        BY <3>4, <3>6
      <4> QED BY <4>1, <3>1, <3>2, <3>3, <3>6, <2>a
    <3> QED BY <3>5, <3>6 DEF AllMoved
  <2>4. CASE Stock!PutIn(w)
    <3>1. /\ inv_req[w].pc = "in" /\ inv_req[w].pc \in TransferLabels
          /\ in' = [in EXCEPT ![inv_req[w].d][inv_req[w].line] = @ + 1]
          /\ UNCHANGED <<out, stock_transfer>>
      BY <2>4 DEF Stock!PutIn, Stock!At, TransferLabels
    <3>2. PICK t \in StockTransfers, j \in 1..MaxLines : t = inv_req[w].d /\ j = inv_req[w].line
      BY <3>1, <2>b, <1>w
    <3>3. /\ inv_req'[w].d = t /\ inv_req'[w].op = "transfer"
          /\ inv_req'[w].line = IF j < MaxLines THEN j + 1 ELSE 0
          /\ inv_req'[w].pc = IF j < MaxLines THEN "out" ELSE "complete"
      BY <2>4, <3>1, <3>2, <2>b, <1>t DEF Stock!PutIn, Stock!Request
    <3>4. \A r \in StockTransfers, k \in 1..MaxLines :
             in'[r][k] = IF r = t /\ k = j THEN in[r][k] + 1 ELSE in[r][k]
      <4> DEFINE K == 1..MaxLines
      <4>1. in \in [StockTransfers -> [K -> Nat]] /\ j \in K
        BY <1>t
      <4>2. in' = [in EXCEPT ![t][j] = @ + 1]
        BY <3>1, <3>2, Zenon
      <4> HIDE DEF K
      <4>3. \A r \in StockTransfers, k \in K :
               in'[r][k] = IF r = t /\ k = j THEN in[r][k] + 1 ELSE in[r][k]
        BY <4>1, <4>2, CountsCount
      <4> QED BY <4>3, Zenon DEF K
    <3>5. ASSUME NEW k \in 1..MaxLines PROVE Moved(t, k)'
      <4>1. /\ Moved(t, k) /\ k \in Nat /\ j \in Nat /\ out[t][k] \in Nat /\ in[t][k] \in Nat
            /\ in'[t][k] = IF k = j THEN in[t][k] + 1 ELSE in[t][k]
            /\ k <= MaxLines /\ j <= MaxLines /\ k >= 1
        BY <1>t, <3>4 DEF AllMoved
      <4>2. /\ \A v \in Workers : inv_req'[v].op = "transfer" /\ inv_req'[v].d = t => v = w
            /\ \A v \in Workers : inv_req[v].op = "transfer" /\ inv_req[v].d = t => v = w
        BY <2>1, <2>b, <3>1, <3>2
      <4>3. /\ OutDone(inv_req'[w], k) <=> k <= j
            /\ OutDone(inv_req[w], k) <=> k <= j
            /\ InDone(inv_req'[w], k) <=> k <= j
            /\ InDone(inv_req[w], k) <=> k < j
        <5>1. CASE j < MaxLines
          BY <5>1, <3>1, <3>2, <3>3, <4>1 DEF OutDone, InDone
        <5>2. CASE ~(j < MaxLines)
          BY <5>2, <3>1, <3>2, <3>3, <4>1, <1>t DEF OutDone, InDone
        <5> QED BY <5>1, <5>2
      <4>4. stock_transfer[t] = "draft"
        BY <4>1, <2>b, <3>1, <3>2 DEF Moved
      <4>5. /\ OutDone(inv_req[w], k) => out[t][k] >= 1
            /\ ~OutDone(inv_req[w], k) => out[t][k] <= inv_aborts
            /\ out[t][k] <= 1 + inv_aborts /\ in[t][k] <= 1 + inv_aborts
            /\ InDone(inv_req[w], k) => in[t][k] >= 1
            /\ ~InDone(inv_req[w], k) => in[t][k] <= inv_aborts
        BY <4>1, <4>2, <4>4, <2>b, <3>1, <3>2 DEF Moved
      <4>6. /\ InDone(inv_req'[w], k) => in'[t][k] >= 1
            /\ ~InDone(inv_req'[w], k) => in'[t][k] <= inv_aborts
            /\ in'[t][k] <= 1 + inv_aborts
        BY <4>1, <4>3, <4>5, <1>t
      <4> QED BY <4>2, <4>3, <4>4, <4>5, <4>6, <2>1, <3>1, <3>3 DEF Moved
    <3>6. ASSUME NEW r \in StockTransfers, r # t, NEW k \in 1..MaxLines PROVE Moved(r, k)'
      <4>1. in'[r][k] = in[r][k]
        BY <3>4, <3>6
      <4> QED BY <4>1, <3>1, <3>2, <3>3, <3>6, <2>a
    <3> QED BY <3>5, <3>6 DEF AllMoved
  <2>5. CASE Stock!SaveTransfer(w)
    <3>1. /\ inv_req[w].pc = "complete" /\ inv_req[w].pc \in TransferLabels
          /\ stock_transfer' = [stock_transfer EXCEPT ![inv_req[w].d] = "completed"]
          /\ UNCHANGED <<out, in>> /\ inv_req'[w].op = "none"
      BY <2>5, <1>t DEF Stock!SaveTransfer, Stock!At, Stock!Finish, Stock!Idle, TransferLabels
    <3>2. PICK t \in StockTransfers : t = inv_req[w].d
      BY <3>1, <2>b
    <3>3. stock_transfer'[t] = "completed" /\ \A r \in StockTransfers : r # t =>
             stock_transfer'[r] = stock_transfer[r]
      BY <3>1, <3>2, <1>t
    <3>4. ASSUME NEW k \in 1..MaxLines PROVE Moved(t, k)'
      <4>1. Moved(t, k)
        BY DEF AllMoved
      <4>2. \A v \in Workers : ~(inv_req'[v].op = "transfer" /\ inv_req'[v].d = t)
        BY <2>1, <2>b, <3>1, <3>2
      <4>3. out[t][k] >= 1 /\ in[t][k] >= 1
        BY <4>1, <3>1, <3>2, <2>b DEF Moved, OutDone, InDone
      <4> QED BY <4>1, <4>2, <4>3, <3>1, <3>3, <2>1 DEF Moved
    <3>5. ASSUME NEW r \in StockTransfers, r # t, NEW k \in 1..MaxLines PROVE Moved(r, k)'
      BY <3>1, <3>2, <3>3, <3>5, <2>a
    <3> QED BY <3>4, <3>5 DEF AllMoved
  <2> QED BY <1>8, <2>2, <2>3, <2>4, <2>5 DEF TransferSteps
<1> QED BY <1>1, <1>2, <1>3, <1>4, <1>5, <1>6, <1>7, <1>8, StockSteps DEF Stock!Next

LEMMA MovedMovesAll ==
    ASSUME StockConstants, StockTypeInv, AllMoved
    PROVE  Stock!TransferMovesAll
<1>1. ASSUME NEW t \in StockTransfers, stock_transfer[t] = "completed", NEW k \in 1..MaxLines
      PROVE  out[t][k] \in 1..1 + inv_aborts /\ in[t][k] \in 1..1 + inv_aborts
  <2>1. out[t][k] \in Nat /\ in[t][k] \in Nat /\ inv_aborts \in Nat
    BY DEF StockTypeInv, Stock!TypeOK
  <2>2. Moved(t, k)
    BY DEF AllMoved
  <2> QED BY <1>1, <2>1, <2>2 DEF Moved
<1> QED BY <1>1 DEF Stock!TransferMovesAll

-----------------------------------------------------------------------------
(* The theorems about stock. *)

StockInv ==
    /\ StockTypeInv /\ StockApart
    /\ Movements /\ CogsUsed
    /\ OnePending /\ Orders
    /\ AllMoved

LEMMA StockInvStart ==
    ASSUME StockConstants, Stock!Init
    PROVE  StockInv
<1>1. \A w \in Workers : inv_req[w] = Stock!Idle
  <2>1. inv_req = [w \in Workers |-> Stock!Idle]
    BY DEF Stock!Init
  <2> QED BY <2>1, Zenon
<1>2. Stock!Idle.op = "none" /\ Stock!Idle.pc = "idle" /\ Stock!Idle.d = 0
  BY DEF Stock!Idle
<1>3. /\ onhand = ReorderPoint /\ moves = <<>> /\ entries = 0 /\ layer = Received /\ runs = 0
      /\ used = [l \in Layers |-> 0] /\ source = [s \in Stock!Sources |-> "none"]
      /\ order = [s \in Stock!Sources |-> 0] /\ inv_aborts = 0
      /\ stock_transfer = [t \in StockTransfers |-> "none"] /\ inv_offered \in StockOfferings
      /\ out = [t \in StockTransfers |-> [k \in 1..MaxLines |-> 0]] /\ in = out
      /\ inv_req = [w \in Workers |-> Stock!Idle]
  BY DEF Stock!Init, Stock!NoUse
<1>4. StockTypeInv
  <2>1. moves \in Seq(MoveRow) /\ Len(moves) = 0 /\ DOMAIN moves = {}
    BY <1>3
  <2>2. inv_req \in [Workers -> Stock!Request] /\ \A w \in Workers : StockPlaced(inv_req[w])
    BY <1>3, StockIdle
  <2>3. Stock!TypeOK
    BY <1>3, <2>1, <2>2 DEF Stock!TypeOK, StockConstants
  <2> QED BY <2>1, <2>2, <2>3 DEF StockTypeInv
<1>5. StockApart
  BY <1>1, <1>2 DEF StockApart
<1>6. Movements
  <2>1. TotalMoves(moves) = 0
    <3>1. [i \in DOMAIN moves |-> moves[i].q] \in [{} -> Int]
      BY <1>3
    <3>2. SumOf([i \in DOMAIN moves |-> moves[i].q]) = 0
      BY <3>1, FS_EmptySet, SumZero
    <3> QED BY <3>2 DEF TotalMoves
  <2> QED BY <1>1, <1>2, <1>3, <2>1 DEF Movements, StockConstants
<1>7. CogsUsed
  BY <1>1, <1>2, <1>3 DEF CogsUsed, StockConstants
<1>8. OnePending /\ Orders
  BY <1>1, <1>2, <1>3 DEF OnePending, Orders, Ordered, Final, Stock!Sources
<1>9. AllMoved
  <2> SUFFICES ASSUME NEW t \in StockTransfers, NEW k \in 1..MaxLines PROVE Moved(t, k)
    BY DEF AllMoved
  <2>1. out[t][k] = 0 /\ in[t][k] = 0 /\ stock_transfer[t] = "none" /\ inv_aborts = 0
    BY <1>3
  <2> QED BY <2>1, <1>1, <1>2 DEF Moved
<1> QED BY <1>4, <1>5, <1>6, <1>7, <1>8, <1>9 DEF StockInv

LEMMA StockStays ==
    ASSUME StockInv, UNCHANGED Stock!vars
    PROVE  StockInv'
<1>1. UNCHANGED <<onhand, moves, entries, layer, used, runs, source, order, stock_transfer, out, in,
                  inv_req, inv_offered, inv_aborts>>
  BY DEF Stock!vars, Stock!stock, Stock!cogs, Stock!planning, Stock!transfers
<1>2. StockTypeInv'
  BY <1>1 DEF StockInv, StockTypeInv, Stock!TypeOK
<1>3. StockApart' /\ Movements' /\ CogsUsed'
  BY <1>1 DEF StockInv, StockApart, Movements, CogsUsed
<1>4. OnePending' /\ Orders'
  BY <1>1 DEF StockInv, OnePending, Orders, Ordered
<1>5. AllMoved'
  BY <1>1 DEF StockInv, AllMoved, Moved
<1> QED BY <1>2, <1>3, <1>4, <1>5 DEF StockInv

LEMMA StockInvariant ==
    ASSUME StockConstants
    PROVE  Stock!Spec => []StockInv
<1>1. Stock!Init => StockInv
  BY StockInvStart
<1>2. StockInv /\ [Stock!Next]_(Stock!vars) => StockInv'
  <2>1. ASSUME StockInv, Stock!Next PROVE StockInv'
    <3>1. StockTypeInv'
      BY <2>1, StockTypeStep DEF StockInv
    <3> QED BY <2>1, <3>1, StockApartStep, MovementsStep, CogsUsedStep, PlanningStep, MovedStep
            DEF StockInv
  <2> QED BY <2>1, StockStays
<1> QED BY <1>1, <1>2, PTL DEF Stock!Spec

\* The quantity on hand is the sum of the movements of the item, and each cost layer has
\* lost what the entries of the calculations used of it, when no request is under way and
\* none has died.
THEOREM StockFigures ==
    ASSUME StockConstants
    PROVE  Operations => []StockAddsUp
<1>1. StockInv => StockAddsUp
  BY MovementsAddUp, CogsUseIsRecorded DEF StockInv, StockAddsUp
<1> QED BY <1>1, StockBehaves, StockInvariant, PTL

\* A suggestion or a requisition leads to one purchase order, and a completed transfer has
\* moved each of its lines; each more than once only if requests died.
THEOREM StockCarriedOutOnce ==
    ASSUME StockConstants
    PROVE  Operations => []CarriedOutOnce
<1>1. StockInv => CarriedOutOnce
  BY OrdersAreOnce, MovedMovesAll DEF StockInv, CarriedOutOnce
<1> QED BY <1>1, StockBehaves, StockInvariant, PTL

-----------------------------------------------------------------------------
(* Entities.  Postings and consolidations share the table of journal entries; an   *)
(* entry that is there keeps what it was posted for, and only its own request adds *)
(* its lines.                                                                      *)

LEMMA EntitiesBehave == Operations => Entities!Spec
<1>1. Start => Entities!Init
  BY DEF Start
<1>2. [Step]_allVars => [Entities!Next]_(Entities!vars)
  <2>1. StepEntities => Entities!Next
    BY DEF StepEntities
  <2>2. Step => StepEntities \/ UNCHANGED entityVars
    BY DEF Step, StepBank, StepStock, StepAssets, StepTaxes, StepRecurring,
       StepPlans, StepPayroll, StepProjects, StepRecords, StepPeople
  <2>3. UNCHANGED allVars => UNCHANGED entityVars
    BY DEF allVars
  <2>4. UNCHANGED entityVars => UNCHANGED Entities!vars
    BY DEF entityVars, Entities!vars
  <2> QED BY <2>1, <2>2, <2>3, <2>4
<1> QED BY <1>1, <1>2, PTL DEF Operations, Entities!Spec

LEMMA SameEntitySum == \A g : Entities!SumOf(g) = SumOf(g)
  BY DEF Entities!SumOf, Entities!MapThenSumSet, Entities!MapThenFoldSet,
     SumOf, MapThenSumSet, MapThenFoldSet

LEMMA SameEntityCount == \A S : Entities!Cardinality(S) = Cardinality(S)
  BY DEF Entities!Cardinality, Cardinality

\* The tables are different ones, the transactions finitely many, each of one pair.
EntityConstants ==
    /\ IsFiniteSet(Transactions) /\ PairOf \in [Transactions -> Pairs]
    /\ Transactions \cap Gaap = {} /\ Transactions \cap Runs = {} /\ Gaap \cap Runs = {}
    /\ Entities!Docs \cap Pairs = {} /\ "none" \notin Entities!Docs \cup Pairs
    /\ MaxEntries \in Nat /\ MaxRules \in Nat

PostLabels == {"number", "insert", "lines"}

\* Which labels the requests of a kind come to, and what they hold there.
PostPlaced(q) ==
    /\ q.d \in Transactions
    /\ q.pc \in PostLabels \cup {"save", "balance", "save_balance"}
    /\ q.pc \in PostLabels => q.left \in {1, 2}
    /\ q.pc \notin PostLabels => q.left = 0
AdjustPlaced(q) ==
    /\ q.d \in Gaap /\ q.pc \in PostLabels \cup {"save"}
    /\ q.left = IF q.pc \in PostLabels THEN 1 ELSE 0
ExecutePlaced(q) ==
    /\ q.d \in Runs /\ q.pc \in PostLabels \cup {"begin", "rule", "track", "save", "fail"}
ReversePlaced(q) == q.d \in Runs /\ q.pc \in PostLabels \cup {"save"}
ReconcilePlaced(q) == q.d \in Pairs /\ q.pc = "save_balance"

EntityPlaced(q) ==
    /\ q.pc = "idle" => q = Entities!Idle
    /\ q.op = "none" => q = Entities!Idle
    /\ q.op = "post" => PostPlaced(q)
    /\ q.op = "adjust" => AdjustPlaced(q)
    /\ q.op = "execute" => ExecutePlaced(q)
    /\ q.op = "reverse" => ReversePlaced(q)
    /\ q.op = "reconcile" => ReconcilePlaced(q)
    /\ q.pc \in {"insert", "lines", "track"} => q.n \in Entities!Entries
    /\ q.pc \in {"lines", "track"} => q.new.of = q.d
    /\ q.op \in {"post", "adjust"} /\ q.pc \in PostLabels => q.new.of = q.d
    /\ q.op # "reverse" => q.new.undo = 0
    /\ q.new.lines = FALSE
    /\ q.d \notin Transactions \cup Gaap \/ q.op \in {"post", "adjust"}

EntityTypeInv ==
    /\ Entities!TypeOK
    /\ \A w \in Workers : EntityPlaced(ic_req[w])

\* What the types say of the local values of one worker.
LEMMA EntityLocal ==
    ASSUME EntityTypeInv, NEW w \in Workers
    PROVE  /\ ic_req[w] \in Entities!Request /\ EntityPlaced(ic_req[w])
           /\ ic_req[w].new \in Entities!Entry
           /\ ic_req[w].n \in Entities!Entries \cup {0}
           /\ ic_req[w].left \in Nat /\ ic_req[w].due \in [Pairs -> Nat]
           /\ ic_req[w].back \in SUBSET Entities!Entries /\ ic_req[w].sum \in Nat
           /\ ic_req[w].d \in Entities!Docs \cup Pairs \cup {"none"}
  BY DEF EntityTypeInv, Entities!TypeOK, Entities!Request

LEMMA EntityIdle ==
    ASSUME EntityConstants
    PROVE  /\ Entities!Idle \in Entities!Request /\ EntityPlaced(Entities!Idle)
           /\ Entities!NoEntry \in Entities!Entry
           /\ Entities!Idle.op = "none" /\ Entities!Idle.pc = "idle" /\ Entities!Idle.d = "none"
<1>1. Entities!NoEntry \in Entities!Entry
  BY DEF Entities!NoEntry, Entities!Entry
<1>2. Entities!NoBalances \in [Pairs -> Nat]
  BY DEF Entities!NoBalances
<1>3. Entities!Idle \in Entities!Request
  BY <1>1, <1>2 DEF Entities!Idle, Entities!Request
<1>4. EntityPlaced(Entities!Idle)
  BY DEF EntityConstants, Entities!Idle, Entities!NoEntry, EntityPlaced, PostLabels, Entities!Docs
<1>5. Entities!Idle.op = "none" /\ Entities!Idle.pc = "idle" /\ Entities!Idle.d = "none"
  BY DEF Entities!Idle
<1> QED BY <1>1, <1>3, <1>4, <1>5

\* A step of one worker keeps the types if its new local values and the tables have them.
EntityTables ==
    /\ elim_rules' \in 0..MaxRules
    /\ doc' \in [Entities!Docs -> Entities!Statuses]
    /\ balance' \in [Pairs -> Nat]
    /\ entry' \in [Entities!Entries -> Entities!Entry]
    /\ elim' \in [Runs -> SUBSET Entities!Entries]
    /\ total' \in [Runs -> Nat]
    /\ ic_aborts' \in Nat

LEMMA EntityLocalStep ==
    ASSUME EntityTypeInv, NEW w \in Workers, NEW q \in Entities!Request, EntityPlaced(q),
           ic_req' = [ic_req EXCEPT ![w] = q], EntityTables
    PROVE  EntityTypeInv'
<1>1. ic_req' \in [Workers -> Entities!Request]
  BY DEF EntityTypeInv, Entities!TypeOK
<1>2. \A v \in Workers : EntityPlaced(ic_req'[v])
  BY DEF EntityTypeInv, Entities!TypeOK
<1>3. Entities!TypeOK'
  BY <1>1 DEF EntityTables, EntityTypeInv, Entities!TypeOK
<1> QED BY <1>2, <1>3 DEF EntityTypeInv

\* The entries that may come next have their type.
LEMMA ChosenType ==
    ASSUME EntityConstants, EntityTypeInv, NEW w \in Workers, NEW e \in Entities!Chosen(w),
           ic_req[w].pc \in PostLabels
    PROVE  /\ e \in Entities!Entry /\ e.of = ic_req[w].d /\ e.lines = FALSE
           /\ ic_req[w].op # "reverse" => e.undo = 0
           /\ ic_req[w].op = "reverse" => /\ e.undo \in ic_req[w].back
                                          /\ e.amt = entry[e.undo].amt
<1> DEFINE r == ic_req[w]
<1>1. r.op \in {"post", "adjust", "execute", "reverse"}
  BY EntityLocal, EntityIdle DEF EntityPlaced, Entities!Request, PostLabels, ReconcilePlaced
<1>2. r.d \in Entities!Docs /\ r.due \in [Pairs -> Nat] /\ r.new \in Entities!Entry
  BY <1>1, EntityLocal DEF EntityPlaced, PostPlaced, AdjustPlaced, ExecutePlaced, ReversePlaced,
     Entities!Docs
<1>3. CASE r.op = "execute"
  <2>1. PICK p \in Pairs : e = [Entities!NoEntry EXCEPT !.of = r.d, !.amt = r.due[p]]
    BY <1>3, Zenon DEF Entities!Chosen
  <2>2. PICK a \in Nat : a = r.due[p]
    BY <1>2
  <2>3. e = [of |-> r.d, undo |-> 0, amt |-> a, lines |-> FALSE]
    BY <2>1, <2>2 DEF Entities!NoEntry
  <2>4. e \in Entities!Entry
    BY <2>3, <1>2 DEF Entities!Entry
  <2> QED BY <2>3, <2>4, <1>3
<1>4. CASE r.op = "reverse"
  <2>1. PICK m \in r.back : e = [of |-> r.d, undo |-> m, amt |-> entry[m].amt, lines |-> FALSE]
    BY <1>4 DEF Entities!Chosen
  <2>2. m \in Entities!Entries
    BY EntityLocal
  <2>3. PICK a \in Nat : a = entry[m].amt
    BY <2>2 DEF EntityTypeInv, Entities!TypeOK, Entities!Entry
  <2>4. e \in Entities!Entry
    BY <2>1, <2>2, <2>3, <1>2 DEF Entities!Entry
  <2> QED BY <2>1, <2>4, <1>4
<1>5. CASE r.op \in {"post", "adjust"}
  <2>1. r.op # "execute" /\ r.op # "reverse"
    BY <1>5
  <2>2. e \in {r.new}
    BY <2>1, Zenon DEF Entities!Chosen
  <2>3. e = r.new
    BY <2>2
  <2> QED BY <2>3, <1>2, <1>5, EntityLocal DEF EntityPlaced
<1> QED BY <1>1, <1>3, <1>4, <1>5

\* The same, without the labels.
LEMMA EntityRow ==
    ASSUME EntityTypeInv, NEW w \in Workers
    PROVE  /\ ic_req[w] \in Entities!Request /\ ic_req[w].new \in Entities!Entry
           /\ ic_req[w].left \in Nat /\ ic_req[w].due \in [Pairs -> Nat]
           /\ ic_req[w].back \in SUBSET Entities!Entries /\ ic_req[w].sum \in Nat
  BY EntityLocal

\* A request stays one when some of its fields get other values of their types.
EntityLabels == {"idle", "begin", "rule", "number", "insert", "lines", "track", "save", "fail",
                 "balance", "save_balance"}
LEMMA EntityFields ==
    ASSUME NEW q \in Entities!Request, NEW label \in EntityLabels
    PROVE  /\ [q EXCEPT !.pc = label] \in Entities!Request
           /\ \A x \in Entities!Entries \cup {0} : [q EXCEPT !.n = x] \in Entities!Request
           /\ \A x \in Entities!Entry : [q EXCEPT !.new = x] \in Entities!Request
           /\ \A x \in Nat : [q EXCEPT !.left = x] \in Entities!Request
           /\ \A x \in Nat : [q EXCEPT !.sum = x] \in Entities!Request
           /\ \A x \in SUBSET Entities!Entries : [q EXCEPT !.back = x] \in Entities!Request
           /\ \A x \in [Pairs -> Nat] : [q EXCEPT !.due = x] \in Entities!Request
<1>1. [q EXCEPT !.pc = label] \in Entities!Request
  BY DEF Entities!Request, EntityLabels
<1>2. ASSUME NEW x \in Entities!Entries \cup {0} PROVE [q EXCEPT !.n = x] \in Entities!Request
  BY DEF Entities!Request
<1>3. ASSUME NEW x \in Entities!Entry PROVE [q EXCEPT !.new = x] \in Entities!Request
  BY DEF Entities!Request
<1>4. ASSUME NEW x \in Nat PROVE [q EXCEPT !.left = x] \in Entities!Request
  BY DEF Entities!Request
<1>5. ASSUME NEW x \in Nat PROVE [q EXCEPT !.sum = x] \in Entities!Request
  BY DEF Entities!Request
<1>6. ASSUME NEW x \in SUBSET Entities!Entries PROVE [q EXCEPT !.back = x] \in Entities!Request
  BY DEF Entities!Request
<1>7. ASSUME NEW x \in [Pairs -> Nat] PROVE [q EXCEPT !.due = x] \in Entities!Request
  BY DEF Entities!Request
<1> QED BY <1>1, <1>2, <1>3, <1>4, <1>5, <1>6, <1>7

LEMMA EntityTypeStep ==
    ASSUME EntityConstants, EntityTypeInv, Entities!Next
    PROVE  EntityTypeInv'
<1> USE DEF EntityPlaced, PostPlaced, AdjustPlaced, ExecutePlaced, ReversePlaced,
            ReconcilePlaced, PostLabels
<1>t. /\ elim_rules \in 0..MaxRules
      /\ doc \in [Entities!Docs -> Entities!Statuses]
      /\ balance \in [Pairs -> Nat]
      /\ entry \in [Entities!Entries -> Entities!Entry]
      /\ elim \in [Runs -> SUBSET Entities!Entries]
      /\ total \in [Runs -> Nat] /\ ic_aborts \in Nat
      /\ ic_req \in [Workers -> Entities!Request]
  BY DEF EntityTypeInv, Entities!TypeOK
<1>d. /\ Transactions \subseteq Entities!Docs /\ Gaap \subseteq Entities!Docs
      /\ Runs \subseteq Entities!Docs
  BY DEF Entities!Docs
<1>1. ASSUME NEW d \in Entities!Docs, Entities!Create(d) PROVE EntityTypeInv'
  BY <1>1, <1>t DEF Entities!Create, EntityTypeInv, Entities!TypeOK, Entities!Statuses
<1>2. ASSUME NEW t \in Transactions, Entities!Confirm(t) PROVE EntityTypeInv'
  BY <1>2, <1>t DEF Entities!Confirm, EntityTypeInv, Entities!TypeOK, Entities!Statuses
<1>3. ASSUME NEW w \in Workers, NEW t \in Transactions, Entities!Post(w, t)
      PROVE  EntityTypeInv'
  <2> DEFINE e == [Entities!NoEntry EXCEPT !.of = t, !.amt = 1]
             q == [Entities!Idle EXCEPT !.op = "post", !.pc = "number", !.d = t, !.left = 2,
                                        !.new = e]
  <2>1. ic_req' = [ic_req EXCEPT ![w] = q]
    BY <1>3 DEF Entities!Post
  <2>2. e \in Entities!Entry /\ e.of = t /\ e.undo = 0 /\ e.lines = FALSE
    BY <1>d, EntityIdle DEF Entities!Entry, Entities!NoEntry
  <2> HIDE DEF e
  <2>3. q \in Entities!Request
    BY <2>2, <1>d, EntityIdle DEF Entities!Request
  <2>4. q.op = "post" /\ q.pc = "number" /\ q.d = t /\ q.left = 2 /\ q.new = e
    BY DEF Entities!Idle
  <2>5. EntityTables
    BY <1>3, <1>t DEF Entities!Post, EntityTables
  <2> HIDE DEF q
  <2>6. EntityPlaced(q)
    BY <2>2, <2>4
  <2> QED BY <2>1, <2>3, <2>5, <2>6, EntityLocalStep
<1>4. ASSUME NEW w \in Workers, NEW a \in Gaap, Entities!PostAdjustment(w, a)
      PROVE  EntityTypeInv'
  <2> DEFINE e == [Entities!NoEntry EXCEPT !.of = a, !.amt = 1]
             q == [Entities!Idle EXCEPT !.op = "adjust", !.pc = "number", !.d = a, !.left = 1,
                                        !.new = e]
  <2>1. ic_req' = [ic_req EXCEPT ![w] = q]
    BY <1>4 DEF Entities!PostAdjustment
  <2>2. e \in Entities!Entry /\ e.of = a /\ e.undo = 0 /\ e.lines = FALSE
    BY <1>d, EntityIdle DEF Entities!Entry, Entities!NoEntry
  <2> HIDE DEF e
  <2>3. q \in Entities!Request
    BY <2>2, <1>d, EntityIdle DEF Entities!Request
  <2>4. q.op = "adjust" /\ q.pc = "number" /\ q.d = a /\ q.left = 1 /\ q.new = e
    BY DEF Entities!Idle
  <2>5. EntityTables
    BY <1>4, <1>t DEF Entities!PostAdjustment, EntityTables
  <2> HIDE DEF q
  <2>6. EntityPlaced(q)
    BY <2>2, <2>4
  <2> QED BY <2>1, <2>3, <2>5, <2>6, EntityLocalStep
<1>5. ASSUME NEW w \in Workers, NEW r \in Runs, Entities!Execute(w, r)
      PROVE  EntityTypeInv'
  <2>1. PICK m \in Nat : m = elim_rules
    BY <1>t DEF EntityConstants
  <2> DEFINE q == [Entities!Idle EXCEPT !.op = "execute", !.pc = "begin", !.d = r, !.left = m]
  <2>2. ic_req' = [ic_req EXCEPT ![w] = q]
    BY <1>5, <2>1 DEF Entities!Execute
  <2>3. q \in Entities!Request
    BY <1>d, EntityIdle DEF Entities!Request
  <2>4. /\ q.op = "execute" /\ q.pc = "begin" /\ q.d = r /\ q.new.undo = 0
        /\ q.new.lines = FALSE
    BY DEF Entities!Idle, Entities!NoEntry
  <2>5. EntityTables
    BY <1>5, <1>t DEF Entities!Execute, EntityTables
  <2> HIDE DEF q
  <2>6. EntityPlaced(q)
    BY <2>4 DEF EntityConstants
  <2> QED BY <2>2, <2>3, <2>5, <2>6, EntityLocalStep
<1>6. ASSUME NEW w \in Workers, NEW r \in Runs, Entities!Reverse(w, r)
      PROVE  EntityTypeInv'
  <2>1. PICK label \in {"save", "number"} : label = IF elim[r] = {} THEN "save" ELSE "number"
    OBVIOUS
  <2> DEFINE q == [Entities!Idle EXCEPT !.op = "reverse", !.d = r, !.back = elim[r], !.pc = label]
  <2>2. ic_req' = [ic_req EXCEPT ![w] = q]
    BY <1>6, <2>1 DEF Entities!Reverse
  <2>3. q \in Entities!Request
    <3>1. elim[r] \in SUBSET Entities!Entries
      BY <1>t
    <3> QED BY <3>1, <1>d, EntityIdle DEF Entities!Request
  <2>4. q.op = "reverse" /\ q.pc = label /\ q.d = r /\ q.new.lines = FALSE
    BY DEF Entities!Idle, Entities!NoEntry
  <2>5. EntityTables
    BY <1>6, <1>t DEF Entities!Reverse, EntityTables
  <2> HIDE DEF q
  <2>6. EntityPlaced(q)
    BY <2>4 DEF EntityConstants
  <2> QED BY <2>2, <2>3, <2>5, <2>6, EntityLocalStep
<1>7. ASSUME NEW w \in Workers, NEW p \in Pairs, Entities!Reconcile(w, p)
      PROVE  EntityTypeInv'
  <2>1. PICK m \in Nat : m = balance[p]
    BY <1>t
  <2> DEFINE q == [Entities!Idle EXCEPT !.op = "reconcile", !.d = p, !.sum = m,
                                        !.pc = "save_balance"]
  <2>2. ic_req' = [ic_req EXCEPT ![w] = q]
    BY <1>7, <2>1 DEF Entities!Reconcile
  <2>3. q \in Entities!Request
    BY EntityIdle DEF Entities!Request
  <2>4. /\ q.op = "reconcile" /\ q.pc = "save_balance" /\ q.d = p /\ q.new.undo = 0
        /\ q.new.lines = FALSE
    BY DEF Entities!Idle, Entities!NoEntry
  <2>5. EntityTables
    BY <1>7, <1>t DEF Entities!Reconcile, EntityTables
  <2> HIDE DEF q
  <2>6. EntityPlaced(q)
    BY <2>4 DEF EntityConstants, Entities!Docs
  <2> QED BY <2>2, <2>3, <2>5, <2>6, EntityLocalStep
<1>8. ASSUME NEW w \in Workers, Entities!GenerateNumber(w)
      PROVE  EntityTypeInv'
  <2>1. PICK n \in Entities!Entries : ic_req' = [ic_req EXCEPT ![w].n = n, ![w].pc = "insert"]
    BY <1>8 DEF Entities!GenerateNumber
  <2> DEFINE q == [ic_req[w] EXCEPT !.n = n, !.pc = "insert"]
  <2>2. ic_req' = [ic_req EXCEPT ![w] = q]
    BY <2>1, <1>t
  <2>3. q \in Entities!Request
    <3>1. n \in Entities!Entries \cup {0}
      OBVIOUS
    <3>2. "insert" \in EntityLabels
      BY DEF EntityLabels
    <3> QED BY <3>1, <3>2, EntityLocal, EntityFields
  <2>4. /\ q.op = ic_req[w].op /\ q.pc = "insert" /\ q.d = ic_req[w].d /\ q.n = n
        /\ q.new = ic_req[w].new /\ q.left = ic_req[w].left /\ ic_req[w].pc = "number"
    BY <1>8, EntityLocal DEF Entities!GenerateNumber, Entities!At, Entities!Request
  <2>5. EntityTables
    BY <1>8, <1>t DEF Entities!GenerateNumber, EntityTables
  <2> HIDE DEF q
  <2>6. EntityPlaced(q)
    BY <2>4, EntityLocal, EntityIdle
  <2> QED BY <2>2, <2>3, <2>5, <2>6, EntityLocalStep
<1>9. ASSUME NEW w \in Workers, Entities!InsertEntry(w)
      PROVE  EntityTypeInv'
  <2>1. PICK e \in Entities!Chosen(w) :
           /\ entry' = [entry EXCEPT ![ic_req[w].n] = e]
           /\ ic_req' = [ic_req EXCEPT ![w].new = e, ![w].pc = "lines"]
    BY <1>9 DEF Entities!InsertEntry
  <2>2. ic_req[w].pc = "insert"
    BY <1>9 DEF Entities!InsertEntry, Entities!At
  <2>3. /\ e \in Entities!Entry /\ e.of = ic_req[w].d /\ e.lines = FALSE
        /\ ic_req[w].op # "reverse" => e.undo = 0
    BY <2>2, ChosenType
  <2> DEFINE q == [ic_req[w] EXCEPT !.new = e, !.pc = "lines"]
  <2>4. ic_req' = [ic_req EXCEPT ![w] = q]
    BY <2>1, <1>t
  <2>5. q \in Entities!Request
    <3>1. "lines" \in EntityLabels
      BY DEF EntityLabels
    <3> QED BY <2>3, <3>1, EntityLocal, EntityFields
  <2>6. /\ q.op = ic_req[w].op /\ q.pc = "lines" /\ q.d = ic_req[w].d /\ q.n = ic_req[w].n
        /\ q.new = e /\ q.left = ic_req[w].left
    BY EntityLocal DEF Entities!Request
  <2>7. EntityTables
    BY <1>9, <2>1, <2>3, <1>t DEF Entities!InsertEntry, EntityTables
  <2> HIDE DEF q
  <2>8. EntityPlaced(q)
    BY <2>2, <2>3, <2>6, EntityLocal, EntityIdle
  <2> QED BY <2>4, <2>5, <2>7, <2>8, EntityLocalStep
<1>10. ASSUME NEW w \in Workers, Entities!InsertFails(w)
      PROVE  EntityTypeInv'
  <2>1. EntityTables
    BY <1>10, <1>t DEF Entities!InsertFails, EntityTables
  <2>2. CASE ic_req[w].op = "execute"
    <3> DEFINE q == [ic_req[w] EXCEPT !.pc = "fail"]
    <3>1. ic_req' = [ic_req EXCEPT ![w] = q] /\ ic_req[w].pc = "insert"
      BY <1>10, <2>2, <1>t DEF Entities!InsertFails, Entities!At
    <3>2. q \in Entities!Request
      BY EntityLocal DEF Entities!Request
    <3>3. /\ q.op = "execute" /\ q.pc = "fail" /\ q.d = ic_req[w].d
          /\ q.new = ic_req[w].new
      BY <2>2, EntityLocal DEF Entities!Request
    <3> HIDE DEF q
    <3>4. EntityPlaced(q)
      BY <2>2, <3>1, <3>3, EntityLocal DEF EntityConstants
    <3> QED BY <2>1, <3>1, <3>2, <3>4, EntityLocalStep
  <2>3. CASE ic_req[w].op # "execute"
    <3>1. ic_req' = [ic_req EXCEPT ![w] = Entities!Idle]
      BY <1>10, <2>3 DEF Entities!InsertFails, Entities!Finish
    <3> QED BY <2>1, <3>1, EntityIdle, EntityLocalStep
  <2> QED BY <2>2, <2>3
<1>11. ASSUME NEW w \in Workers, Entities!InsertLines(w)
      PROVE  EntityTypeInv'
  <2>1. /\ ic_req[w].pc = "lines"
        /\ ic_req[w].op \in {"post", "adjust", "execute", "reverse"}
    BY <1>11, EntityLocal, EntityIdle DEF Entities!InsertLines, Entities!At, Entities!Request
  <2>2. PICK back \in SUBSET Entities!Entries : back = ic_req[w].back \ {ic_req[w].new.undo}
    BY EntityLocal
  <2>3. PICK left \in Nat :
           left = IF ic_req[w].op \in {"post", "adjust"} THEN ic_req[w].left - 1 ELSE ic_req[w].left
    <3>1. ic_req[w].left \in Nat
      BY EntityLocal
    <3>2. ic_req[w].op \in {"post", "adjust"} => ic_req[w].left \in {1, 2}
      <4>1. EntityPlaced(ic_req[w])
        BY EntityLocal
      <4> QED BY <4>1, <2>1
    <3> QED BY <3>1, <3>2
  <2>4. PICK label \in {"track", "number", "save"} :
           label = CASE ic_req[w].op = "execute" -> "track"
                     [] ic_req[w].op = "reverse" /\ back # {} -> "number"
                     [] ic_req[w].op = "post" /\ ic_req[w].left = 2 -> "number"
                     [] OTHER -> "save"
    BY <2>1
  <2> DEFINE q == [ic_req[w] EXCEPT !.back = back, !.left = left, !.pc = label]
  <2>5. ic_req' = [ic_req EXCEPT ![w] = q]
    BY <1>11, <2>2, <2>3, <2>4, <1>t, Zenon DEF Entities!InsertLines
  <2>6. q \in Entities!Request
    <3>1. label \in EntityLabels
      BY DEF EntityLabels
    <3> QED BY <3>1, EntityRow, EntityFields
  <2>7. /\ q.op = ic_req[w].op /\ q.pc = label /\ q.d = ic_req[w].d /\ q.n = ic_req[w].n
        /\ q.new = ic_req[w].new /\ q.left = left
    BY EntityLocal DEF Entities!Request
  <2>8. EntityTables
    <3>1. entry' = [entry EXCEPT ![ic_req[w].n].lines = TRUE]
      BY <1>11 DEF Entities!InsertLines
    <3>2. entry' \in [Entities!Entries -> Entities!Entry]
      BY <3>1, <1>t DEF Entities!Entry
    <3> QED BY <1>11, <3>2, <1>t DEF Entities!InsertLines, EntityTables
  <2> HIDE DEF q
  <2>9. EntityPlaced(q)
    <3>1. EntityPlaced(ic_req[w])
      BY EntityLocal
    <3>2. label \notin {"idle", "insert", "lines"}
      OBVIOUS
    <3>3. ic_req[w].op = "post" => PostPlaced(q)
      BY <2>1, <2>3, <2>4, <2>7, <3>1
    <3>4. ic_req[w].op = "adjust" => AdjustPlaced(q)
      BY <2>1, <2>3, <2>4, <2>7, <3>1
    <3>5. ic_req[w].op = "execute" => ExecutePlaced(q)
      BY <2>1, <2>4, <2>7, <3>1
    <3>6. ic_req[w].op = "reverse" => ReversePlaced(q)
      BY <2>1, <2>4, <2>7, <3>1
    <3> HIDE DEF PostPlaced, AdjustPlaced, ExecutePlaced, ReversePlaced
    <3> QED BY <2>1, <2>4, <2>7, <3>1, <3>2, <3>3, <3>4, <3>5, <3>6
  <2> QED BY <2>5, <2>6, <2>8, <2>9, EntityLocalStep
<1>12. ASSUME NEW w \in Workers, Entities!BeginRun(w)
      PROVE  EntityTypeInv'
  <2> DEFINE q == [ic_req[w] EXCEPT !.pc = "rule"]
  <2>1. ic_req' = [ic_req EXCEPT ![w] = q] /\ ic_req[w].pc = "begin" /\ ic_req[w].op = "execute"
    BY <1>12, <1>t, EntityLocal, EntityIdle DEF Entities!BeginRun, Entities!At, Entities!Request
  <2>2. q \in Entities!Request
    BY EntityLocal DEF Entities!Request
  <2>3. q.op = "execute" /\ q.pc = "rule" /\ q.d = ic_req[w].d /\ q.new = ic_req[w].new
    BY <2>1, EntityLocal DEF Entities!Request
  <2>4. EntityTables
    BY <1>12, <1>t DEF Entities!BeginRun, EntityTables, Entities!Statuses
  <2> HIDE DEF q
  <2>5. EntityPlaced(q)
    BY <2>1, <2>3, EntityLocal DEF EntityConstants
  <2> QED BY <2>1, <2>2, <2>4, <2>5, EntityLocalStep
<1>13. ASSUME NEW w \in Workers, Entities!NextRule(w)
      PROVE  EntityTypeInv'
  <2>1. ic_req[w].pc = "rule" /\ ic_req[w].op = "execute"
    BY <1>13, <1>t, EntityLocal, EntityIdle DEF Entities!NextRule, Entities!At, Entities!Request
  <2>2. EntityTables
    BY <1>13, <1>t DEF Entities!NextRule, EntityTables
  <2>3. CASE ic_req[w].left = 0
    <3> DEFINE q == [ic_req[w] EXCEPT !.pc = "save"]
    <3>1. ic_req' = [ic_req EXCEPT ![w] = q]
      BY <1>13, <2>3, <1>t DEF Entities!NextRule
    <3>2. q \in Entities!Request
      BY EntityLocal DEF Entities!Request
    <3>3. q.op = "execute" /\ q.pc = "save" /\ q.d = ic_req[w].d /\ q.new = ic_req[w].new
      BY <2>1, EntityLocal DEF Entities!Request
    <3> HIDE DEF q
    <3>4. EntityPlaced(q)
      BY <2>1, <3>3, EntityLocal DEF EntityConstants
    <3> QED BY <2>2, <3>1, <3>2, <3>4, EntityLocalStep
  <2>4. CASE ic_req[w].left # 0
    <3>1. PICK left \in Nat, label \in {"rule", "number"} :
             /\ left = ic_req[w].left - 1
             /\ label = IF balance = Entities!NoBalances THEN "rule" ELSE "number"
      <4>1. ic_req[w].left \in Nat
        BY EntityRow
      <4>2. ic_req[w].left - 1 \in Nat
        BY <4>1, <2>4
      <4> QED BY <4>2
    <3> DEFINE q == [ic_req[w] EXCEPT !.left = left, !.due = balance, !.pc = label]
    <3>2. ic_req' = [ic_req EXCEPT ![w] = q]
      BY <1>13, <2>4, <3>1, <1>t, Zenon DEF Entities!NextRule
    <3>3. q \in Entities!Request
      <4>1. label \in EntityLabels
        BY DEF EntityLabels
      <4> QED BY <1>t, <4>1, EntityRow, EntityFields
    <3>4. q.op = "execute" /\ q.pc = label /\ q.d = ic_req[w].d /\ q.new = ic_req[w].new
      BY <2>1, EntityLocal DEF Entities!Request
    <3> HIDE DEF q
    <3>5. EntityPlaced(q)
      BY <2>1, <3>4, EntityLocal DEF EntityConstants
    <3> QED BY <2>2, <3>2, <3>3, <3>5, EntityLocalStep
  <2> QED BY <2>3, <2>4
<1>14. ASSUME NEW w \in Workers, Entities!Track(w)
      PROVE  EntityTypeInv'
  <2>1. ic_req[w].pc = "track" /\ ic_req[w].op = "execute"
    BY <1>14, <1>t, EntityLocal, EntityIdle DEF Entities!Track, Entities!At, Entities!Request
  <2>2. PICK p \in Pairs :
           /\ ic_req[w].due[p] = ic_req[w].new.amt
           /\ LET due == [ic_req[w].due EXCEPT ![p] = 0] IN
                 ic_req' = [ic_req EXCEPT ![w].sum = @ + ic_req[w].new.amt, ![w].due = due,
                              ![w].pc = IF due = Entities!NoBalances THEN "rule" ELSE "number"]
    BY <1>14, Zenon DEF Entities!Track
  <2>3. PICK due \in [Pairs -> Nat], sum \in Nat, label \in {"rule", "number"} :
           /\ due = [ic_req[w].due EXCEPT ![p] = 0]
           /\ sum = ic_req[w].sum + ic_req[w].new.amt
           /\ label = IF due = Entities!NoBalances THEN "rule" ELSE "number"
    <3>1. ic_req[w].new.amt \in Nat /\ ic_req[w].sum \in Nat
      BY EntityLocal DEF Entities!Entry
    <3>2. ic_req[w].due \in [Pairs -> Nat]
      BY EntityRow
    <3>3. ic_req[w].sum + ic_req[w].new.amt \in Nat
      BY <3>1
    <3>4. [ic_req[w].due EXCEPT ![p] = 0] \in [Pairs -> Nat]
      BY <3>2
    <3> QED BY <3>3, <3>4
  <2> DEFINE q == [ic_req[w] EXCEPT !.sum = sum, !.due = due, !.pc = label]
  <2>4. ic_req' = [ic_req EXCEPT ![w] = q]
    BY <2>2, <2>3, <1>t, Zenon
  <2>5. q \in Entities!Request
    <3>1. label \in EntityLabels
      BY DEF EntityLabels
    <3> QED BY <3>1, EntityRow, EntityFields
  <2>6. q.op = "execute" /\ q.pc = label /\ q.d = ic_req[w].d /\ q.new = ic_req[w].new
    BY <2>1, EntityLocal DEF Entities!Request
  <2>7. EntityTables
    <3>1. elim' = [elim EXCEPT ![ic_req[w].d] = @ \cup {ic_req[w].n}]
      BY <1>14 DEF Entities!Track
    <3>2. ic_req[w].d \in Runs /\ ic_req[w].n \in Entities!Entries
      BY <2>1, EntityLocal
    <3>3. elim' \in [Runs -> SUBSET Entities!Entries]
      <4> HIDE DEF EntityPlaced
      <4> QED BY <3>1, <3>2, <1>t
    <3> QED BY <1>14, <3>3, <1>t DEF Entities!Track, EntityTables
  <2> HIDE DEF q
  <2>8. EntityPlaced(q)
    BY <2>1, <2>6, EntityLocal DEF EntityConstants
  <2> QED BY <2>4, <2>5, <2>7, <2>8, EntityLocalStep
<1>15. ASSUME NEW w \in Workers, Entities!MarkFailed(w)
      PROVE  EntityTypeInv'
  <2>1. ic_req' = [ic_req EXCEPT ![w] = Entities!Idle]
    BY <1>15 DEF Entities!MarkFailed, Entities!Finish
  <2>2. EntityTables
    BY <1>15, <1>t DEF Entities!MarkFailed, EntityTables, Entities!Statuses
  <2> QED BY <2>1, <2>2, EntityIdle, EntityLocalStep
<1>16. ASSUME NEW w \in Workers, Entities!Save(w)
      PROVE  EntityTypeInv'
  <2>1. /\ ic_req[w].pc = "save"
        /\ ic_req[w].op \in {"post", "adjust", "execute", "reverse"}
    BY <1>16, EntityLocal, EntityIdle DEF Entities!Save, Entities!At, Entities!Request
  <2>2. EntityTables
    <3>1. Entities!NewStatus(ic_req[w].op) \in Entities!Statuses
      BY <2>1 DEF Entities!NewStatus, Entities!Statuses
    <3>2. doc' \in [Entities!Docs -> Entities!Statuses]
      BY <1>16, <3>1, <1>t DEF Entities!Save
    <3>3. total' \in [Runs -> Nat]
      BY <1>16, <1>t, EntityLocal DEF Entities!Save
    <3> QED BY <1>16, <3>2, <3>3, <1>t DEF Entities!Save, EntityTables
  <2>3. CASE ic_req[w].op = "post"
    <3> DEFINE q == [ic_req[w] EXCEPT !.pc = "balance"]
    <3>1. ic_req' = [ic_req EXCEPT ![w] = q]
      BY <1>16, <2>3, <1>t DEF Entities!Save
    <3>2. q \in Entities!Request
      BY EntityLocal DEF Entities!Request
    <3>3. /\ q.op = "post" /\ q.pc = "balance" /\ q.d = ic_req[w].d
          /\ q.new = ic_req[w].new /\ q.left = ic_req[w].left
      BY <2>3, EntityLocal DEF Entities!Request
    <3> HIDE DEF q
    <3>4. EntityPlaced(q)
      BY <2>1, <2>3, <3>3, EntityLocal DEF EntityConstants
    <3> QED BY <2>2, <3>1, <3>2, <3>4, EntityLocalStep
  <2>4. CASE ic_req[w].op # "post"
    <3>1. ic_req' = [ic_req EXCEPT ![w] = Entities!Idle]
      BY <1>16, <2>4 DEF Entities!Save, Entities!Finish
    <3> QED BY <2>2, <3>1, EntityIdle, EntityLocalStep
  <2> QED BY <2>3, <2>4
<1>17. ASSUME NEW w \in Workers, Entities!LoadBalance(w)
      PROVE  EntityTypeInv'
  <2>1. ic_req[w].pc = "balance" /\ ic_req[w].op = "post"
    BY <1>17, EntityLocal, EntityIdle DEF Entities!LoadBalance, Entities!At, Entities!Request
  <2>2. PICK sum \in Nat : sum = balance[PairOf[ic_req[w].d]] + 1
    <3>1. ic_req[w].d \in Transactions
      BY <2>1, EntityLocal
    <3>2. balance[PairOf[ic_req[w].d]] \in Nat
      BY <3>1, <1>t DEF EntityConstants
    <3> QED BY <3>2
  <2> DEFINE q == [ic_req[w] EXCEPT !.sum = sum, !.pc = "save_balance"]
  <2>3. ic_req' = [ic_req EXCEPT ![w] = q]
    BY <1>17, <2>2, <1>t DEF Entities!LoadBalance
  <2>4. q \in Entities!Request
    <3>1. "save_balance" \in EntityLabels
      BY DEF EntityLabels
    <3> QED BY <3>1, EntityRow, EntityFields
  <2>5. /\ q.op = "post" /\ q.pc = "save_balance" /\ q.d = ic_req[w].d
        /\ q.new = ic_req[w].new /\ q.left = ic_req[w].left
    BY <2>1, EntityLocal DEF Entities!Request
  <2>6. EntityTables
    BY <1>17, <1>t DEF Entities!LoadBalance, EntityTables
  <2> HIDE DEF q
  <2>7. EntityPlaced(q)
    BY <2>1, <2>5, EntityLocal DEF EntityConstants
  <2> QED BY <2>3, <2>4, <2>6, <2>7, EntityLocalStep
<1>18. ASSUME NEW w \in Workers, Entities!SaveBalance(w)
      PROVE  EntityTypeInv'
  <2>1. ic_req' = [ic_req EXCEPT ![w] = Entities!Idle]
    BY <1>18 DEF Entities!SaveBalance, Entities!Finish
  <2>2. EntityTables
    BY <1>18, <1>t, EntityLocal DEF Entities!SaveBalance, EntityTables
  <2> QED BY <2>1, <2>2, EntityIdle, EntityLocalStep
<1>19. ASSUME NEW w \in Workers, Entities!Crash(w)
      PROVE  EntityTypeInv'
  <2>1. ic_req' = [ic_req EXCEPT ![w] = Entities!Idle]
    BY <1>19 DEF Entities!Crash, Entities!Finish
  <2>2. EntityTables
    BY <1>19, <1>t DEF Entities!Crash, EntityTables
  <2> QED BY <2>1, <2>2, EntityIdle, EntityLocalStep
<1> QED
  BY <1>1, <1>2, <1>3, <1>4, <1>5, <1>6, <1>7, <1>8, <1>9, <1>10, <1>11, <1>12, <1>13, <1>14, <1>15, <1>16, <1>17, <1>18, <1>19
     DEF Entities!Next, Entities!Continue

-----------------------------------------------------------------------------
(* Entities: the invariant.  It relates what a request holds (Held) to the rows it  *)
(* works on, and what the tables say of the rows that nobody works on (PairAgrees,  *)
(* DocAgrees, RunAgrees, EntryAgrees).  Both speak only of rows that one request    *)
(* has to itself (EntityApart).                                                     *)

\* The rows a request on d works with.
Rows(d) == {d} \cup (IF d \in Transactions THEN {PairOf[d]} ELSE {})
\* What is posted between two entities, and the entries of a document, with lines or not.
PostedOf(p) == {t \in Transactions : PairOf[t] = p /\ doc[t] = "posted"}
OwnLines(d) == {n \in Entities!Entries : entry[n].of = d /\ entry[n].lines}
EntriesOf(d) == {n \in Entities!Entries : entry[n].of = d}
\* The entries that reverse an entry.
Contras(n) == {m \in Entities!Entries : entry[m].undo = n}
\* How many entries a document is posted with, and the balance a request works on.
Wanted(d) == IF d \in Transactions THEN 2 ELSE 1
PairWorked(q) == IF q.op = "post" THEN PairOf[q.d] ELSE q.d

\* What the tables say of the row a request works on.
StatusHeld(q) ==
    /\ q.op = "post" => doc[q.d] = IF q.pc \in {"balance", "save_balance"} THEN "posted"
                                   ELSE "confirmed"
    /\ q.op = "adjust" => doc[q.d] = "draft"
    /\ q.op = "execute" => doc[q.d] = IF q.pc = "begin" THEN "draft" ELSE "in_progress"
    /\ q.op = "reverse" => doc[q.d] = "completed"
\* The entry it is posting is the one it holds.
EntryHeld(q) ==
    q.pc \in {"lines", "track"} =>
        /\ entry[q.n].of = q.d /\ entry[q.n].amt = q.new.amt /\ entry[q.n].undo = q.new.undo
        /\ entry[q.n].lines = (q.pc = "track")
\* The balance lags behind by the transaction being posted; the local copy does not.
BalanceHeld(q) ==
    q.op \in {"post", "reconcile"} /\ ic_aborts = 0 =>
        LET p == PairWorked(q)
            posted == Cardinality(PostedOf(p)) IN
        /\ balance[p] + (IF q.op = "post" /\ q.pc \in {"balance", "save_balance"} THEN 1 ELSE 0)
              = posted
        /\ q.pc = "save_balance" => q.sum = posted
\* What it has posted of its document, beyond what requests that died have left.
OwnHeld(q) ==
    q.op \in {"post", "adjust"} =>
        LET done == Wanted(q.d) - q.left IN
        /\ done <= Cardinality(OwnLines(q.d))
        /\ Cardinality(OwnLines(q.d)) <= Wanted(q.d) * ic_aborts + done
\* The local total of a run is what it has recorded, all its entries but the one it posts.
ExecuteHeld(q) ==
    q.op = "execute" =>
        /\ q.sum = Entities!Amount(elim[q.d])
        /\ q.pc \in {"lines", "track"} => q.n \notin elim[q.d]
        /\ EntriesOf(q.d) = elim[q.d] \cup (IF q.pc \in {"lines", "track"} THEN {q.n} ELSE {})
\* A reversal has undone every elimination it no longer has to.
Undone(n) ==
    /\ \E m \in Contras(n) : entry[m].lines /\ entry[m].amt = entry[n].amt
    /\ Cardinality(Contras(n)) <= 1 + ic_aborts
ReverseHeld(q) ==
    q.op = "reverse" =>
        /\ q.back \subseteq elim[q.d]
        /\ q.pc = "save" => q.back = {}
        /\ q.pc = "lines" => q.new.undo \in q.back /\ q.new.amt = entry[q.new.undo].amt
        /\ \A n \in elim[q.d] \ q.back : Undone(n)
        /\ \A n \in q.back :
              Cardinality(Contras(n)) <=
                  ic_aborts + (IF q.pc = "lines" /\ n = q.new.undo THEN 1 ELSE 0)
Held(q) ==
    /\ StatusHeld(q) /\ EntryHeld(q) /\ BalanceHeld(q) /\ OwnHeld(q) /\ ExecuteHeld(q)
    /\ ReverseHeld(q)

\* What the tables say where nobody is at work.
Unheld(x) == \A w \in Workers : x \notin Entities!Touches(w)
PairAgrees(p) == ic_aborts = 0 /\ Unheld(p) => balance[p] = Cardinality(PostedOf(p))
DocAgrees(d) ==
    Unheld(d) =>
        IF doc[d] = "posted"
        THEN /\ Wanted(d) <= Cardinality(OwnLines(d))
             /\ Cardinality(OwnLines(d)) <= Wanted(d) * (1 + ic_aborts)
        ELSE Cardinality(OwnLines(d)) <= Wanted(d) * ic_aborts
RunAgrees(r) ==
    /\ elim[r] \subseteq EntriesOf(r)
    /\ doc[r] \in {"none", "draft"} => EntriesOf(r) = {}
    /\ doc[r] = "completed" => total[r] = Entities!Amount(elim[r])
    /\ doc[r] = "completed" /\ Unheld(r) => /\ ic_aborts = 0 => elim[r] = EntriesOf(r)
                                           /\ \A n \in elim[r] : Cardinality(Contras(n)) <= ic_aborts
    /\ doc[r] = "reversed" => \A n \in elim[r] : Undone(n)
EntryAgrees(m) ==
    entry[m].undo # 0 =>
        /\ entry[m].of \in Runs /\ entry[m].undo \in elim[entry[m].of]
        /\ doc[entry[m].of] \in {"completed", "reversed"}

EntityApart ==
    \A v, w \in Workers : v # w =>
        \A x \in Entities!Touches(v) \cap Entities!Touches(w) : x = "none"
EntityAgree ==
    /\ \A w \in Workers : Held(ic_req[w])
    /\ \A p \in Pairs : PairAgrees(p)
    /\ \A d \in Transactions \cup Gaap : DocAgrees(d)
    /\ \A r \in Runs : RunAgrees(r)
    /\ \A m \in Entities!Entries : EntryAgrees(m)
EntityInv == EntityTypeInv /\ EntityApart /\ EntityAgree

-----------------------------------------------------------------------------
(* Entities: what a step does not reach.  A step of the workers in U changes only   *)
(* the rows in R, which they have to themselves; what the invariant says of other   *)
(* requests and other rows stays.  Each action has then to be looked at only for    *)
(* its own rows.                                                                    *)

\* A step that changes nothing outside the rows in R, and nobody's entries but theirs.
TablesWithin(R) ==
    /\ \A d \in Entities!Docs \ R : doc'[d] = doc[d]
    /\ \A p \in Pairs \ R : balance'[p] = balance[p] /\ PostedOf(p)' = PostedOf(p)
    /\ \A r \in Runs \ R : elim'[r] = elim[r] /\ total'[r] = total[r]
    /\ \A m \in Entities!Entries :
          \/ entry'[m] = entry[m]
          \/ /\ entry[m].of \in R \cup {"none"} /\ entry'[m].of \in R
             /\ entry'[m].undo = 0 \/ \E r \in Runs \cap R : entry'[m].undo \in elim[r]
    /\ ic_aborts' >= ic_aborts

\* A step of the workers in U, who work with those rows.
Within(R, U) ==
    /\ R \subseteq Entities!Docs \cup Pairs /\ U \subseteq Workers
    /\ \A v \in Workers \ U : ic_req'[v] = ic_req[v] /\ Entities!Touches(v) \cap R = {}
    /\ \A v \in U : Entities!Touches(v) \subseteq R \cup {"none"}
    /\ \A v \in U : Entities!Touches(v)' \subseteq R \cup {"none"}
    /\ TablesWithin(R)

LEMMA OutsideUnheld ==
    ASSUME EntityConstants, NEW R, NEW U, Within(R, U), NEW x \in (Entities!Docs \cup Pairs) \ R
    PROVE  Unheld(x)' <=> Unheld(x)
<1>1. x # "none"
  BY DEF EntityConstants
<1>2. ASSUME NEW v \in Workers \ U PROVE Entities!Touches(v)' = Entities!Touches(v)
  BY <1>2 DEF TablesWithin, Within, Entities!Touches
<1>3. \A v \in U : x \notin Entities!Touches(v) /\ x \notin Entities!Touches(v)'
  BY <1>1 DEF TablesWithin, Within
<1> QED BY <1>2, <1>3 DEF TablesWithin, Within, Unheld

LEMMA OutsideEntries ==
    ASSUME EntityConstants, EntityTypeInv, NEW R, NEW U, Within(R, U), NEW d \in Entities!Docs \ R
    PROVE  /\ \A m \in EntriesOf(d) : entry'[m] = entry[m]
           /\ EntriesOf(d)' = EntriesOf(d) /\ OwnLines(d)' = OwnLines(d)
<1>1. d # "none"
  BY DEF EntityConstants
<1>2. ASSUME NEW m \in Entities!Entries
      PROVE  \/ entry'[m] = entry[m]
             \/ entry[m].of # d /\ entry'[m].of # d
  BY <1>1 DEF TablesWithin, Within
<1>3. Entities!Entries' = Entities!Entries
  BY DEF Entities!Entries
<1>4. ASSUME NEW m \in EntriesOf(d) PROVE entry'[m] = entry[m]
  BY <1>2 DEF EntriesOf
<1>5. EntriesOf(d)' = EntriesOf(d)
  BY <1>2, <1>3 DEF EntriesOf
<1>6. OwnLines(d)' = OwnLines(d)
  BY <1>2, <1>3 DEF OwnLines
<1> QED BY <1>4, <1>5, <1>6

LEMMA OutsideContras ==
    ASSUME EntityConstants, EntityTypeInv, EntityAgree, NEW R, NEW U, Within(R, U),
           NEW r \in Runs \ R, NEW n \in elim[r]
    PROVE  /\ n \in Entities!Entries /\ entry'[n] = entry[n]
           /\ Contras(n)' = Contras(n) /\ \A m \in Contras(n) : entry'[m] = entry[m]
<1>1. /\ r # "none" /\ r \in Entities!Docs \ R
      /\ \A x \in Runs : elim[x] \subseteq EntriesOf(x)
  BY DEF EntityConstants, Entities!Docs, EntityAgree, RunAgrees
<1>2. n \in EntriesOf(r) /\ n \in Entities!Entries /\ entry[n].of = r
  BY <1>1 DEF EntriesOf
<1>3. entry'[n] = entry[n]
  BY <1>1, <1>2, OutsideEntries
<1>4. n # 0
  BY <1>2 DEF Entities!Entries, EntityConstants
<1>5. ASSUME NEW m \in Entities!Entries, entry'[m] # entry[m]
      PROVE  entry'[m].undo # n /\ entry[m].undo # n
  <2>1. /\ entry[m].of \in R \cup {"none"}
        /\ entry'[m].undo = 0 \/ \E x \in Runs \cap R : entry'[m].undo \in elim[x]
    BY <1>5 DEF TablesWithin, Within
  <2>2. ASSUME NEW x \in Runs \cap R, n \in elim[x] PROVE FALSE
    BY <2>2, <1>1, <1>2 DEF EntriesOf
  <2>3. ASSUME entry[m].undo = n PROVE FALSE
    <3>1. entry[m].of \in Runs /\ n \in elim[entry[m].of]
      BY <1>4, <2>3 DEF EntityAgree, EntryAgrees
    <3>2. entry[m].of = r
      BY <3>1, <1>1, <1>2 DEF EntriesOf
    <3> QED BY <3>2, <2>1, <1>1
  <2> QED BY <2>1, <2>2, <2>3, <1>4
<1>6. Contras(n)' = Contras(n)
  BY <1>5 DEF Contras, Entities!Entries
<1>7. ASSUME NEW m \in Contras(n) PROVE entry'[m] = entry[m]
  BY <1>5 DEF Contras
<1> QED BY <1>2, <1>3, <1>6, <1>7

LEMMA OutsideUndone ==
    ASSUME EntityConstants, EntityTypeInv, EntityAgree, NEW R, NEW U, Within(R, U),
           ic_aborts' \in Nat, NEW r \in Runs \ R, NEW n \in elim[r]
    PROVE  /\ Undone(n) => Undone(n)'
           /\ \A k \in Nat : Cardinality(Contras(n)) <= ic_aborts + k =>
                 Cardinality(Contras(n)') <= ic_aborts' + k
<1>1. ic_aborts \in Nat /\ ic_aborts' >= ic_aborts
  BY DEF EntityTypeInv, Entities!TypeOK, TablesWithin, Within
<1>2. IsFiniteSet(Entities!Entries)
  BY FS_Interval DEF Entities!Entries, EntityConstants
<1>3. Cardinality(Contras(n)) \in Nat
  BY <1>2, FS_Subset, FS_CardinalityType DEF Contras
<1>4. \A k \in Nat : Cardinality(Contras(n)) <= ic_aborts + k =>
         Cardinality(Contras(n)') <= ic_aborts' + k
  BY <1>1, <1>3, OutsideContras
<1>5. Undone(n) => Undone(n)'
  BY <1>1, <1>3, OutsideContras DEF Undone
<1> QED BY <1>4, <1>5

LEMMA OutsideAmount ==
    ASSUME EntityConstants, EntityTypeInv, EntityAgree, NEW R, NEW U, Within(R, U),
           NEW r \in Runs \ R
    PROVE  Entities!Amount(elim[r])' = Entities!Amount(elim[r])
<1>1. elim'[r] = elim[r]
  BY DEF TablesWithin, Within
<1>2. \A n \in elim[r] : entry'[n] = entry[n]
  BY OutsideContras
<1>3. [n \in elim'[r] |-> entry'[n].amt] = [n \in elim[r] |-> entry[n].amt]
  BY <1>1, <1>2
<1> QED BY <1>3, Zenon DEF Entities!Amount

\* What a request has to itself is not in R.
LEMMA OutsideRows ==
    ASSUME EntityConstants, EntityTypeInv, NEW R, NEW U, Within(R, U), NEW v \in Workers \ U
    PROVE  /\ ic_req[v].d \notin R
           /\ ic_req[v].op = "post" => PairOf[ic_req[v].d] \notin R
  BY EntityLocal DEF TablesWithin, Within, Entities!Touches, EntityPlaced, PostPlaced

LEMMA OutsideHeld ==
    ASSUME EntityConstants, EntityTypeInv, EntityAgree, NEW R, NEW U, Within(R, U),
           ic_aborts' \in Nat, NEW v \in Workers \ U, NEW q, q = ic_req[v]
    PROVE  Held(q)'
<1>1. Held(q)
  BY DEF EntityAgree
<1>2. /\ EntityPlaced(q) /\ q \in Entities!Request /\ q.d \notin R
      /\ q.op = "post" => PairOf[q.d] \notin R
  BY EntityLocal, OutsideRows
<1>3. /\ ic_aborts \in Nat /\ ic_aborts' >= ic_aborts
      /\ Transactions \subseteq Entities!Docs /\ Gaap \subseteq Entities!Docs
      /\ Runs \subseteq Entities!Docs
  BY DEF EntityTypeInv, Entities!TypeOK, TablesWithin, Within, Entities!Docs
<1>4. /\ q.op = "post" => q.d \in Transactions
      /\ q.op = "adjust" => q.d \in Gaap
      /\ q.op \in {"execute", "reverse"} => q.d \in Runs
      /\ q.op = "reconcile" => q.d \in Pairs
  BY <1>2 DEF EntityPlaced, PostPlaced, AdjustPlaced, ExecutePlaced, ReversePlaced,
     ReconcilePlaced
<1>5. q.op \in {"post", "adjust", "execute", "reverse"} =>
         /\ q.d \in Entities!Docs \ R /\ doc'[q.d] = doc[q.d]
         /\ \A m \in EntriesOf(q.d) : entry'[m] = entry[m]
         /\ EntriesOf(q.d)' = EntriesOf(q.d) /\ OwnLines(q.d)' = OwnLines(q.d)
  <2>1. q.op \in {"post", "adjust", "execute", "reverse"} => q.d \in Entities!Docs \ R
    BY <1>2, <1>3, <1>4
  <2>2. q.op \in {"post", "adjust", "execute", "reverse"} => doc'[q.d] = doc[q.d]
    BY <2>1 DEF TablesWithin, Within
  <2> QED BY <2>1, <2>2, OutsideEntries
<1>6. StatusHeld(q)'
  BY <1>1, <1>5 DEF Held, StatusHeld
<1>7. EntryHeld(q)'
  <2>1. SUFFICES ASSUME q.pc \in {"lines", "track"}
                 PROVE  /\ q.n \in EntriesOf(q.d)
                        /\ q.op \in {"post", "adjust", "execute", "reverse"}
    BY <1>1, <1>5 DEF Held, EntryHeld
  <2>2. q.op \in {"post", "adjust", "execute", "reverse"}
    BY <2>1, <1>2 DEF EntityPlaced, ReconcilePlaced, Entities!Request, Entities!Idle
  <2>3. q.n \in Entities!Entries
    BY <2>1, <1>2 DEF EntityPlaced
  <2>4. entry[q.n].of = q.d
    BY <2>1, <1>1 DEF Held, EntryHeld
  <2> QED BY <2>2, <2>3, <2>4 DEF EntriesOf
<1>8. BalanceHeld(q)'
  <2>1. SUFFICES ASSUME q.op \in {"post", "reconcile"}
                 PROVE  PairWorked(q) \in Pairs \ R
    <3>1. PairWorked(q) \in Pairs \ R =>
             /\ balance'[PairWorked(q)] = balance[PairWorked(q)]
             /\ PostedOf(PairWorked(q))' = PostedOf(PairWorked(q))
      BY DEF TablesWithin, Within, PairWorked, PostedOf
    <3>2. ic_aborts' = 0 => ic_aborts = 0
      BY <1>3
    <3>3. PairWorked(q)' = PairWorked(q)
      BY DEF PairWorked
    <3> HIDE DEF PairWorked, PostedOf
    <3> QED BY <3>1, <3>2, <3>3, <1>1 DEF Held, BalanceHeld
  <2> QED BY <2>1, <1>2, <1>4 DEF PairWorked, EntityConstants
<1>9. OwnHeld(q)'
  <2>1. SUFFICES ASSUME q.op \in {"post", "adjust"}
                 PROVE  OwnHeld(q)'
    BY DEF OwnHeld
  <2>2. OwnLines(q.d)' = OwnLines(q.d)
    BY <2>1, <1>5
  <2>3. q.left \in Nat /\ Wanted(q.d) \in {1, 2}
    BY <1>2 DEF Entities!Request, Wanted
  <2>4. Cardinality(OwnLines(q.d)) \in Nat
    <3>1. IsFiniteSet(Entities!Entries)
      BY FS_Interval DEF Entities!Entries, EntityConstants
    <3> QED BY <3>1, FS_Subset, FS_CardinalityType DEF OwnLines
  <2>5. /\ Wanted(q.d) - q.left <= Cardinality(OwnLines(q.d))
        /\ Cardinality(OwnLines(q.d)) <= Wanted(q.d) * ic_aborts + (Wanted(q.d) - q.left)
    BY <2>1, <1>1 DEF Held, OwnHeld
  <2>6. Wanted(q.d) * ic_aborts <= Wanted(q.d) * ic_aborts'
    BY <2>3, <1>3
  <2>7. Cardinality(OwnLines(q.d)) <= Wanted(q.d) * ic_aborts' + (Wanted(q.d) - q.left)
    BY <2>3, <2>4, <2>5, <2>6, <1>3
  <2> QED BY <2>2, <2>5, <2>7 DEF OwnHeld, Wanted
<1>10. ExecuteHeld(q)'
  <2>1. q.op = "execute" => /\ elim'[q.d] = elim[q.d] /\ EntriesOf(q.d)' = EntriesOf(q.d)
                            /\ Entities!Amount(elim[q.d])' = Entities!Amount(elim[q.d])
    BY <1>2, <1>4, <1>5, OutsideAmount DEF TablesWithin, Within
  <2> QED BY <2>1, <1>1 DEF Held, ExecuteHeld
<1>11. ReverseHeld(q)'
  <2>1. SUFFICES ASSUME q.op = "reverse" PROVE ReverseHeld(q)'
    BY DEF ReverseHeld
  <2>2. q.d \in Runs \ R /\ elim'[q.d] = elim[q.d]
    BY <2>1, <1>2, <1>4 DEF TablesWithin, Within
  <2>3. \A n \in elim[q.d] : entry'[n] = entry[n] /\ Contras(n)' = Contras(n)
    BY <2>2, OutsideContras
  <2>4. \A n \in elim[q.d] : Undone(n) => Undone(n)'
    BY <2>2, OutsideUndone
  <2>5. \A n \in elim[q.d], k \in Nat : Cardinality(Contras(n)) <= ic_aborts + k =>
             Cardinality(Contras(n)') <= ic_aborts' + k
    BY <2>2, OutsideUndone
  <2>6. /\ q.back \subseteq elim[q.d]
        /\ q.pc = "save" => q.back = {}
        /\ q.pc = "lines" => q.new.undo \in q.back /\ q.new.amt = entry[q.new.undo].amt
        /\ \A n \in elim[q.d] \ q.back : Undone(n)
        /\ \A n \in q.back :
              Cardinality(Contras(n)) <=
                  ic_aborts + (IF q.pc = "lines" /\ n = q.new.undo THEN 1 ELSE 0)
    BY <2>1, <1>1 DEF Held, ReverseHeld
  <2>7. \A n \in q.back :
              Cardinality(Contras(n)') <=
                  ic_aborts' + (IF q.pc = "lines" /\ n = q.new.undo THEN 1 ELSE 0)
    BY <2>5, <2>6
  <2>8. \A n \in elim'[q.d] \ q.back : Undone(n)'
    BY <2>2, <2>4, <2>6
  <2>9. q.pc = "lines" => q.new.undo \in q.back /\ q.new.amt = entry'[q.new.undo].amt
    BY <2>3, <2>6
  <2>10. q.back \subseteq elim'[q.d]
    BY <2>2, <2>6
  <2> HIDE DEF Undone, Contras
  <2> QED BY <2>6, <2>7, <2>8, <2>9, <2>10 DEF ReverseHeld
<1> QED BY <1>6, <1>7, <1>8, <1>9, <1>10, <1>11 DEF Held

LEMMA OutsideAgrees ==
    ASSUME EntityConstants, EntityTypeInv, EntityAgree, NEW R, NEW U, Within(R, U),
           ic_aborts' \in Nat
    PROVE  /\ \A p \in Pairs \ R : PairAgrees(p)'
           /\ \A d \in (Transactions \cup Gaap) \ R : DocAgrees(d)'
           /\ \A r \in Runs \ R : RunAgrees(r)'
           /\ \A m \in Entities!Entries : entry[m].of \notin R \cup {"none"} => EntryAgrees(m)'
<1>1. /\ ic_aborts \in Nat /\ ic_aborts' >= ic_aborts
      /\ Transactions \subseteq Entities!Docs /\ Gaap \subseteq Entities!Docs
      /\ Runs \subseteq Entities!Docs
  BY DEF EntityTypeInv, Entities!TypeOK, TablesWithin, Within, Entities!Docs
<1>2. ASSUME NEW p \in Pairs \ R PROVE PairAgrees(p)'
  <2>1. balance'[p] = balance[p] /\ PostedOf(p)' = PostedOf(p)
    BY DEF TablesWithin, Within
  <2>2. Unheld(p)' => Unheld(p)
    BY OutsideUnheld
  <2>3. PairAgrees(p)
    BY DEF EntityAgree
  <2>4. ic_aborts' = 0 => ic_aborts = 0
    BY <1>1
  <2> QED BY <2>1, <2>2, <2>3, <2>4 DEF PairAgrees
<1>3. ASSUME NEW d \in (Transactions \cup Gaap) \ R PROVE DocAgrees(d)'
  <2>1. d \in Entities!Docs \ R /\ DocAgrees(d)
    BY <1>1 DEF EntityAgree
  <2>2. doc'[d] = doc[d] /\ OwnLines(d)' = OwnLines(d)
    BY <2>1, OutsideEntries DEF TablesWithin, Within
  <2>3. Unheld(d)' => Unheld(d)
    BY <2>1, OutsideUnheld
  <2>4. Wanted(d) \in {1, 2}
    BY DEF Wanted
  <2>5. Cardinality(OwnLines(d)) \in Nat
    <3>1. IsFiniteSet(Entities!Entries)
      BY FS_Interval DEF Entities!Entries, EntityConstants
    <3> QED BY <3>1, FS_Subset, FS_CardinalityType DEF OwnLines
  <2>6. /\ Wanted(d) * ic_aborts <= Wanted(d) * ic_aborts'
        /\ Wanted(d) * (1 + ic_aborts) <= Wanted(d) * (1 + ic_aborts')
        /\ Wanted(d) * ic_aborts \in Nat /\ Wanted(d) * ic_aborts' \in Nat
        /\ Wanted(d) * (1 + ic_aborts) \in Nat /\ Wanted(d) * (1 + ic_aborts') \in Nat
    BY <2>4, <1>1
  <2>7. Wanted(d)' = Wanted(d)
    BY DEF Wanted
  <2> QED BY <2>1, <2>2, <2>3, <2>5, <2>6, <2>7 DEF DocAgrees
<1>4. ASSUME NEW r \in Runs \ R PROVE RunAgrees(r)'
  <2>1. r \in Entities!Docs \ R /\ RunAgrees(r)
    BY <1>1 DEF EntityAgree
  <2>2. /\ doc'[r] = doc[r] /\ EntriesOf(r)' = EntriesOf(r) /\ elim'[r] = elim[r]
        /\ total'[r] = total[r]
    BY <2>1, OutsideEntries DEF TablesWithin, Within
  <2>3. Unheld(r)' => Unheld(r)
    BY <2>1, OutsideUnheld
  <2>4. Entities!Amount(elim[r])' = Entities!Amount(elim[r])
    BY OutsideAmount
  <2>5. \A n \in elim[r] : Undone(n) => Undone(n)'
    BY OutsideUndone
  <2>6. \A n \in elim[r] : Cardinality(Contras(n)) <= ic_aborts =>
             Cardinality(Contras(n)') <= ic_aborts'
    <3>1. ASSUME NEW n \in elim[r], Cardinality(Contras(n)) <= ic_aborts
          PROVE  Cardinality(Contras(n)') <= ic_aborts'
      <4>1. Cardinality(Contras(n)) <= ic_aborts + 0
        BY <3>1, <1>1
      <4>2. Cardinality(Contras(n)') <= ic_aborts' + 0
        BY <4>1, OutsideUndone
      <4> QED BY <4>2, <1>1
    <3> QED BY <3>1
  <2>7. ic_aborts' = 0 => ic_aborts = 0
    BY <1>1
  <2> HIDE DEF Undone, Contras
  <2> QED BY <2>1, <2>2, <2>3, <2>4, <2>5, <2>6, <2>7 DEF RunAgrees
<1>5. ASSUME NEW m \in Entities!Entries, entry[m].of \notin R \cup {"none"} PROVE EntryAgrees(m)'
  <2>1. entry'[m] = entry[m] /\ EntryAgrees(m)
    BY <1>5 DEF TablesWithin, Within, EntityAgree
  <2>2. entry[m].of \in Runs => /\ elim'[entry[m].of] = elim[entry[m].of]
                                /\ doc'[entry[m].of] = doc[entry[m].of]
    BY <1>1, <1>5 DEF TablesWithin, Within
  <2> QED BY <2>1, <2>2 DEF EntryAgrees
<1> QED BY <1>2, <1>3, <1>4, <1>5

\* Inside R the step itself has to keep the tables in agreement.
Inside(R, U) ==
    /\ \A v \in U : Held(ic_req[v])'
    /\ \A p \in Pairs \cap R : PairAgrees(p)'
    /\ \A d \in (Transactions \cup Gaap) \cap R : DocAgrees(d)'
    /\ \A r \in Runs \cap R : RunAgrees(r)'
    /\ \A m \in Entities!Entries : entry[m].of \in R \cup {"none"} => EntryAgrees(m)'

LEMMA InsideOutside ==
    ASSUME EntityConstants, EntityTypeInv, EntityAgree, NEW R, NEW U, Within(R, U),
           ic_aborts' \in Nat, Inside(R, U)
    PROVE  EntityAgree'
<1>1. ASSUME NEW v \in Workers PROVE Held(ic_req[v])'
  <2>1. CASE v \in U
    BY <2>1 DEF Inside
  <2>2. CASE v \notin U
    <3>1. PICK q : q = ic_req[v]
      OBVIOUS
    <3>2. ic_req'[v] = q
      BY <2>2, <3>1 DEF TablesWithin, Within
    <3>3. Held(q)'
      BY <2>2, <3>1, OutsideHeld
    <3> QED BY <3>2, <3>3
  <2> QED BY <2>1, <2>2
<1>2. /\ \A p \in Pairs : PairAgrees(p)'
      /\ \A d \in Transactions \cup Gaap : DocAgrees(d)'
      /\ \A r \in Runs : RunAgrees(r)'
  BY OutsideAgrees DEF Inside
<1>3. \A m \in Entities!Entries : EntryAgrees(m)'
  BY OutsideAgrees DEF Inside
<1>4. Entities!Entries' = Entities!Entries
  BY DEF Entities!Entries
<1> QED BY <1>1, <1>2, <1>3, <1>4 DEF EntityAgree

\* A request with a row has its pair too; nobody else has either.
LEMMA EntityBusy ==
    ASSUME EntityConstants, EntityTypeInv, EntityApart, NEW w \in Workers,
           ic_req[w].pc # "idle"
    PROVE  /\ ic_req[w].d \in Entities!Docs \cup Pairs
           /\ \A v \in Workers \ {w} : Entities!Touches(v) \cap Rows(ic_req[w].d) = {}
<1>1. /\ EntityPlaced(ic_req[w]) /\ ic_req[w] \in Entities!Request
      /\ ic_req[w].op \in {"post", "adjust", "execute", "reverse", "reconcile"}
  BY EntityLocal, EntityIdle DEF EntityPlaced, Entities!Request
<1>2. ic_req[w].d \in Entities!Docs \cup Pairs
  BY <1>1 DEF EntityPlaced, PostPlaced, AdjustPlaced, ExecutePlaced, ReversePlaced,
     ReconcilePlaced, Entities!Docs
<1>3. Rows(ic_req[w].d) = Entities!Touches(w)
  BY DEF Rows, Entities!Touches
<1>4. "none" \notin Rows(ic_req[w].d)
  BY <1>2 DEF Rows, EntityConstants
<1> QED BY <1>2, <1>3, <1>4 DEF EntityApart

\* The request of a worker after a step.
Becomes(w, q) == ic_req' = [ic_req EXCEPT ![w] = q]

\* A step of one worker keeps the requests apart.
LEMMA EntityWorker ==
    ASSUME EntityConstants, EntityTypeInv, EntityApart, NEW w \in Workers,
           NEW x \in Entities!Docs \cup Pairs, NEW q, Becomes(w, q),
           q.d \in {x, "none"}, ic_req[w].d \in {x, "none"},
           \A v \in Workers \ {w} : Entities!Touches(v) \cap Rows(x) = {}
    PROVE  /\ EntityApart'
           /\ Rows(x) \subseteq Entities!Docs \cup Pairs /\ "none" \notin Rows(x)
           /\ \A v \in Workers \ {w} : ic_req'[v] = ic_req[v]
           /\ ic_req'[w] = q
           /\ Entities!Touches(w) \subseteq Rows(x) \cup {"none"}
           /\ Entities!Touches(w)' \subseteq Rows(x) \cup {"none"}
<1>1. \A v \in Workers : ic_req'[v] = IF v = w THEN q ELSE ic_req[v]
  BY DEF EntityTypeInv, Entities!TypeOK, Becomes
<1>2. "none" \notin Transactions
  BY DEF EntityConstants, Entities!Docs
<1>3. Rows(x) \subseteq Entities!Docs \cup Pairs /\ "none" \notin Rows(x)
  BY DEF Rows, EntityConstants
<1>4. /\ Entities!Touches(w) \subseteq Rows(x) \cup {"none"}
      /\ Entities!Touches(w)' \subseteq Rows(x) \cup {"none"}
  BY <1>1, <1>2 DEF Entities!Touches, Rows
<1>5. \A v \in Workers \ {w} : Entities!Touches(v)' = Entities!Touches(v)
  BY <1>1 DEF Entities!Touches
<1>6. EntityApart'
  <2> SUFFICES ASSUME NEW u \in Workers, NEW v \in Workers, u # v,
                      NEW y \in Entities!Touches(u)' \cap Entities!Touches(v)'
               PROVE  y = "none"
    BY DEF EntityApart
  <2>1. CASE u # w /\ v # w
    BY <2>1, <1>5 DEF EntityApart
  <2>2. CASE u = w
    BY <2>2, <1>4, <1>5
  <2>3. CASE v = w
    BY <2>3, <1>4, <1>5
  <2> QED BY <2>1, <2>2, <2>3
<1> QED BY <1>1, <1>3, <1>4, <1>6

\* A step that changes no table.
LEMMA OnlyRequest ==
    ASSUME EntityConstants, EntityTypeInv, EntityApart, EntityAgree, NEW w \in Workers,
           NEW x \in Entities!Docs \cup Pairs, NEW q, ic_req' = [ic_req EXCEPT ![w] = q],
           q.d = x, ic_req[w].d \in {x, "none"},
           \A v \in Workers \ {w} : Entities!Touches(v) \cap Rows(x) = {},
           UNCHANGED <<doc, balance, entry, elim, total, ic_aborts>>, Held(q)
    PROVE  EntityApart' /\ EntityAgree'
<1>1. /\ EntityApart' /\ ic_req'[w] = q
      /\ Rows(x) \subseteq Entities!Docs \cup Pairs /\ "none" \notin Rows(x)
      /\ \A v \in Workers \ {w} : ic_req'[v] = ic_req[v]
      /\ Entities!Touches(w) \subseteq Rows(x) \cup {"none"}
      /\ Entities!Touches(w)' \subseteq Rows(x) \cup {"none"}
  <2>1. q.d \in {x, "none"} /\ Becomes(w, q)
    BY DEF Becomes
  <2> QED BY <2>1, EntityWorker
<1>2. Within(Rows(x), {w})
  <2>1. ic_aborts' >= ic_aborts /\ \A p \in Pairs : PostedOf(p)' = PostedOf(p)
    BY DEF EntityTypeInv, Entities!TypeOK, PostedOf
  <2> QED BY <2>1, <1>1 DEF TablesWithin, Within
<1>3. \A y \in Rows(x) : ~Unheld(y)'
  BY <1>1 DEF Unheld, Entities!Touches, Rows
<1>4. Inside(Rows(x), {w})
  <2>0. /\ \A p : PostedOf(p)' = PostedOf(p)
        /\ \A d : OwnLines(d)' = OwnLines(d) /\ EntriesOf(d)' = EntriesOf(d)
        /\ \A n : Contras(n)' = Contras(n)
        /\ \A n : Undone(n) => Undone(n)'
    BY DEF PostedOf, OwnLines, EntriesOf, Contras, Undone, Entities!Entries
  <2>1. Held(q)'
    <3>1. Held(q)
      OBVIOUS
    <3>2. StatusHeld(q)' /\ EntryHeld(q)'
      BY <3>1 DEF Held, StatusHeld, EntryHeld
    <3>3. BalanceHeld(q)'
      <4>1. PairWorked(q)' = PairWorked(q)
        BY DEF PairWorked
      <4> QED BY <3>1, <4>1, <2>0 DEF Held, BalanceHeld
    <3>4. OwnHeld(q)'
      <4>1. Wanted(q.d)' = Wanted(q.d)
        BY DEF Wanted
      <4> QED BY <3>1, <4>1, <2>0 DEF Held, OwnHeld
    <3>5. ExecuteHeld(q)'
      <4>1. Entities!Amount(elim[q.d])' = Entities!Amount(elim[q.d])
        BY DEF Entities!Amount
      <4> QED BY <3>1, <4>1, <2>0 DEF Held, ExecuteHeld
    <3>6. ReverseHeld(q)'
      BY <3>1, <2>0 DEF Held, ReverseHeld
    <3> QED BY <3>2, <3>3, <3>4, <3>5, <3>6 DEF Held
  <2>2. Held(ic_req[w])'
    BY <2>1, <1>1
  <2>3. /\ \A p \in Pairs \cap Rows(x) : PairAgrees(p)'
        /\ \A d \in (Transactions \cup Gaap) \cap Rows(x) : DocAgrees(d)'
    BY <1>3 DEF PairAgrees, DocAgrees
  <2>4. \A r \in Runs \cap Rows(x) : RunAgrees(r)'
    <3>1. ASSUME NEW r \in Runs \cap Rows(x) PROVE RunAgrees(r)'
      <4>1. RunAgrees(r) /\ ~Unheld(r)'
        BY <1>3 DEF EntityAgree
      <4>2. Entities!Amount(elim[r])' = Entities!Amount(elim[r])
        BY DEF Entities!Amount
      <4> HIDE DEF Unheld
      <4> QED BY <4>1, <4>2, <2>0 DEF RunAgrees
    <3> QED BY <3>1
  <2>5. \A m \in Entities!Entries : EntryAgrees(m)'
    BY DEF EntityAgree, EntryAgrees
  <2> QED BY <2>2, <2>3, <2>4, <2>5 DEF Inside
<1>5. ic_aborts' \in Nat
  BY DEF EntityTypeInv, Entities!TypeOK
<1> QED BY <1>1, <1>2, <1>4, <1>5, InsideOutside

LEMMA EntityCounts ==
    ASSUME EntityConstants
    PROVE  /\ \A d : IsFiniteSet(OwnLines(d)) /\ Cardinality(OwnLines(d)) \in Nat
           /\ \A n : IsFiniteSet(Contras(n)) /\ Cardinality(Contras(n)) \in Nat
           /\ \A p : IsFiniteSet(PostedOf(p)) /\ Cardinality(PostedOf(p)) \in Nat
<1>1. IsFiniteSet(Entities!Entries) /\ IsFiniteSet(Transactions)
  BY FS_Interval DEF Entities!Entries, EntityConstants
<1>2. ASSUME NEW d PROVE IsFiniteSet(OwnLines(d)) /\ Cardinality(OwnLines(d)) \in Nat
  BY <1>1, FS_Subset, FS_CardinalityType DEF OwnLines
<1>3. ASSUME NEW n PROVE IsFiniteSet(Contras(n)) /\ Cardinality(Contras(n)) \in Nat
  BY <1>1, FS_Subset, FS_CardinalityType DEF Contras
<1>4. ASSUME NEW p PROVE IsFiniteSet(PostedOf(p)) /\ Cardinality(PostedOf(p)) \in Nat
  BY <1>1, FS_Subset, FS_CardinalityType DEF PostedOf
<1> QED BY <1>2, <1>3, <1>4

\* What is free when a request starts is what nobody else works with.
LEMMA EntityStarts ==
    ASSUME EntityConstants, EntityTypeInv, NEW w \in Workers, NEW x \in Entities!Docs \cup Pairs,
           NEW what, Rows(x) \subseteq what, Entities!MayStart(w, what)
    PROVE  /\ ic_req[w].d = "none"
           /\ \A v \in Workers \ {w} : Entities!Touches(v) \cap Rows(x) = {}
           /\ \A y \in Rows(x) : Unheld(y)
<1>1. ic_req[w].d = "none"
  BY EntityLocal, EntityIdle DEF Entities!MayStart, Entities!Busy, Entities!At, EntityPlaced
<1> QED BY <1>1 DEF Entities!MayStart, Unheld

-----------------------------------------------------------------------------
(* Entities: the steps, one lemma for each action.                                  *)

LEMMA PostApart ==
    ASSUME EntityConstants, EntityTypeInv, EntityApart, EntityAgree,
           NEW w \in Workers, NEW t \in Transactions, Entities!Post(w, t)
    PROVE  EntityApart' /\ EntityAgree'
<1> DEFINE e == [Entities!NoEntry EXCEPT !.of = t, !.amt = 1]
           q == [Entities!Idle EXCEPT !.op = "post", !.pc = "number", !.d = t, !.left = 2, !.new = e]
<1>1. /\ ic_req' = [ic_req EXCEPT ![w] = q] /\ doc[t] = "confirmed"
      /\ UNCHANGED <<doc, balance, entry, elim, total, ic_aborts>>
  BY DEF Entities!Post
<1>2. q.op = "post" /\ q.pc = "number" /\ q.d = t /\ q.left = 2
  BY DEF Entities!Idle
<1> HIDE DEF e, q
<1>3. t \in Entities!Docs \cup Pairs /\ Rows(t) = {t, PairOf[t]} /\ PairOf[t] \in Pairs
  BY DEF Entities!Docs, Rows, EntityConstants
<1>4. /\ ic_req[w].d = "none"
      /\ \A v \in Workers \ {w} : Entities!Touches(v) \cap Rows(t) = {}
      /\ Unheld(t) /\ Unheld(PairOf[t])
  BY <1>3, EntityStarts DEF Entities!Post
<1>5. BalanceHeld(q)
  <2>1. PairWorked(q) = PairOf[t]
    BY <1>2 DEF PairWorked
  <2>2. PairAgrees(PairOf[t]) /\ balance[PairOf[t]] \in Nat
    BY <1>3 DEF EntityAgree, EntityTypeInv, Entities!TypeOK
  <2> QED BY <2>1, <2>2, <1>2, <1>4 DEF BalanceHeld, PairAgrees
<1>6. OwnHeld(q)
  <2>1. Cardinality(OwnLines(t)) <= 2 * ic_aborts /\ Cardinality(OwnLines(t)) \in Nat
    <3>1. DocAgrees(t)
      BY DEF EntityAgree
    <3> QED BY <3>1, <1>1, <1>4, EntityCounts DEF DocAgrees, Wanted
  <2>2. ic_aborts \in Nat
    BY DEF EntityTypeInv, Entities!TypeOK
  <2>3. Wanted(q.d) = 2 /\ q.left = 2
    BY <1>2 DEF Wanted
  <2> QED BY <2>1, <2>2, <2>3, <1>2 DEF OwnHeld
<1>7. Held(q)
  BY <1>1, <1>2, <1>5, <1>6 DEF Held, StatusHeld, EntryHeld, ExecuteHeld, ReverseHeld
<1> QED BY <1>1, <1>2, <1>3, <1>4, <1>7, OnlyRequest

LEMMA AdjustApart ==
    ASSUME EntityConstants, EntityTypeInv, EntityApart, EntityAgree,
           NEW w \in Workers, NEW a \in Gaap, Entities!PostAdjustment(w, a)
    PROVE  EntityApart' /\ EntityAgree'
<1> DEFINE e == [Entities!NoEntry EXCEPT !.of = a, !.amt = 1]
           q == [Entities!Idle EXCEPT !.op = "adjust", !.pc = "number", !.d = a, !.left = 1, !.new = e]
<1>1. /\ ic_req' = [ic_req EXCEPT ![w] = q] /\ doc[a] = "draft"
      /\ UNCHANGED <<doc, balance, entry, elim, total, ic_aborts>>
  BY DEF Entities!PostAdjustment
<1>2. q.op = "adjust" /\ q.pc = "number" /\ q.d = a /\ q.left = 1
  BY DEF Entities!Idle
<1> HIDE DEF e, q
<1>3. a \in Entities!Docs \cup Pairs /\ Rows(a) = {a} /\ a \notin Transactions
  BY DEF Entities!Docs, Rows, EntityConstants
<1>4. /\ ic_req[w].d = "none"
      /\ \A v \in Workers \ {w} : Entities!Touches(v) \cap Rows(a) = {}
      /\ Unheld(a)
  BY <1>3, EntityStarts DEF Entities!PostAdjustment
<1>5. OwnHeld(q)
  <2>1. Cardinality(OwnLines(a)) <= 1 * ic_aborts /\ Cardinality(OwnLines(a)) \in Nat
    <3>1. DocAgrees(a)
      BY DEF EntityAgree
    <3> QED BY <3>1, <1>1, <1>3, <1>4, EntityCounts DEF DocAgrees, Wanted
  <2>2. ic_aborts \in Nat
    BY DEF EntityTypeInv, Entities!TypeOK
  <2>3. Wanted(q.d) = 1 /\ q.left = 1
    BY <1>2, <1>3 DEF Wanted
  <2> QED BY <2>1, <2>2, <2>3, <1>2 DEF OwnHeld
<1>6. Held(q)
  BY <1>1, <1>2, <1>5 DEF Held, StatusHeld, EntryHeld, BalanceHeld, ExecuteHeld, ReverseHeld
<1> QED BY <1>1, <1>2, <1>3, <1>4, <1>6, OnlyRequest

LEMMA NothingAmounts == Entities!Amount({}) = 0
<1> DEFINE g == [n \in {} |-> entry[n].amt]
<1>1. g \in [{} -> Int] /\ \A n \in {} : g[n] = 0
  OBVIOUS
<1>2. SumOf(g) = 0
  <2> HIDE DEF g
  <2> QED BY <1>1, FS_EmptySet, SumZero
<1> QED BY <1>2, SameEntitySum DEF Entities!Amount

LEMMA ExecuteApart ==
    ASSUME EntityConstants, EntityTypeInv, EntityApart, EntityAgree,
           NEW w \in Workers, NEW r \in Runs, Entities!Execute(w, r)
    PROVE  EntityApart' /\ EntityAgree'
<1> DEFINE q == [Entities!Idle EXCEPT !.op = "execute", !.pc = "begin", !.d = r,
                                      !.left = elim_rules]
<1>1. /\ ic_req' = [ic_req EXCEPT ![w] = q] /\ doc[r] = "draft"
      /\ UNCHANGED <<doc, balance, entry, elim, total, ic_aborts>>
  BY DEF Entities!Execute
<1>2. q.op = "execute" /\ q.pc = "begin" /\ q.d = r /\ q.sum = 0
  BY DEF Entities!Idle
<1> HIDE DEF q
<1>3. r \in Entities!Docs \cup Pairs /\ Rows(r) = {r}
  BY DEF Entities!Docs, Rows, EntityConstants
<1>4. /\ ic_req[w].d = "none"
      /\ \A v \in Workers \ {w} : Entities!Touches(v) \cap Rows(r) = {}
  BY <1>3, EntityStarts DEF Entities!Execute
<1>5. EntriesOf(r) = {} /\ elim[r] = {}
  BY <1>1 DEF EntityAgree, RunAgrees
<1>6. ExecuteHeld(q)
  BY <1>2, <1>5, NothingAmounts DEF ExecuteHeld
<1>7. Held(q)
  BY <1>1, <1>2, <1>6 DEF Held, StatusHeld, EntryHeld, BalanceHeld, OwnHeld, ReverseHeld
<1> QED BY <1>1, <1>2, <1>3, <1>4, <1>7, OnlyRequest

LEMMA ReverseApart ==
    ASSUME EntityConstants, EntityTypeInv, EntityApart, EntityAgree,
           NEW w \in Workers, NEW r \in Runs, Entities!Reverse(w, r)
    PROVE  EntityApart' /\ EntityAgree'
<1>0. PICK label \in {"save", "number"} : label = IF elim[r] = {} THEN "save" ELSE "number"
  OBVIOUS
<1> DEFINE q == [Entities!Idle EXCEPT !.op = "reverse", !.d = r, !.back = elim[r], !.pc = label]
<1>1. /\ ic_req' = [ic_req EXCEPT ![w] = q] /\ doc[r] = "completed"
      /\ UNCHANGED <<doc, balance, entry, elim, total, ic_aborts>>
  BY <1>0 DEF Entities!Reverse
<1>2. q.op = "reverse" /\ q.pc = label /\ q.d = r /\ q.back = elim[r]
  BY DEF Entities!Idle
<1> HIDE DEF q
<1>3. r \in Entities!Docs \cup Pairs /\ Rows(r) = {r}
  BY DEF Entities!Docs, Rows, EntityConstants
<1>4. /\ ic_req[w].d = "none"
      /\ \A v \in Workers \ {w} : Entities!Touches(v) \cap Rows(r) = {}
      /\ Unheld(r)
  BY <1>3, EntityStarts DEF Entities!Reverse
<1>5. ReverseHeld(q)
  <2>1. \A n \in elim[r] : Cardinality(Contras(n)) <= ic_aborts
    BY <1>1, <1>4 DEF EntityAgree, RunAgrees
  <2>2. ic_aborts \in Nat
    BY DEF EntityTypeInv, Entities!TypeOK
  <2>3. \A n \in elim[r] : Cardinality(Contras(n)) <= ic_aborts + 0
    BY <2>1, <2>2
  <2> QED BY <1>0, <1>2, <2>3 DEF ReverseHeld
<1>6. Held(q)
  BY <1>0, <1>1, <1>2, <1>5 DEF Held, StatusHeld, EntryHeld, BalanceHeld, OwnHeld, ExecuteHeld
<1> QED BY <1>1, <1>2, <1>3, <1>4, <1>6, OnlyRequest

LEMMA ReconcileApart ==
    ASSUME EntityConstants, EntityTypeInv, EntityApart, EntityAgree,
           NEW w \in Workers, NEW p \in Pairs, Entities!Reconcile(w, p)
    PROVE  EntityApart' /\ EntityAgree'
<1>0. PICK m \in Nat : m = balance[p]
  BY DEF EntityTypeInv, Entities!TypeOK
<1> DEFINE q == [Entities!Idle EXCEPT !.op = "reconcile", !.d = p, !.sum = m,
                                      !.pc = "save_balance"]
<1>1. /\ ic_req' = [ic_req EXCEPT ![w] = q]
      /\ UNCHANGED <<doc, balance, entry, elim, total, ic_aborts>>
  BY <1>0 DEF Entities!Reconcile
<1>2. q.op = "reconcile" /\ q.pc = "save_balance" /\ q.d = p /\ q.sum = m
  BY DEF Entities!Idle
<1> HIDE DEF q
<1>3. p \in Entities!Docs \cup Pairs /\ Rows(p) = {p}
  BY DEF Entities!Docs, Rows, EntityConstants
<1>4. /\ ic_req[w].d = "none"
      /\ \A v \in Workers \ {w} : Entities!Touches(v) \cap Rows(p) = {}
      /\ Unheld(p)
  BY <1>3, EntityStarts DEF Entities!Reconcile
<1>5. BalanceHeld(q)
  <2>1. PairWorked(q) = p
    BY <1>2 DEF PairWorked
  <2>2. PairAgrees(p)
    BY DEF EntityAgree
  <2> QED BY <2>1, <2>2, <1>0, <1>2, <1>4 DEF BalanceHeld, PairAgrees
<1>6. Held(q)
  BY <1>2, <1>5 DEF Held, StatusHeld, EntryHeld, OwnHeld, ExecuteHeld, ReverseHeld
<1> QED BY <1>1, <1>2, <1>3, <1>4, <1>6, OnlyRequest

\* A step of a request that is under way.
Serves(w, x) == ic_req[w].pc # "idle" /\ ic_req[w].d = x

LEMMA BusyStep ==
    ASSUME EntityConstants, EntityTypeInv, EntityApart, NEW w \in Workers, NEW x, Serves(w, x),
           NEW q, q.d \in {x, "none"}, Becomes(w, q), TablesWithin(Rows(x))
    PROVE  EntityApart' /\ Within(Rows(x), {w}) /\ ic_req'[w] = q
<1>1. x \in Entities!Docs \cup Pairs
  BY EntityBusy DEF Serves
<1>2. \A v \in Workers \ {w} : Entities!Touches(v) \cap Rows(x) = {}
  BY EntityBusy DEF Serves
<1>3. /\ EntityApart' /\ ic_req'[w] = q
      /\ Rows(x) \subseteq Entities!Docs \cup Pairs
      /\ \A v \in Workers \ {w} : ic_req'[v] = ic_req[v]
      /\ Entities!Touches(w) \subseteq Rows(x) \cup {"none"}
      /\ Entities!Touches(w)' \subseteq Rows(x) \cup {"none"}
  <2>1. ic_req[w].d \in {x, "none"}
    BY DEF Serves
  <2> QED BY <2>1, <1>1, <1>2, EntityWorker
<1>4. Within(Rows(x), {w})
  BY <1>2, <1>3 DEF Within
<1> QED BY <1>3, <1>4

\* One that goes on: its rows stay with it.
LEMMA GoesOn ==
    ASSUME EntityConstants, EntityTypeInv, EntityApart, EntityAgree, NEW w \in Workers,
           NEW x, Serves(w, x), NEW q, q.d = x, Becomes(w, q), TablesWithin(Rows(x)),
           ic_aborts' \in Nat, Held(q)', x \in Runs => RunAgrees(x)',
           \A m \in Entities!Entries : entry[m].of \in Rows(x) \cup {"none"} => EntryAgrees(m)'
    PROVE  EntityApart' /\ EntityAgree'
<1>1. q.d \in {x, "none"}
  OBVIOUS
<1>2. /\ EntityApart' /\ Within(Rows(x), {w}) /\ ic_req'[w] = q
  BY <1>1, BusyStep
<1>3. ASSUME NEW y \in Rows(x) PROVE ~Unheld(y)'
  BY <1>2 DEF Unheld, Entities!Touches, Rows
<1>4. \A r \in Runs \cap Rows(x) : r = x
  BY EntityBusy DEF Serves, Rows, EntityConstants, Entities!Docs
<1>5. Held(ic_req[w])'
  BY <1>2
<1>6. /\ \A p \in Pairs \cap Rows(x) : PairAgrees(p)'
      /\ \A d \in (Transactions \cup Gaap) \cap Rows(x) : DocAgrees(d)'
  BY <1>3 DEF PairAgrees, DocAgrees
<1>7. \A r \in Runs \cap Rows(x) : RunAgrees(r)'
  BY <1>4
<1>8. Inside(Rows(x), {w})
  BY <1>5, <1>6, <1>7 DEF Inside
<1> QED BY <1>2, <1>8, InsideOutside

LEMMA NumberApart ==
    ASSUME EntityConstants, EntityTypeInv, EntityApart, EntityAgree,
           NEW w \in Workers, Entities!GenerateNumber(w)
    PROVE  EntityApart' /\ EntityAgree'
<1>1. PICK n \in Entities!Entries : ic_req' = [ic_req EXCEPT ![w].n = n, ![w].pc = "insert"]
  BY DEF Entities!GenerateNumber
<1> DEFINE q == [ic_req[w] EXCEPT !.n = n, !.pc = "insert"]
<1>2. ic_req' = [ic_req EXCEPT ![w] = q]
  BY <1>1 DEF EntityTypeInv, Entities!TypeOK
<1>3. /\ ic_req[w].pc = "number" /\ q.pc = "insert"
      /\ q.op = ic_req[w].op /\ q.d = ic_req[w].d /\ q.new = ic_req[w].new
      /\ q.left = ic_req[w].left /\ q.back = ic_req[w].back /\ q.sum = ic_req[w].sum
  BY EntityLocal DEF Entities!GenerateNumber, Entities!At, Entities!Request
<1>4. UNCHANGED <<doc, balance, entry, elim, total, ic_aborts>>
  BY DEF Entities!GenerateNumber
<1> HIDE DEF q
<1>5. Held(q)
  <2>1. Held(ic_req[w])
    BY DEF EntityAgree
  <2>2. BalanceHeld(q)
    BY <2>1, <1>3 DEF Held, BalanceHeld, PairWorked
  <2>3. StatusHeld(q) /\ EntryHeld(q) /\ OwnHeld(q)
    BY <2>1, <1>3 DEF Held, StatusHeld, EntryHeld, OwnHeld
  <2>4. ExecuteHeld(q) /\ ReverseHeld(q)
    BY <2>1, <1>3 DEF Held, ExecuteHeld, ReverseHeld
  <2> QED BY <2>2, <2>3, <2>4 DEF Held
<1>6. /\ ic_req[w].d \in Entities!Docs \cup Pairs
      /\ \A v \in Workers \ {w} : Entities!Touches(v) \cap Rows(ic_req[w].d) = {}
  BY <1>3, EntityBusy
<1> QED BY <1>2, <1>3, <1>4, <1>5, <1>6, OnlyRequest

LEMMA RuleApart ==
    ASSUME EntityConstants, EntityTypeInv, EntityApart, EntityAgree,
           NEW w \in Workers, Entities!NextRule(w)
    PROVE  EntityApart' /\ EntityAgree'
<1>0. ic_req[w].pc = "rule" /\ ic_req[w].op = "execute"
  BY EntityLocal, EntityIdle DEF Entities!NextRule, Entities!At, Entities!Request, EntityPlaced,
     PostPlaced, AdjustPlaced, ReversePlaced, ReconcilePlaced, PostLabels
<1>1. /\ ic_req[w].d \in Entities!Docs \cup Pairs
      /\ \A v \in Workers \ {w} : Entities!Touches(v) \cap Rows(ic_req[w].d) = {}
  BY <1>0, EntityBusy
<1>2. \E q : /\ ic_req' = [ic_req EXCEPT ![w] = q]
             /\ q.pc \in {"save", "rule", "number"} /\ q.op = "execute" /\ q.d = ic_req[w].d
             /\ q.sum = ic_req[w].sum
  <2>1. CASE ic_req[w].left = 0
    <3> DEFINE q == [ic_req[w] EXCEPT !.pc = "save"]
    <3>1. ic_req' = [ic_req EXCEPT ![w] = q]
      BY <2>1 DEF Entities!NextRule, EntityTypeInv, Entities!TypeOK
    <3>2. q.pc = "save" /\ q.op = "execute" /\ q.d = ic_req[w].d /\ q.sum = ic_req[w].sum
      BY <1>0, EntityRow DEF Entities!Request
    <3> HIDE DEF q
    <3> QED BY <3>1, <3>2
  <2>2. CASE ic_req[w].left # 0
    <3>1. PICK label \in {"rule", "number"} :
             label = IF balance = Entities!NoBalances THEN "rule" ELSE "number"
      OBVIOUS
    <3> DEFINE q == [ic_req[w] EXCEPT !.left = @ - 1, !.due = balance, !.pc = label]
    <3>2. ic_req' = [ic_req EXCEPT ![w] = q]
      <4>1. ic_req \in [Workers -> Entities!Request]
        BY DEF EntityTypeInv, Entities!TypeOK
      <4> QED BY <2>2, <3>1, <4>1, Zenon DEF Entities!NextRule
    <3>3. q.pc = label /\ q.op = "execute" /\ q.d = ic_req[w].d /\ q.sum = ic_req[w].sum
      BY <1>0, EntityRow DEF Entities!Request
    <3> HIDE DEF q
    <3> QED BY <3>2, <3>3
  <2> QED BY <2>1, <2>2
<1>3. PICK q : /\ ic_req' = [ic_req EXCEPT ![w] = q]
               /\ q.pc \in {"save", "rule", "number"} /\ q.op = "execute" /\ q.d = ic_req[w].d
               /\ q.sum = ic_req[w].sum
  BY <1>2
<1>4. UNCHANGED <<doc, balance, entry, elim, total, ic_aborts>>
  BY DEF Entities!NextRule
<1>5. Held(q)
  <2>1. Held(ic_req[w])
    BY DEF EntityAgree
  <2>2. ExecuteHeld(q)
    BY <2>1, <1>0, <1>3 DEF Held, ExecuteHeld
  <2>3. StatusHeld(q) /\ EntryHeld(q) /\ OwnHeld(q) /\ BalanceHeld(q) /\ ReverseHeld(q)
    BY <2>1, <1>0, <1>3 DEF Held, StatusHeld, EntryHeld, OwnHeld, BalanceHeld, ReverseHeld
  <2> QED BY <2>2, <2>3 DEF Held
<1> QED BY <1>1, <1>3, <1>4, <1>5, OnlyRequest

LEMMA LoadApart ==
    ASSUME EntityConstants, EntityTypeInv, EntityApart, EntityAgree,
           NEW w \in Workers, Entities!LoadBalance(w)
    PROVE  EntityApart' /\ EntityAgree'
<1>0. ic_req[w].pc = "balance" /\ ic_req[w].op = "post" /\ ic_req[w].d \in Transactions
  BY EntityLocal, EntityIdle DEF Entities!LoadBalance, Entities!At, Entities!Request, EntityPlaced,
     PostPlaced, AdjustPlaced, ExecutePlaced, ReversePlaced, ReconcilePlaced, PostLabels
<1>1. /\ ic_req[w].d \in Entities!Docs \cup Pairs
      /\ \A v \in Workers \ {w} : Entities!Touches(v) \cap Rows(ic_req[w].d) = {}
  BY <1>0, EntityBusy
<1>2. PICK sum \in Nat : sum = balance[PairOf[ic_req[w].d]] + 1
  BY <1>0 DEF EntityConstants, EntityTypeInv, Entities!TypeOK
<1> DEFINE q == [ic_req[w] EXCEPT !.sum = sum, !.pc = "save_balance"]
<1>3. ic_req' = [ic_req EXCEPT ![w] = q]
  BY <1>2 DEF Entities!LoadBalance, EntityTypeInv, Entities!TypeOK
<1>4. /\ q.op = "post" /\ q.pc = "save_balance" /\ q.d = ic_req[w].d /\ q.sum = sum
      /\ q.left = ic_req[w].left
  BY <1>0, EntityRow DEF Entities!Request
<1> HIDE DEF q
<1>5. UNCHANGED <<doc, balance, entry, elim, total, ic_aborts>>
  BY DEF Entities!LoadBalance
<1>6. Held(q)
  <2>1. Held(ic_req[w])
    BY DEF EntityAgree
  <2>2. BalanceHeld(q)
    <3>1. PairWorked(q) = PairOf[ic_req[w].d] /\ PairWorked(ic_req[w]) = PairOf[ic_req[w].d]
      BY <1>0, <1>4 DEF PairWorked
    <3> QED BY <3>1, <2>1, <1>0, <1>2, <1>4 DEF Held, BalanceHeld
  <2>3. StatusHeld(q) /\ EntryHeld(q) /\ OwnHeld(q)
    BY <2>1, <1>0, <1>4 DEF Held, StatusHeld, EntryHeld, OwnHeld
  <2>4. ExecuteHeld(q) /\ ReverseHeld(q)
    BY <1>4 DEF ExecuteHeld, ReverseHeld
  <2> QED BY <2>2, <2>3, <2>4 DEF Held
<1> QED BY <1>1, <1>3, <1>4, <1>5, <1>6, OnlyRequest

\* What the worker of a step that posts or records an entry holds before it.
LEMMA EntityPosting ==
    ASSUME EntityConstants, EntityTypeInv, EntityAgree, NEW w \in Workers,
           ic_req[w].pc \in {"insert", "lines", "track"}
    PROVE  \E x \in Entities!Docs, n \in Entities!Entries, r \in Entities!Request :
              /\ r = ic_req[w] /\ r.d = x /\ r.n = n /\ Serves(w, x)
              /\ r.op \in {"post", "adjust", "execute", "reverse"}
              /\ EntityPlaced(r) /\ Held(r)
              /\ r.op = "post" => x \in Transactions
              /\ r.op = "adjust" => x \in Gaap
              /\ r.op \in {"execute", "reverse"} => x \in Runs
              /\ r.op # "reverse" => r.new.undo = 0
<1> DEFINE r == ic_req[w]
<1>1. r \in Entities!Request /\ EntityPlaced(r)
  BY EntityLocal
<1>2. r.op \in {"post", "adjust", "execute", "reverse"}
  BY <1>1, EntityIdle DEF EntityPlaced, ReconcilePlaced, Entities!Request
<1>3. /\ r.op = "post" => r.d \in Transactions
      /\ r.op = "adjust" => r.d \in Gaap
      /\ r.op \in {"execute", "reverse"} => r.d \in Runs
      /\ r.n \in Entities!Entries
      /\ r.op # "reverse" => r.new.undo = 0
  BY <1>1 DEF EntityPlaced, PostPlaced, AdjustPlaced, ExecutePlaced, ReversePlaced
<1>4. r.d \in Entities!Docs /\ Serves(w, r.d) /\ Held(r)
  BY <1>2, <1>3 DEF Entities!Docs, Serves, EntityAgree
<1> QED BY <1>1, <1>2, <1>3, <1>4

\* The entry of no document is nobody's.
LEMMA FreeEntry ==
    ASSUME EntityConstants, EntityTypeInv, EntityAgree, NEW n \in Entities!Entries,
           entry[n].of = "none"
    PROVE  /\ entry[n].undo = 0
           /\ \A r \in Runs : n \notin elim[r]
           /\ \A d \in Entities!Docs : n \notin EntriesOf(d) /\ n \notin OwnLines(d)
<1>1. "none" \notin Entities!Docs /\ Runs \subseteq Entities!Docs
  BY DEF EntityConstants, Entities!Docs
<1>2. entry[n].undo = 0
  BY <1>1 DEF EntityAgree, EntryAgrees
<1>3. \A d \in Entities!Docs : n \notin EntriesOf(d) /\ n \notin OwnLines(d)
  BY <1>1 DEF EntriesOf, OwnLines
<1>4. \A r \in Runs : n \notin elim[r]
  BY <1>1, <1>3 DEF EntityAgree, RunAgrees
<1> QED BY <1>2, <1>3, <1>4

LEMMA InsertApart ==
    ASSUME EntityConstants, EntityTypeInv, EntityApart, EntityAgree,
           NEW w \in Workers, Entities!InsertEntry(w)
    PROVE  EntityApart' /\ EntityAgree'
<1>1. ic_req[w].pc = "insert" /\ entry[ic_req[w].n].of = "none"
  BY DEF Entities!InsertEntry, Entities!At
<1>2. PICK x \in Entities!Docs, n \in Entities!Entries, r \in Entities!Request :
         /\ r = ic_req[w] /\ r.d = x /\ r.n = n /\ Serves(w, x)
         /\ r.op \in {"post", "adjust", "execute", "reverse"}
         /\ EntityPlaced(r) /\ Held(r)
         /\ r.op = "post" => x \in Transactions
         /\ r.op = "adjust" => x \in Gaap
         /\ r.op \in {"execute", "reverse"} => x \in Runs
         /\ r.op # "reverse" => r.new.undo = 0
  BY <1>1, EntityPosting
<1>3. PICK e \in Entities!Chosen(w) :
         /\ entry' = [entry EXCEPT ![ic_req[w].n] = e]
         /\ ic_req' = [ic_req EXCEPT ![w].new = e, ![w].pc = "lines"]
  BY DEF Entities!InsertEntry
<1>4. /\ e \in Entities!Entry /\ e.of = x /\ e.lines = FALSE
      /\ r.op # "reverse" => e.undo = 0
      /\ r.op = "reverse" => e.undo \in r.back /\ e.amt = entry[e.undo].amt
  BY <1>1, <1>2, ChosenType DEF PostLabels
<1>5. /\ entry[n].of = "none" /\ entry'[n] = e
      /\ \A m \in Entities!Entries \ {n} : entry'[m] = entry[m]
  BY <1>1, <1>2, <1>3 DEF EntityTypeInv, Entities!TypeOK
<1>6. UNCHANGED <<doc, balance, elim, total, ic_aborts>>
  BY DEF Entities!InsertEntry
<1> DEFINE q == [r EXCEPT !.new = e, !.pc = "lines"]
<1>7. Becomes(w, q)
  BY <1>2, <1>3 DEF Becomes, EntityTypeInv, Entities!TypeOK
<1>8. /\ q.op = r.op /\ q.pc = "lines" /\ q.d = x /\ q.n = n /\ q.new = e
      /\ q.left = r.left /\ q.back = r.back /\ q.sum = r.sum
  BY <1>2 DEF Entities!Request
<1>9. /\ r.pc = "insert" /\ StatusHeld(r) /\ BalanceHeld(r) /\ OwnHeld(r) /\ ExecuteHeld(r)
      /\ ReverseHeld(r)
  BY <1>1, <1>2 DEF Held
<1> HIDE DEF q
<1>10. x \in Rows(x) /\ x # "none"
  BY DEF Rows, EntityConstants
<1>11. r.op = "reverse" => e.undo \in elim[x]
  BY <1>2, <1>4, <1>9 DEF ReverseHeld
<1>12. /\ entry[n].undo = 0
       /\ \A y \in Runs : n \notin elim[y]
       /\ \A d \in Entities!Docs : n \notin EntriesOf(d) /\ n \notin OwnLines(d)
  BY <1>5, FreeEntry
<1>13. TablesWithin(Rows(x))
  <2>1. \A p : PostedOf(p)' = PostedOf(p)
    BY <1>6 DEF PostedOf
  <2>2. e.undo = 0 \/ \E y \in Runs \cap Rows(x) : e.undo \in elim[y]
    BY <1>2, <1>4, <1>10, <1>11
  <2>3. ic_aborts' >= ic_aborts
    BY <1>6 DEF EntityTypeInv, Entities!TypeOK
  <2> QED BY <2>1, <2>2, <2>3, <1>4, <1>5, <1>6, <1>10 DEF TablesWithin
<1>14. /\ OwnLines(x)' = OwnLines(x) /\ EntriesOf(x)' = EntriesOf(x) \cup {n}
  <2>1. Entities!Entries' = Entities!Entries
    BY DEF Entities!Entries
  <2>2. OwnLines(x)' = OwnLines(x)
    BY <2>1, <1>4, <1>5, <1>12 DEF OwnLines
  <2>3. EntriesOf(x)' = EntriesOf(x) \cup {n}
    BY <2>1, <1>4, <1>5 DEF EntriesOf
  <2> QED BY <2>2, <2>3
<1>15. \A k : Contras(k)' = IF k = e.undo THEN Contras(k) \cup {n} ELSE Contras(k) \ {n}
  <2>1. Entities!Entries' = Entities!Entries
    BY DEF Entities!Entries
  <2> QED BY <2>1, <1>5 DEF Contras
<1>16. ASSUME x \in Runs
       PROVE  /\ \A k \in elim[x] : k \in Entities!Entries /\ k # n /\ entry'[k] = entry[k]
              /\ Entities!Amount(elim[x])' = Entities!Amount(elim[x])
  <2>1. \A k \in elim[x] : k \in Entities!Entries /\ k # n
    BY <1>12, <1>16 DEF EntityTypeInv, Entities!TypeOK
  <2>2. \A k \in elim[x] : entry'[k] = entry[k]
    BY <2>1, <1>5
  <2>3. [k \in elim'[x] |-> entry'[k].amt] = [k \in elim[x] |-> entry[k].amt]
    BY <2>2, <1>6
  <2> QED BY <2>1, <2>2, <2>3, Zenon DEF Entities!Amount
<1>17. Held(q)'
  <2>1. StatusHeld(q)' /\ EntryHeld(q)'
    BY <1>2, <1>4, <1>5, <1>6, <1>8, <1>9 DEF StatusHeld, EntryHeld
  <2>2. BalanceHeld(q)'
    <3>1. \A p : PostedOf(p)' = PostedOf(p)
      BY <1>6 DEF PostedOf
    <3>2. PairWorked(q)' = PairWorked(r)
      BY <1>2, <1>8 DEF PairWorked
    <3> QED BY <3>1, <3>2, <1>2, <1>6, <1>8, <1>9 DEF BalanceHeld
  <2>3. OwnHeld(q)'
    <3>1. Wanted(x)' = Wanted(x)
      BY DEF Wanted
    <3> QED BY <3>1, <1>2, <1>6, <1>8, <1>9, <1>14 DEF OwnHeld
  <2>4. ExecuteHeld(q)'
    BY <1>2, <1>6, <1>8, <1>9, <1>12, <1>14, <1>16 DEF ExecuteHeld
  <2>5. ReverseHeld(q)'
    <3>1. SUFFICES ASSUME r.op = "reverse" PROVE ReverseHeld(q)'
      BY <1>8 DEF ReverseHeld
    <3>2. /\ x \in Runs /\ r.back \subseteq elim[x] /\ e.undo \in r.back
          /\ e.amt = entry[e.undo].amt
          /\ \A k \in elim[x] \ r.back : Undone(k)
          /\ \A k \in r.back : Cardinality(Contras(k)) <= ic_aborts + 0
      BY <3>1, <1>2, <1>4, <1>9 DEF ReverseHeld
    <3>3. \A k : n \notin Contras(k) \/ k = 0
      BY <1>12 DEF Contras
    <3>4. \A k \in elim[x] : k # 0 /\ n \notin Contras(k)
      BY <3>2, <3>3, <1>16 DEF Entities!Entries, EntityConstants
    <3>5. ASSUME NEW k \in elim[x] \ r.back PROVE Undone(k)'
      <4>1. k # e.undo /\ Undone(k)
        BY <3>2
      <4>2. Contras(k)' = Contras(k)
        BY <4>1, <3>4, <1>15
      <4>3. \A m \in Contras(k) : entry'[m] = entry[m]
        BY <3>4, <1>5 DEF Contras
      <4>4. entry'[k] = entry[k]
        BY <3>2, <1>16
      <4> QED BY <4>1, <4>2, <4>3, <4>4, <1>6 DEF Undone
    <3>6. ASSUME NEW k \in r.back
          PROVE  Cardinality(Contras(k)') <= ic_aborts' + (IF k = e.undo THEN 1 ELSE 0)
      <4>1. /\ Cardinality(Contras(k)) \in Nat /\ IsFiniteSet(Contras(k)) /\ ic_aborts \in Nat
            /\ n \notin Contras(k) /\ Cardinality(Contras(k)) <= ic_aborts + 0
        BY <3>2, <3>4, EntityCounts DEF EntityTypeInv, Entities!TypeOK
      <4>2. CASE k = e.undo
        <5>1. Contras(k)' = Contras(k) \cup {n}
          BY <4>2, <1>15
        <5>2. Cardinality(Contras(k) \cup {n}) = Cardinality(Contras(k)) + 1
          BY <4>1, FS_AddElement
        <5> QED BY <5>1, <5>2, <4>1, <4>2, <1>6
      <4>3. CASE k # e.undo
        <5>1. Contras(k)' = Contras(k)
          BY <4>1, <4>3, <1>15
        <5> QED BY <5>1, <4>1, <4>3, <1>6
      <4> QED BY <4>2, <4>3
    <3>7. entry'[e.undo].amt = entry[e.undo].amt
      BY <3>2, <1>16
    <3> HIDE DEF Undone, Contras
    <3> QED BY <3>2, <3>5, <3>6, <3>7, <1>6, <1>8 DEF ReverseHeld
  <2> QED BY <2>1, <2>2, <2>3, <2>4, <2>5 DEF Held
<1>18. x \in Runs => RunAgrees(x)'
  <2>1. SUFFICES ASSUME x \in Runs PROVE RunAgrees(x)'
    OBVIOUS
  <2>2. RunAgrees(x) /\ doc[x] \in {"in_progress", "completed"}
    <3>1. r.op \in {"execute", "reverse"}
      BY <2>1, <1>2 DEF EntityConstants
    <3> QED BY <2>1, <3>1, <1>2, <1>9 DEF EntityAgree, StatusHeld
  <2>3. ~Unheld(x)'
    <3>1. ic_req'[w].d = x
      BY <1>7, <1>8 DEF Becomes, EntityTypeInv, Entities!TypeOK
    <3> QED BY <3>1 DEF Unheld, Entities!Touches
  <2> QED BY <2>1, <2>2, <2>3, <1>6, <1>14, <1>16 DEF RunAgrees
<1>19. ASSUME NEW m \in Entities!Entries, entry[m].of \in Rows(x) \cup {"none"}
       PROVE  EntryAgrees(m)'
  <2>1. CASE m # n
    BY <2>1, <1>5, <1>6 DEF EntityAgree, EntryAgrees
  <2>2. CASE m = n
    <3>1. r.op = "reverse" => x \in Runs /\ doc[x] = "completed" /\ e.undo \in elim[x]
      BY <1>2, <1>9, <1>11 DEF StatusHeld
    <3> QED BY <2>2, <3>1, <1>4, <1>5, <1>6 DEF EntryAgrees
  <2> QED BY <2>1, <2>2
<1>20. ic_aborts' \in Nat
  BY <1>6 DEF EntityTypeInv, Entities!TypeOK
<1> QED BY <1>2, <1>7, <1>8, <1>13, <1>17, <1>18, <1>19, <1>20, GoesOn

LEMMA LinesApart ==
    ASSUME EntityConstants, EntityTypeInv, EntityApart, EntityAgree,
           NEW w \in Workers, Entities!InsertLines(w)
    PROVE  EntityApart' /\ EntityAgree'
<1>1. ic_req[w].pc = "lines"
  BY DEF Entities!InsertLines, Entities!At
<1>2. PICK x \in Entities!Docs, n \in Entities!Entries, r \in Entities!Request :
         /\ r = ic_req[w] /\ r.d = x /\ r.n = n /\ Serves(w, x)
         /\ r.op \in {"post", "adjust", "execute", "reverse"}
         /\ EntityPlaced(r) /\ Held(r)
         /\ r.op = "post" => x \in Transactions
         /\ r.op = "adjust" => x \in Gaap
         /\ r.op \in {"execute", "reverse"} => x \in Runs
         /\ r.op # "reverse" => r.new.undo = 0
  BY <1>1, EntityPosting
<1>3. PICK back : back = r.back \ {r.new.undo}
  OBVIOUS
<1>4. PICK left : left = IF r.op \in {"post", "adjust"} THEN r.left - 1 ELSE r.left
  OBVIOUS
<1>5. PICK label \in {"track", "number", "save"} :
         label = CASE r.op = "execute" -> "track"
                   [] r.op = "reverse" /\ back # {} -> "number"
                   [] r.op = "post" /\ r.left = 2 -> "number"
                   [] OTHER -> "save"
  BY <1>2
<1> DEFINE q == [r EXCEPT !.back = back, !.left = left, !.pc = label]
<1>6. Becomes(w, q)
  <2>1. ic_req \in [Workers -> Entities!Request]
    BY DEF EntityTypeInv, Entities!TypeOK
  <2>2. ic_req' = [ic_req EXCEPT ![w] = [ic_req[w] EXCEPT !.back = back, !.left = left, !.pc = label]]
    BY <1>2, <1>3, <1>4, <1>5, <2>1, Zenon DEF Entities!InsertLines
  <2> QED BY <2>2, <1>2 DEF Becomes
<1>7. /\ q.op = r.op /\ q.pc = label /\ q.d = x /\ q.n = n /\ q.new = r.new
      /\ q.left = left /\ q.back = back /\ q.sum = r.sum
  BY <1>2 DEF Entities!Request
<1> HIDE DEF q
<1>8. /\ r.pc = "lines" /\ StatusHeld(r) /\ EntryHeld(r) /\ BalanceHeld(r) /\ OwnHeld(r)
      /\ ExecuteHeld(r) /\ ReverseHeld(r)
  BY <1>1, <1>2 DEF Held
<1>9. /\ entry[n] \in Entities!Entry /\ entry[n].of = x /\ entry[n].amt = r.new.amt
      /\ entry[n].undo = r.new.undo /\ entry[n].lines = FALSE
  BY <1>2, <1>8 DEF EntryHeld, EntityTypeInv, Entities!TypeOK
<1>10. /\ entry'[n].of = x /\ entry'[n].amt = r.new.amt
       /\ entry'[n].undo = r.new.undo /\ entry'[n].lines = TRUE
       /\ \A m \in Entities!Entries \ {n} : entry'[m] = entry[m]
  <2>1. entry' = [entry EXCEPT ![n] = [entry[n] EXCEPT !.lines = TRUE]]
    BY <1>2 DEF Entities!InsertLines, EntityTypeInv, Entities!TypeOK
  <2>2. entry'[n] = [entry[n] EXCEPT !.lines = TRUE]
    BY <2>1 DEF EntityTypeInv, Entities!TypeOK
  <2>3. \A m \in Entities!Entries \ {n} : entry'[m] = entry[m]
    BY <2>1 DEF EntityTypeInv, Entities!TypeOK
  <2> QED BY <2>2, <2>3, <1>9 DEF Entities!Entry
<1>11. UNCHANGED <<doc, balance, elim, total, ic_aborts>>
  BY DEF Entities!InsertLines
<1>12. x \in Rows(x) /\ x # "none"
  BY DEF Rows, EntityConstants
<1>13. Entities!Entries' = Entities!Entries /\ 0 \notin Entities!Entries
  BY DEF Entities!Entries, EntityConstants
<1>14. r.op = "reverse" => /\ r.new.undo \in r.back /\ r.back \subseteq elim[x]
                           /\ r.new.amt = entry[r.new.undo].amt
  BY <1>2, <1>8 DEF ReverseHeld
<1>15. TablesWithin(Rows(x))
  <2>1. \A p : PostedOf(p)' = PostedOf(p)
    BY <1>11 DEF PostedOf
  <2>2. r.new.undo = 0 \/ \E y \in Runs \cap Rows(x) : r.new.undo \in elim[y]
    BY <1>2, <1>12, <1>14
  <2>3. ic_aborts' >= ic_aborts
    BY <1>11 DEF EntityTypeInv, Entities!TypeOK
  <2> QED BY <2>1, <2>2, <2>3, <1>9, <1>10, <1>11, <1>12 DEF TablesWithin
<1>16. /\ OwnLines(x)' = OwnLines(x) \cup {n} /\ n \notin OwnLines(x)
       /\ EntriesOf(x)' = EntriesOf(x)
  BY <1>9, <1>10, <1>13 DEF OwnLines, EntriesOf
<1>17. \A k : Contras(k)' = Contras(k)
  BY <1>9, <1>10, <1>13 DEF Contras
<1>18. \A k \in Entities!Entries : entry'[k].amt = entry[k].amt
  BY <1>9, <1>10
<1>19. ASSUME x \in Runs
       PROVE  /\ elim[x] \subseteq Entities!Entries
              /\ Entities!Amount(elim[x])' = Entities!Amount(elim[x])
              /\ \A k \in elim[x] : Undone(k) => Undone(k)'
  <2>1. elim[x] \subseteq Entities!Entries
    BY <1>19 DEF EntityTypeInv, Entities!TypeOK
  <2>2. [k \in elim'[x] |-> entry'[k].amt] = [k \in elim[x] |-> entry[k].amt]
    BY <2>1, <1>11, <1>18
  <2>3. Entities!Amount(elim[x])' = Entities!Amount(elim[x])
    BY <2>2, Zenon DEF Entities!Amount
  <2>4. ASSUME NEW k \in elim[x], Undone(k) PROVE Undone(k)'
    <3>1. \A m \in Contras(k) : entry[m].lines => entry'[m].lines
      BY <1>10 DEF Contras
    <3>2. \A m \in Contras(k) : m \in Entities!Entries
      BY DEF Contras
    <3> QED BY <2>1, <2>4, <3>1, <3>2, <1>11, <1>17, <1>18 DEF Undone
  <2> QED BY <2>1, <2>3, <2>4
<1>20. Held(q)'
  <2>1. label = "save" \/ label = "number" \/ (label = "track" /\ r.op = "execute")
    BY <1>2, <1>5
  <2>2. StatusHeld(q)' /\ EntryHeld(q)'
    BY <2>1, <1>2, <1>7, <1>8, <1>10, <1>11 DEF StatusHeld, EntryHeld
  <2>3. BalanceHeld(q)'
    <3>1. \A p : PostedOf(p)' = PostedOf(p)
      BY <1>11 DEF PostedOf
    <3>2. PairWorked(q)' = PairWorked(r)
      BY <1>2, <1>7 DEF PairWorked
    <3> QED BY <2>1, <3>1, <3>2, <1>2, <1>7, <1>8, <1>11 DEF BalanceHeld
  <2>4. OwnHeld(q)'
    <3>1. SUFFICES ASSUME r.op \in {"post", "adjust"} PROVE OwnHeld(q)'
      BY <1>7 DEF OwnHeld
    <3>2. Wanted(x)' = Wanted(x) /\ Wanted(x) \in {1, 2}
      BY DEF Wanted
    <3>3. /\ Cardinality(OwnLines(x)) \in Nat
          /\ Cardinality(OwnLines(x)') = Cardinality(OwnLines(x)) + 1
      BY <1>16, EntityCounts, FS_AddElement
    <3>4. ic_aborts \in Nat /\ r.left \in Nat /\ left = r.left - 1
      BY <3>1, <1>2, <1>4 DEF EntityTypeInv, Entities!TypeOK, Entities!Request
    <3>5. /\ Wanted(x) - r.left <= Cardinality(OwnLines(x))
          /\ Cardinality(OwnLines(x)) <= Wanted(x) * ic_aborts + (Wanted(x) - r.left)
      BY <3>1, <1>2, <1>8 DEF OwnHeld
    <3>6. Wanted(x) * ic_aborts \in Nat
      BY <3>2, <3>4
    <3>7. /\ Wanted(x) - left <= Cardinality(OwnLines(x)')
          /\ Cardinality(OwnLines(x)') <= Wanted(x) * ic_aborts + (Wanted(x) - left)
      BY <3>2, <3>3, <3>4, <3>5, <3>6
    <3> QED BY <3>2, <3>7, <1>7, <1>11 DEF OwnHeld
  <2>5. ExecuteHeld(q)'
    <3>1. SUFFICES ASSUME r.op = "execute" PROVE ExecuteHeld(q)'
      BY <1>7 DEF ExecuteHeld
    <3>2. label = "track" /\ x \in Runs
      BY <3>1, <1>2, <1>5
    <3> QED BY <3>1, <3>2, <1>2, <1>7, <1>8, <1>11, <1>16, <1>19 DEF ExecuteHeld
  <2>6. ReverseHeld(q)'
    <3>1. SUFFICES ASSUME r.op = "reverse" PROVE ReverseHeld(q)'
      BY <1>7 DEF ReverseHeld
    <3>2. /\ x \in Runs /\ r.back \subseteq elim[x] /\ r.new.undo \in r.back
          /\ r.new.amt = entry[r.new.undo].amt
          /\ \A k \in elim[x] \ r.back : Undone(k)
          /\ \A k \in r.back :
                Cardinality(Contras(k)) <= ic_aborts + (IF k = r.new.undo THEN 1 ELSE 0)
      BY <3>1, <1>2, <1>8 DEF ReverseHeld
    <3>3. label = IF back = {} THEN "save" ELSE "number"
      BY <3>1, <1>5
    <3>4. ic_aborts \in Nat /\ \A k : Cardinality(Contras(k)) \in Nat
      BY EntityCounts DEF EntityTypeInv, Entities!TypeOK
    <3>5. Undone(r.new.undo)'
      <4>1. r.new.undo \in Entities!Entries
        BY <3>2, <1>19
      <4>2. n \in Contras(r.new.undo)'
        BY <1>10, <1>13 DEF Contras
      <4>3. entry'[n].lines /\ entry'[n].amt = entry'[r.new.undo].amt
        BY <4>1, <3>2, <1>10, <1>18
      <4>4. Cardinality(Contras(r.new.undo)') <= 1 + ic_aborts'
        <5>1. Cardinality(Contras(r.new.undo)) <= ic_aborts + 1
          BY <3>2
        <5> QED BY <5>1, <3>4, <1>11, <1>17
      <4> QED BY <4>2, <4>3, <4>4 DEF Undone
    <3>6. \A k \in elim'[x] \ back : Undone(k)'
      BY <3>2, <3>5, <1>3, <1>11, <1>19
    <3>7. \A k \in back : Cardinality(Contras(k)') <= ic_aborts' + 0
      BY <3>2, <1>3, <1>11, <1>17
    <3>8. back \subseteq elim'[x]
      BY <3>2, <1>3, <1>11
    <3> HIDE DEF Undone, Contras
    <3> QED BY <3>3, <3>6, <3>7, <3>8, <1>7 DEF ReverseHeld
  <2> QED BY <2>2, <2>3, <2>4, <2>5, <2>6 DEF Held
<1>21. x \in Runs => RunAgrees(x)'
  <2>1. SUFFICES ASSUME x \in Runs PROVE RunAgrees(x)'
    OBVIOUS
  <2>2. RunAgrees(x) /\ doc[x] \in {"in_progress", "completed"}
    <3>1. r.op \in {"execute", "reverse"}
      BY <2>1, <1>2 DEF EntityConstants
    <3> QED BY <2>1, <3>1, <1>2, <1>8 DEF EntityAgree, StatusHeld
  <2>3. ~Unheld(x)'
    <3>1. ic_req'[w].d = x
      BY <1>6, <1>7 DEF Becomes, EntityTypeInv, Entities!TypeOK
    <3> QED BY <3>1 DEF Unheld, Entities!Touches
  <2> QED BY <2>1, <2>2, <2>3, <1>11, <1>16, <1>19 DEF RunAgrees
<1>22. ASSUME NEW m \in Entities!Entries, entry[m].of \in Rows(x) \cup {"none"}
       PROVE  EntryAgrees(m)'
  <2>1. EntryAgrees(m)
    BY DEF EntityAgree
  <2>2. entry'[m].of = entry[m].of /\ entry'[m].undo = entry[m].undo
    BY <1>9, <1>10
  <2> QED BY <2>1, <2>2, <1>11 DEF EntryAgrees
<1>23. ic_aborts' \in Nat
  BY <1>11 DEF EntityTypeInv, Entities!TypeOK
<1> QED BY <1>2, <1>6, <1>7, <1>15, <1>20, <1>21, <1>22, <1>23, GoesOn

LEMMA TrackApart ==
    ASSUME EntityConstants, EntityTypeInv, EntityApart, EntityAgree,
           NEW w \in Workers, Entities!Track(w)
    PROVE  EntityApart' /\ EntityAgree'
<1>1. ic_req[w].pc = "track"
  BY DEF Entities!Track, Entities!At
<1>2. PICK x \in Entities!Docs, n \in Entities!Entries, r \in Entities!Request :
         /\ r = ic_req[w] /\ r.d = x /\ r.n = n /\ Serves(w, x)
         /\ r.op \in {"post", "adjust", "execute", "reverse"}
         /\ EntityPlaced(r) /\ Held(r)
         /\ r.op = "post" => x \in Transactions
         /\ r.op = "adjust" => x \in Gaap
         /\ r.op \in {"execute", "reverse"} => x \in Runs
         /\ r.op # "reverse" => r.new.undo = 0
  BY <1>1, EntityPosting
<1>3. r.op = "execute" /\ r.pc = "track" /\ x \in Runs
  BY <1>1, <1>2 DEF EntityPlaced, PostPlaced, AdjustPlaced, ReversePlaced, PostLabels
<1>4. r.sum \in Nat /\ r.new.amt \in Nat /\ r.new \in Entities!Entry
  BY <1>2 DEF Entities!Request, Entities!Entry
<1>5. PICK p \in Pairs :
         /\ ic_req[w].due[p] = ic_req[w].new.amt
         /\ LET due == [ic_req[w].due EXCEPT ![p] = 0] IN
               ic_req' = [ic_req EXCEPT ![w].sum = @ + ic_req[w].new.amt, ![w].due = due,
                            ![w].pc = IF due = Entities!NoBalances THEN "rule" ELSE "number"]
  BY Zenon DEF Entities!Track
<1>6. PICK due : due = [r.due EXCEPT ![p] = 0]
  OBVIOUS
<1>7. PICK sum \in Nat : sum = r.sum + r.new.amt
  BY <1>4
<1>8. PICK label \in {"rule", "number"} :
         label = IF due = Entities!NoBalances THEN "rule" ELSE "number"
  OBVIOUS
<1> DEFINE q == [r EXCEPT !.sum = sum, !.due = due, !.pc = label]
<1>9. Becomes(w, q)
  <2>1. ic_req \in [Workers -> Entities!Request]
    BY DEF EntityTypeInv, Entities!TypeOK
  <2>2. ic_req' = [ic_req EXCEPT ![w] = [ic_req[w] EXCEPT !.sum = sum, !.due = due, !.pc = label]]
    BY <1>2, <1>5, <1>6, <1>7, <1>8, <2>1, Zenon
  <2> QED BY <2>2, <1>2 DEF Becomes
<1>10. q.op = "execute" /\ q.pc = label /\ q.d = x /\ q.sum = sum
  BY <1>2, <1>3 DEF Entities!Request
<1> HIDE DEF q
<1>11. /\ elim[x] \subseteq Entities!Entries /\ elim'[x] = elim[x] \cup {n}
      /\ \A y \in Runs \ {x} : elim'[y] = elim[y]
  BY <1>2, <1>3 DEF Entities!Track, EntityTypeInv, Entities!TypeOK
<1>12. UNCHANGED <<doc, balance, entry, total, ic_aborts>>
  BY DEF Entities!Track
<1>13. /\ doc[x] = "in_progress" /\ entry[n].amt = r.new.amt /\ n \notin elim[x]
       /\ r.sum = Entities!Amount(elim[x]) /\ EntriesOf(x) = elim[x] \cup {n}
  BY <1>2, <1>3 DEF Held, StatusHeld, EntryHeld, ExecuteHeld
<1>14. Entities!Amount(elim[x])' = sum
  <2> DEFINE S == elim[x] \cup {n}
             g == [k \in S |-> entry[k].amt]
  <2>1. IsFiniteSet(S) /\ n \in S /\ S \ {n} = elim[x] /\ S \subseteq Entities!Entries
    <3>1. IsFiniteSet(Entities!Entries)
      BY FS_Interval DEF Entities!Entries, EntityConstants
    <3> QED BY <3>1, <1>11, <1>13, FS_Subset
  <2>2. g \in [S -> Int] /\ g[n] = r.new.amt
    <3>1. \A k \in S : entry[k].amt \in Int
      BY <2>1 DEF EntityTypeInv, Entities!TypeOK, Entities!Entry
    <3> QED BY <3>1, <2>1, <1>13
  <2>3. SumOf(g) = SumOf([k \in S \ {n} |-> g[k]]) + g[n]
    <3> HIDE DEF g, S
    <3> QED BY <2>1, <2>2, SumOfRest
  <2>4. [k \in S \ {n} |-> g[k]] = [k \in elim[x] |-> entry[k].amt]
    BY <2>1
  <2>5. SumOf(g) = r.sum + r.new.amt
    <3>1. SumOf([k \in elim[x] |-> entry[k].amt]) = r.sum
      BY <1>13, SameEntitySum, Zenon DEF Entities!Amount
    <3> HIDE DEF g, S
    <3> QED BY <3>1, <2>2, <2>3, <2>4
  <2>6. [k \in elim'[x] |-> entry'[k].amt] = g
    BY <1>11, <1>12
  <2>7. Entities!Amount(elim[x])' = SumOf(g)
    <3> HIDE DEF g
    <3> QED BY <2>6, SameEntitySum, Zenon DEF Entities!Amount
  <2> QED BY <2>5, <2>7, <1>7
<1>15. TablesWithin(Rows(x))
  <2>1. \A y : PostedOf(y)' = PostedOf(y)
    BY <1>12 DEF PostedOf
  <2>2. ic_aborts' >= ic_aborts /\ x \in Rows(x)
    BY <1>12 DEF EntityTypeInv, Entities!TypeOK, Rows
  <2> QED BY <2>1, <2>2, <1>11, <1>12 DEF TablesWithin
<1>16. EntriesOf(x)' = elim'[x] /\ \A y : EntriesOf(y)' = EntriesOf(y)
  <2>1. \A y : EntriesOf(y)' = EntriesOf(y)
    BY <1>12 DEF EntriesOf, Entities!Entries
  <2> QED BY <2>1, <1>11, <1>13
<1>17. Held(q)'
  <2>1. StatusHeld(q)' /\ EntryHeld(q)' /\ BalanceHeld(q)' /\ OwnHeld(q)' /\ ReverseHeld(q)'
    BY <1>10, <1>12, <1>13 DEF StatusHeld, EntryHeld, BalanceHeld, OwnHeld, ReverseHeld
  <2>2. ExecuteHeld(q)'
    BY <1>10, <1>14, <1>16 DEF ExecuteHeld
  <2> QED BY <2>1, <2>2 DEF Held
<1>18. RunAgrees(x)'
  BY <1>12, <1>13, <1>16 DEF RunAgrees
<1>19. ASSUME NEW m \in Entities!Entries, entry[m].of \in Rows(x) \cup {"none"}
       PROVE  EntryAgrees(m)'
  <2>1. EntryAgrees(m)
    BY DEF EntityAgree
  <2>2. \A y \in Runs : elim[y] \subseteq elim'[y]
    BY <1>11
  <2> QED BY <2>1, <2>2, <1>12 DEF EntryAgrees
<1>20. ic_aborts' \in Nat
  BY <1>12 DEF EntityTypeInv, Entities!TypeOK
<1> QED BY <1>2, <1>9, <1>10, <1>15, <1>17, <1>18, <1>19, <1>20, GoesOn

LEMMA BeginApart ==
    ASSUME EntityConstants, EntityTypeInv, EntityApart, EntityAgree,
           NEW w \in Workers, Entities!BeginRun(w)
    PROVE  EntityApart' /\ EntityAgree'
<1>0. PICK r \in Entities!Request : r = ic_req[w]
  BY EntityLocal
<1>1. PICK x : r = ic_req[w] /\ x = r.d
  BY <1>0
<1>2. /\ r.pc = "begin" /\ r.op = "execute" /\ x \in Runs
      /\ Serves(w, x) /\ Held(r)
  BY <1>1, EntityLocal, EntityIdle DEF Entities!BeginRun, Entities!At, Entities!Request,
     EntityPlaced, PostPlaced, AdjustPlaced, ExecutePlaced, ReversePlaced, ReconcilePlaced,
     PostLabels, Serves, EntityAgree
<1> DEFINE q == [r EXCEPT !.pc = "rule"]
<1>3. Becomes(w, q)
  BY <1>1 DEF Entities!BeginRun, Becomes, EntityTypeInv, Entities!TypeOK
<1>4. q.op = "execute" /\ q.pc = "rule" /\ q.d = x /\ q.sum = r.sum
  BY <1>1, <1>2 DEF Entities!Request
<1> HIDE DEF q
<1>5. /\ doc'[x] = "in_progress" /\ \A d \in Entities!Docs \ {x} : doc'[d] = doc[d]
      /\ x \in Rows(x) /\ x \in Entities!Docs /\ x \notin Transactions
  BY <1>1, <1>2 DEF Entities!BeginRun, EntityTypeInv, Entities!TypeOK, Rows, Entities!Docs,
     EntityConstants
<1>6. UNCHANGED <<balance, entry, elim, total, ic_aborts>>
  BY DEF Entities!BeginRun
<1>7. /\ doc[x] = "draft" /\ r.sum = Entities!Amount(elim[x]) /\ EntriesOf(x) = elim[x]
  BY <1>1, <1>2 DEF Held, StatusHeld, ExecuteHeld
<1>8. /\ Entities!Amount(elim[x])' = Entities!Amount(elim[x]) /\ EntriesOf(x)' = EntriesOf(x)
  BY <1>6 DEF Entities!Amount, EntriesOf, Entities!Entries
<1>9. TablesWithin(Rows(x))
  <2>1. \A t \in Transactions : t \in Entities!Docs \ {x}
    BY <1>5 DEF Entities!Docs
  <2>2. \A y : PostedOf(y)' = PostedOf(y)
    BY <2>1, <1>5 DEF PostedOf
  <2>3. ic_aborts' >= ic_aborts
    BY <1>6 DEF EntityTypeInv, Entities!TypeOK
  <2> QED BY <2>2, <2>3, <1>5, <1>6 DEF TablesWithin
<1>10. Held(q)'
  BY <1>4, <1>5, <1>6, <1>7, <1>8
     DEF Held, StatusHeld, EntryHeld, BalanceHeld, OwnHeld, ExecuteHeld, ReverseHeld
<1>11. RunAgrees(x)'
  BY <1>5, <1>6, <1>7, <1>8 DEF RunAgrees
<1>12. ASSUME NEW m \in Entities!Entries PROVE EntryAgrees(m)'
  <2>1. EntryAgrees(m)
    BY DEF EntityAgree
  <2>2. \A y \in Runs : doc[y] \in {"completed", "reversed"} => doc'[y] = doc[y]
    BY <1>5, <1>7 DEF Entities!Docs
  <2> QED BY <2>1, <2>2, <1>6 DEF EntryAgrees
<1>13. ic_aborts' \in Nat
  BY <1>6 DEF EntityTypeInv, Entities!TypeOK
<1> QED BY <1>2, <1>3, <1>4, <1>9, <1>10, <1>11, <1>12, <1>13, GoesOn

\* A run whose entry finds its number taken.
LEMMA RunFailsApart ==
    ASSUME EntityConstants, EntityTypeInv, EntityApart, EntityAgree,
           NEW w \in Workers, Entities!InsertFails(w), ic_req[w].op = "execute"
    PROVE  EntityApart' /\ EntityAgree'
<1>0. PICK r \in Entities!Request : r = ic_req[w]
  BY EntityLocal
<1>1. PICK x : r = ic_req[w] /\ x = r.d
  BY <1>0
<1>2. /\ r.pc = "insert" /\ r.op = "execute" /\ x \in Runs
      /\ Serves(w, x) /\ Held(r)
  BY <1>1, EntityLocal DEF Entities!InsertFails, Entities!At, EntityPlaced, ExecutePlaced,
     Serves, EntityAgree
<1> DEFINE q == [r EXCEPT !.pc = "fail"]
<1>3. Becomes(w, q)
  BY <1>1 DEF Entities!InsertFails, Becomes, EntityTypeInv, Entities!TypeOK
<1>4. q.op = "execute" /\ q.pc = "fail" /\ q.d = x /\ q.sum = r.sum
  BY <1>1, <1>2 DEF Entities!Request
<1> HIDE DEF q
<1>5. /\ UNCHANGED <<doc, balance, entry, elim, total>>
      /\ ic_aborts \in Nat /\ ic_aborts' = ic_aborts + 1
  BY DEF Entities!InsertFails, EntityTypeInv, Entities!TypeOK
<1>6. doc[x] = "in_progress" /\ r.sum = Entities!Amount(elim[x]) /\ EntriesOf(x) = elim[x]
  BY <1>1, <1>2 DEF Held, StatusHeld, ExecuteHeld
<1>7. /\ Entities!Amount(elim[x])' = Entities!Amount(elim[x]) /\ EntriesOf(x)' = EntriesOf(x)
  BY <1>5 DEF Entities!Amount, EntriesOf, Entities!Entries
<1>8. TablesWithin(Rows(x))
  <2>1. \A y : PostedOf(y)' = PostedOf(y)
    BY <1>5 DEF PostedOf
  <2> QED BY <2>1, <1>5 DEF TablesWithin
<1>9. Held(q)'
  BY <1>4, <1>5, <1>6, <1>7
     DEF Held, StatusHeld, EntryHeld, BalanceHeld, OwnHeld, ExecuteHeld, ReverseHeld
<1>10. RunAgrees(x)'
  BY <1>5, <1>6, <1>7 DEF RunAgrees
<1>11. ASSUME NEW m \in Entities!Entries PROVE EntryAgrees(m)'
  BY <1>5 DEF EntityAgree, EntryAgrees
<1>12. ic_aborts' \in Nat
  BY <1>5
<1> QED BY <1>2, <1>3, <1>4, <1>8, <1>9, <1>10, <1>11, <1>12, GoesOn

\* A request that ends, with its work done or not: its rows have to agree on their own.
LEMMA Ends ==
    ASSUME EntityConstants, EntityTypeInv, EntityApart, EntityAgree, NEW w \in Workers,
           NEW x, Serves(w, x), Becomes(w, Entities!Idle), TablesWithin(Rows(x)),
           ic_aborts' \in Nat, \A p \in Pairs \cap Rows(x) : PairAgrees(p)',
           x \in Transactions \cup Gaap => DocAgrees(x)', x \in Runs => RunAgrees(x)',
           \A m \in Entities!Entries : entry[m].of \in Rows(x) \cup {"none"} => EntryAgrees(m)'
    PROVE  EntityApart' /\ EntityAgree'
<1>1. PICK q : q = Entities!Idle
  OBVIOUS
<1>2. q.op = "none" /\ q.pc = "idle" /\ q.d = "none"
  BY <1>1, EntityIdle
<1>3. /\ EntityApart' /\ Within(Rows(x), {w}) /\ ic_req'[w] = q
  <2>1. q.d \in {x, "none"} /\ Becomes(w, q)
    BY <1>1, <1>2
  <2> QED BY <2>1, BusyStep
<1>4. \A d \in Entities!Docs \cap Rows(x) : d = x
  BY EntityBusy DEF Serves, Rows, EntityConstants, Entities!Docs
<1>5. Held(q)'
  BY <1>2 DEF Held, StatusHeld, EntryHeld, BalanceHeld, OwnHeld, ExecuteHeld, ReverseHeld
<1>6. Held(ic_req[w])'
  BY <1>3, <1>5
<1>7. /\ \A d \in (Transactions \cup Gaap) \cap Rows(x) : DocAgrees(d)'
      /\ \A r \in Runs \cap Rows(x) : RunAgrees(r)'
  <2>1. Transactions \cup Gaap \subseteq Entities!Docs /\ Runs \subseteq Entities!Docs
    BY DEF Entities!Docs
  <2> QED BY <2>1, <1>4
<1>8. Inside(Rows(x), {w})
  BY <1>6, <1>7 DEF Inside
<1> QED BY <1>3, <1>8, InsideOutside

\* What a worker that is not idle holds.
LEMMA EntityServing ==
    ASSUME EntityConstants, EntityTypeInv, EntityAgree, NEW w \in Workers,
           ic_req[w].pc # "idle"
    PROVE  \E r \in Entities!Request :
              /\ r = ic_req[w] /\ Serves(w, r.d) /\ EntityPlaced(r) /\ Held(r)
              /\ r.op \in {"post", "adjust", "execute", "reverse", "reconcile"}
              /\ r.op = "post" => r.d \in Transactions
              /\ r.op = "adjust" => r.d \in Gaap
              /\ r.op \in {"execute", "reverse"} => r.d \in Runs
              /\ r.op = "reconcile" => r.d \in Pairs
<1> DEFINE r == ic_req[w]
<1>1. r \in Entities!Request /\ EntityPlaced(r)
  BY EntityLocal
<1>2. r.op \in {"post", "adjust", "execute", "reverse", "reconcile"}
  BY <1>1, EntityIdle DEF EntityPlaced, Entities!Request
<1>3. /\ r.op = "post" => r.d \in Transactions
      /\ r.op = "adjust" => r.d \in Gaap
      /\ r.op \in {"execute", "reverse"} => r.d \in Runs
      /\ r.op = "reconcile" => r.d \in Pairs
  BY <1>1 DEF EntityPlaced, PostPlaced, AdjustPlaced, ExecutePlaced, ReversePlaced,
     ReconcilePlaced
<1>4. Serves(w, r.d) /\ Held(r)
  BY DEF Serves, EntityAgree
<1> QED BY <1>1, <1>2, <1>3, <1>4

\* The rows of a document, of a run and of a pair.
LEMMA RowsOf ==
    ASSUME EntityConstants
    PROVE  /\ \A t \in Transactions : /\ PairOf[t] \in Pairs /\ Rows(t) = {t, PairOf[t]}
                                      /\ t \in Entities!Docs /\ t \notin Gaap \cup Runs \cup Pairs
           /\ \A a \in Gaap : /\ Rows(a) = {a} /\ a \in Entities!Docs
                              /\ a \notin Transactions \cup Runs \cup Pairs
           /\ \A r \in Runs : /\ Rows(r) = {r} /\ r \in Entities!Docs
                              /\ r \notin Transactions \cup Gaap \cup Pairs
           /\ \A p \in Pairs : Rows(p) = {p} /\ p \notin Entities!Docs
  BY DEF EntityConstants, Rows, Entities!Docs

\* A step that leaves the entries alone.
LEMMA SameEntries ==
    ASSUME UNCHANGED <<entry, elim>>
    PROVE  /\ \A d : OwnLines(d)' = OwnLines(d) /\ EntriesOf(d)' = EntriesOf(d)
           /\ \A n : Contras(n)' = Contras(n)
           /\ \A r : Entities!Amount(elim[r])' = Entities!Amount(elim[r])
  BY DEF OwnLines, EntriesOf, Contras, Entities!Amount, Entities!Entries

LEMMA FailedApart ==
    ASSUME EntityConstants, EntityTypeInv, EntityApart, EntityAgree,
           NEW w \in Workers, Entities!MarkFailed(w)
    PROVE  EntityApart' /\ EntityAgree'
<1>1. ic_req[w].pc = "fail" /\ Becomes(w, Entities!Idle)
  BY DEF Entities!MarkFailed, Entities!At, Entities!Finish, Becomes
<1>2. PICK r \in Entities!Request :
         /\ r = ic_req[w] /\ Serves(w, r.d) /\ EntityPlaced(r) /\ Held(r)
         /\ r.op \in {"post", "adjust", "execute", "reverse", "reconcile"}
         /\ r.op = "post" => r.d \in Transactions
         /\ r.op = "adjust" => r.d \in Gaap
         /\ r.op \in {"execute", "reverse"} => r.d \in Runs
         /\ r.op = "reconcile" => r.d \in Pairs
  BY <1>1, EntityServing
<1>3. PICK x : x = r.d
  OBVIOUS
<1>4. r.op = "execute" /\ r.pc = "fail"
  BY <1>1, <1>2 DEF EntityPlaced, PostPlaced, AdjustPlaced, ReversePlaced, ReconcilePlaced,
     PostLabels
<1>5. Serves(w, x) /\ x \in Runs
  BY <1>2, <1>3, <1>4
<1>6. Rows(x) = {x} /\ x \in Entities!Docs /\ x \notin Transactions \cup Gaap \cup Pairs
  BY <1>5, RowsOf
<1>7. doc'[x] = "failed" /\ \A d \in Entities!Docs \ {x} : doc'[d] = doc[d]
  BY <1>2, <1>3, <1>6 DEF Entities!MarkFailed, EntityTypeInv, Entities!TypeOK
<1>8. UNCHANGED <<balance, entry, elim, total, ic_aborts>>
  BY DEF Entities!MarkFailed
<1>9. doc[x] = "in_progress"
  BY <1>2, <1>3, <1>4 DEF Held, StatusHeld
<1>10. ic_aborts \in Nat
  BY DEF EntityTypeInv, Entities!TypeOK
<1>11. TablesWithin(Rows(x))
  <2>1. \A t \in Transactions : t \in Entities!Docs \ {x}
    BY <1>6 DEF Entities!Docs
  <2>2. \A y : PostedOf(y)' = PostedOf(y)
    BY <2>1, <1>7 DEF PostedOf
  <2> QED BY <2>2, <1>6, <1>7, <1>8, <1>10 DEF TablesWithin
<1>12. RunAgrees(x)'
  <2>1. RunAgrees(x)
    BY <1>5 DEF EntityAgree
  <2>2. EntriesOf(x)' = EntriesOf(x)
    BY <1>8, SameEntries
  <2> QED BY <2>1, <2>2, <1>7, <1>8 DEF RunAgrees
<1>13. ASSUME NEW m \in Entities!Entries PROVE EntryAgrees(m)'
  <2>1. EntryAgrees(m)
    BY DEF EntityAgree
  <2>2. \A y \in Runs : doc[y] \in {"completed", "reversed"} => doc'[y] = doc[y]
    BY <1>7, <1>9 DEF Entities!Docs
  <2> QED BY <2>1, <2>2, <1>8 DEF EntryAgrees
<1>14. /\ Pairs \cap Rows(x) = {} /\ ic_aborts' \in Nat /\ x \notin Transactions \cup Gaap
  BY <1>6, <1>8, <1>10
<1> QED BY <1>1, <1>5, <1>11, <1>12, <1>13, <1>14, Ends

\* A request that dies, or whose entry finds its number taken.
LEMMA DiesApart ==
    ASSUME EntityConstants, EntityTypeInv, EntityApart, EntityAgree,
           NEW w \in Workers, ic_req[w].pc # "idle", Becomes(w, Entities!Idle),
           UNCHANGED <<doc, balance, entry, elim, total>>, ic_aborts' = ic_aborts + 1
    PROVE  EntityApart' /\ EntityAgree'
<1>1. PICK r \in Entities!Request :
         /\ r = ic_req[w] /\ Serves(w, r.d) /\ EntityPlaced(r) /\ Held(r)
         /\ r.op \in {"post", "adjust", "execute", "reverse", "reconcile"}
         /\ r.op = "post" => r.d \in Transactions
         /\ r.op = "adjust" => r.d \in Gaap
         /\ r.op \in {"execute", "reverse"} => r.d \in Runs
         /\ r.op = "reconcile" => r.d \in Pairs
  BY EntityServing
<1>2. PICK x : x = r.d
  OBVIOUS
<1>3. ic_aborts \in Nat /\ ic_aborts' \in Nat /\ ic_aborts' >= ic_aborts /\ ic_aborts' # 0
  BY DEF EntityTypeInv, Entities!TypeOK
<1>4. TablesWithin(Rows(x))
  <2>1. \A y : PostedOf(y)' = PostedOf(y)
    BY DEF PostedOf
  <2> QED BY <2>1, <1>3 DEF TablesWithin
<1>5. \A p \in Pairs \cap Rows(x) : PairAgrees(p)'
  BY <1>3 DEF PairAgrees
<1>6. ASSUME x \in Transactions \cup Gaap PROVE DocAgrees(x)'
  <2>1. r.op \in {"post", "adjust"} /\ OwnHeld(r) /\ StatusHeld(r)
    BY <1>1, <1>2, <1>6, RowsOf DEF Held
  <2>2. doc[x] = "posted" => r.left = 0
    <3>1. doc[x] = "posted" => r.op = "post" /\ r.pc \in {"balance", "save_balance"}
      BY <2>1, <1>2 DEF StatusHeld
    <3> QED BY <3>1, <1>1 DEF EntityPlaced, PostPlaced, PostLabels
  <2>3. /\ Wanted(x) - r.left <= Cardinality(OwnLines(x))
        /\ Cardinality(OwnLines(x)) <= Wanted(x) * ic_aborts + (Wanted(x) - r.left)
    BY <2>1, <1>2 DEF OwnHeld
  <2>4. Wanted(x) \in {1, 2} /\ Wanted(x)' = Wanted(x) /\ r.left \in Nat
    BY <1>1 DEF Wanted, Entities!Request
  <2>5. Cardinality(OwnLines(x)) \in Nat /\ OwnLines(x)' = OwnLines(x)
    BY EntityCounts, SameEntries
  <2>6. /\ Wanted(x) * (1 + ic_aborts) = Wanted(x) * ic_aborts + Wanted(x)
        /\ Wanted(x) * ic_aborts' = Wanted(x) * ic_aborts + Wanted(x)
        /\ Wanted(x) * (1 + ic_aborts') = Wanted(x) * ic_aborts + 2 * Wanted(x)
        /\ Wanted(x) * ic_aborts \in Nat
    BY <2>4, <1>3
  <2>7. CASE doc[x] = "posted"
    <3>1. Wanted(x) <= Cardinality(OwnLines(x))
      BY <2>2, <2>3, <2>4, <2>7
    <3>2. Cardinality(OwnLines(x)) <= Wanted(x) * (1 + ic_aborts')
      BY <2>3, <2>4, <2>5, <2>6
    <3> QED BY <3>1, <3>2, <2>4, <2>5, <2>7 DEF DocAgrees
  <2>8. CASE doc[x] # "posted"
    <3>1. Cardinality(OwnLines(x)) <= Wanted(x) * ic_aborts'
      BY <2>3, <2>4, <2>5, <2>6
    <3> QED BY <3>1, <2>4, <2>5, <2>8 DEF DocAgrees
  <2> QED BY <2>7, <2>8
<1>7. ASSUME x \in Runs PROVE RunAgrees(x)'
  <2>1. r.op \in {"execute", "reverse"} /\ StatusHeld(r) /\ ReverseHeld(r)
    BY <1>1, <1>2, <1>7, RowsOf DEF Held
  <2>2. RunAgrees(x) /\ doc[x] # "reversed"
    BY <2>1, <1>2, <1>7 DEF EntityAgree, StatusHeld
  <2>3. doc[x] = "completed" => \A n \in elim[x] : Cardinality(Contras(n)) <= ic_aborts'
    <3>1. SUFFICES ASSUME doc[x] = "completed", NEW n \in elim[x]
                   PROVE  Cardinality(Contras(n)) <= ic_aborts'
      OBVIOUS
    <3>2. r.op = "reverse"
      BY <3>1, <2>1, <1>2 DEF StatusHeld
    <3>3. Cardinality(Contras(n)) \in Nat
      BY EntityCounts
    <3>4. CASE n \in r.back
      BY <3>2, <3>3, <3>4, <2>1, <1>3 DEF ReverseHeld
    <3>5. CASE n \notin r.back
      <4>1. Undone(n)
        BY <3>2, <3>5, <2>1, <1>2 DEF ReverseHeld
      <4> QED BY <4>1, <3>3, <1>3 DEF Undone
    <3> QED BY <3>4, <3>5
  <2>4. /\ EntriesOf(x)' = EntriesOf(x) /\ \A n : Contras(n)' = Contras(n)
        /\ Entities!Amount(elim[x])' = Entities!Amount(elim[x])
    BY SameEntries
  <2> HIDE DEF EntriesOf, Contras
  <2> QED BY <2>2, <2>3, <2>4, <1>3 DEF RunAgrees
<1>8. \A m \in Entities!Entries : EntryAgrees(m)'
  BY DEF EntityAgree, EntryAgrees
<1>9. Serves(w, x)
  BY <1>1, <1>2
<1> QED BY <1>3, <1>4, <1>5, <1>6, <1>7, <1>8, <1>9, Ends

\* The contra entries of what a run has recorded are entries of that run.
LEMMA OwnContras ==
    ASSUME EntityConstants, EntityTypeInv, EntityAgree, NEW x \in Runs, NEW n \in elim[x],
           NEW m \in Contras(n)
    PROVE  doc[x] \in {"completed", "reversed"}
<1>1. n \in EntriesOf(x) /\ n \in Entities!Entries /\ entry[n].of = x
  BY DEF EntityAgree, RunAgrees, EntriesOf
<1>2. entry[m].undo = n /\ n # 0 /\ EntryAgrees(m)
  BY <1>1 DEF Contras, EntityAgree, Entities!Entries, EntityConstants
<1>3. /\ entry[m].of \in Runs /\ n \in elim[entry[m].of]
      /\ doc[entry[m].of] \in {"completed", "reversed"}
  BY <1>2 DEF EntryAgrees
<1>4. entry[m].of = x
  BY <1>1, <1>3 DEF EntityAgree, RunAgrees, EntriesOf
<1> QED BY <1>3, <1>4

LEMMA SaveApart ==
    ASSUME EntityConstants, EntityTypeInv, EntityApart, EntityAgree,
           NEW w \in Workers, Entities!Save(w)
    PROVE  EntityApart' /\ EntityAgree'
<1>1. ic_req[w].pc = "save"
  BY DEF Entities!Save, Entities!At
<1>2. PICK r \in Entities!Request :
         /\ r = ic_req[w] /\ Serves(w, r.d) /\ EntityPlaced(r) /\ Held(r)
         /\ r.op \in {"post", "adjust", "execute", "reverse", "reconcile"}
         /\ r.op = "post" => r.d \in Transactions
         /\ r.op = "adjust" => r.d \in Gaap
         /\ r.op \in {"execute", "reverse"} => r.d \in Runs
         /\ r.op = "reconcile" => r.d \in Pairs
  BY <1>1, EntityServing
<1>3. PICK x : x = r.d
  OBVIOUS
<1>4. r.op \in {"post", "adjust", "execute", "reverse"} /\ r.pc = "save" /\ Serves(w, x)
  BY <1>1, <1>2, <1>3 DEF EntityPlaced, ReconcilePlaced
<1>5. /\ StatusHeld(r) /\ BalanceHeld(r) /\ OwnHeld(r) /\ ExecuteHeld(r) /\ ReverseHeld(r)
  BY <1>2 DEF Held
<1>6. x \in Entities!Docs /\ x \in Rows(x)
  BY <1>2, <1>3, <1>4 DEF Entities!Docs, Rows
<1>7. doc'[x] = Entities!NewStatus(r.op) /\ \A d \in Entities!Docs \ {x} : doc'[d] = doc[d]
  BY <1>2, <1>3, <1>6 DEF Entities!Save, EntityTypeInv, Entities!TypeOK
<1>8. UNCHANGED <<balance, entry, elim, ic_aborts>> /\ ic_aborts \in Nat
  BY DEF Entities!Save, EntityTypeInv, Entities!TypeOK
<1>9. /\ \A d : OwnLines(d)' = OwnLines(d) /\ EntriesOf(d)' = EntriesOf(d)
      /\ \A n : Contras(n)' = Contras(n)
      /\ \A y : Entities!Amount(elim[y])' = Entities!Amount(elim[y])
  BY <1>8, SameEntries
<1>10. \A y \in Runs \ {x} : total'[y] = total[y]
  BY <1>2, <1>3 DEF Entities!Save, EntityTypeInv, Entities!TypeOK
<1>11. /\ \A t \in Transactions : t \in Entities!Docs
       /\ \A y \in Runs : y \in Entities!Docs
  BY DEF Entities!Docs
<1>12. TablesWithin(Rows(x))
  <2>1. ASSUME NEW p \in Pairs \ Rows(x) PROVE PostedOf(p)' = PostedOf(p)
    BY <1>7, <1>11 DEF PostedOf, Rows
  <2> QED BY <2>1, <1>6, <1>7, <1>8, <1>10 DEF TablesWithin
<1>13. ic_aborts' \in Nat
  BY <1>8
<1>14. CASE r.op = "post"
  <2> DEFINE q == [r EXCEPT !.pc = "balance"]
  <2>1. Becomes(w, q)
    BY <1>2, <1>14 DEF Entities!Save, Becomes, EntityTypeInv, Entities!TypeOK
  <2>2. q.op = "post" /\ q.pc = "balance" /\ q.d = x /\ q.left = r.left
    BY <1>2, <1>3, <1>14 DEF Entities!Request
  <2> HIDE DEF q
  <2>3. x \in Transactions /\ x \notin Gaap \cup Runs \cup Pairs /\ PairOf[x] \in Pairs
    BY <1>2, <1>3, <1>14, RowsOf
  <2>4. doc[x] = "confirmed" /\ doc'[x] = "posted"
    BY <1>3, <1>4, <1>5, <1>7, <1>14 DEF StatusHeld, Entities!NewStatus
  <2>5. BalanceHeld(q)'
    <3>1. PairWorked(q)' = PairOf[x] /\ PairWorked(r) = PairOf[x]
      BY <2>2, <1>3, <1>14 DEF PairWorked
    <3>2. PostedOf(PairOf[x])' = PostedOf(PairOf[x]) \cup {x} /\ x \notin PostedOf(PairOf[x])
      BY <2>3, <2>4, <1>7, <1>11 DEF PostedOf
    <3>3. /\ Cardinality(PostedOf(PairOf[x])) \in Nat
          /\ Cardinality(PostedOf(PairOf[x])') = Cardinality(PostedOf(PairOf[x])) + 1
      BY <3>2, EntityCounts, FS_AddElement
    <3>4. ic_aborts = 0 => balance[PairOf[x]] + 0 = Cardinality(PostedOf(PairOf[x]))
      BY <3>1, <1>4, <1>5, <1>14 DEF BalanceHeld
    <3>5. balance[PairOf[x]] \in Nat
      BY <2>3 DEF EntityTypeInv, Entities!TypeOK
    <3>6. ic_aborts' = 0 => balance'[PairOf[x]] + 1 = Cardinality(PostedOf(PairOf[x])')
      BY <3>3, <3>4, <3>5, <1>8
    <3> QED BY <3>1, <3>6, <2>2 DEF BalanceHeld
  <2>6. OwnHeld(q)'
    <3>1. Wanted(x)' = Wanted(x)
      BY DEF Wanted
    <3> QED BY <3>1, <2>2, <1>3, <1>5, <1>8, <1>9, <1>14 DEF OwnHeld
  <2>7. StatusHeld(q)' /\ EntryHeld(q)' /\ ExecuteHeld(q)' /\ ReverseHeld(q)'
    BY <2>2, <2>4 DEF StatusHeld, EntryHeld, ExecuteHeld, ReverseHeld
  <2>8. Held(q)'
    BY <2>5, <2>6, <2>7 DEF Held
  <2>9. ASSUME NEW m \in Entities!Entries PROVE EntryAgrees(m)'
    <3>1. EntryAgrees(m) /\ \A y \in Runs : doc'[y] = doc[y]
      BY <2>3, <1>7, <1>11 DEF EntityAgree
    <3> QED BY <3>1, <1>8 DEF EntryAgrees
  <2> QED BY <2>1, <2>2, <2>3, <2>8, <2>9, <1>4, <1>12, <1>13, GoesOn
<1>15. CASE r.op # "post"
  <2>1. Becomes(w, Entities!Idle)
    BY <1>2, <1>15 DEF Entities!Save, Entities!Finish, Becomes
  <2>2. CASE r.op = "adjust"
    <3>1. /\ x \in Gaap /\ x \notin Transactions \cup Runs \cup Pairs
          /\ Pairs \cap Rows(x) = {}
      BY <2>2, <1>2, <1>3, RowsOf
    <3>2. doc'[x] = "posted"
      BY <2>2, <1>7 DEF Entities!NewStatus
    <3>3. r.left = 0
      BY <2>2, <1>2, <1>4 DEF EntityPlaced, AdjustPlaced, PostLabels
    <3>4. DocAgrees(x)'
      <4>1. Wanted(x) = 1 /\ Wanted(x)' = 1
        BY <3>1 DEF Wanted
      <4>2. /\ 1 - 0 <= Cardinality(OwnLines(x))
            /\ Cardinality(OwnLines(x)) <= 1 * ic_aborts + (1 - 0)
        BY <2>2, <3>3, <4>1, <1>3, <1>5 DEF OwnHeld
      <4>3. Cardinality(OwnLines(x)) \in Nat
        BY EntityCounts
      <4>4. 1 <= Cardinality(OwnLines(x)) /\ Cardinality(OwnLines(x)) <= 1 * (1 + ic_aborts')
        BY <4>2, <4>3, <1>8
      <4> QED BY <3>2, <4>1, <4>4, <1>9 DEF DocAgrees
    <3>5. ASSUME NEW m \in Entities!Entries PROVE EntryAgrees(m)'
      <4>1. EntryAgrees(m) /\ \A y \in Runs : doc'[y] = doc[y]
        BY <3>1, <1>7, <1>11 DEF EntityAgree
      <4> QED BY <4>1, <1>8 DEF EntryAgrees
    <3> QED BY <2>1, <3>1, <3>4, <3>5, <1>4, <1>12, <1>13, Ends
  <2>3. CASE r.op = "execute"
    <3>1. x \in Runs /\ x \notin Transactions \cup Gaap \cup Pairs /\ Pairs \cap Rows(x) = {}
      BY <2>3, <1>2, <1>3, RowsOf
    <3>2. doc'[x] = "completed" /\ doc[x] = "in_progress"
      BY <2>3, <1>3, <1>4, <1>5, <1>7 DEF Entities!NewStatus, StatusHeld
    <3>3. total'[x] = r.sum
      BY <2>3, <3>1, <1>2, <1>3 DEF Entities!Save, EntityTypeInv, Entities!TypeOK
    <3>4. r.sum = Entities!Amount(elim[x]) /\ EntriesOf(x) = elim[x]
      BY <2>3, <1>3, <1>4, <1>5 DEF ExecuteHeld
    <3>5. ASSUME NEW n \in elim[x] PROVE Cardinality(Contras(n)) <= ic_aborts
      <4>1. Contras(n) = {}
        BY <3>1, <3>2, OwnContras
      <4> QED BY <4>1, <1>8, FS_EmptySet
    <3>6. RunAgrees(x)'
      BY <3>2, <3>3, <3>4, <3>5, <1>8, <1>9 DEF RunAgrees
    <3>7. ASSUME NEW m \in Entities!Entries PROVE EntryAgrees(m)'
      <4>1. EntryAgrees(m)
        BY DEF EntityAgree
      <4>2. \A y \in Runs : doc[y] \in {"completed", "reversed"} => doc'[y] = doc[y]
        BY <3>2, <1>7, <1>11
      <4> QED BY <4>1, <4>2, <1>8 DEF EntryAgrees
    <3> QED BY <2>1, <3>1, <3>6, <3>7, <1>4, <1>12, <1>13, Ends
  <2>4. CASE r.op = "reverse"
    <3>1. x \in Runs /\ x \notin Transactions \cup Gaap \cup Pairs /\ Pairs \cap Rows(x) = {}
      BY <2>4, <1>2, <1>3, RowsOf
    <3>2. doc'[x] = "reversed" /\ doc[x] = "completed"
      BY <2>4, <1>3, <1>4, <1>5, <1>7 DEF Entities!NewStatus, StatusHeld
    <3>3. \A n \in elim[x] : Undone(n)
      BY <2>4, <1>3, <1>4, <1>5 DEF ReverseHeld
    <3>4. \A n \in elim'[x] : Undone(n)'
      BY <3>3, <1>8, <1>9 DEF Undone
    <3>5. RunAgrees(x)'
      <4>1. RunAgrees(x)
        BY <3>1 DEF EntityAgree
      <4> QED BY <4>1, <3>2, <3>4, <1>8, <1>9 DEF RunAgrees
    <3>6. ASSUME NEW m \in Entities!Entries PROVE EntryAgrees(m)'
      <4>1. EntryAgrees(m)
        BY DEF EntityAgree
      <4>2. \A y \in Runs : y # x => doc'[y] = doc[y]
        BY <1>7, <1>11
      <4> QED BY <4>1, <4>2, <3>2, <1>8 DEF EntryAgrees
    <3> QED BY <2>1, <3>1, <3>5, <3>6, <1>4, <1>12, <1>13, Ends
  <2> QED BY <2>2, <2>3, <2>4, <1>4, <1>15
<1> QED BY <1>14, <1>15

LEMMA BalanceApart ==
    ASSUME EntityConstants, EntityTypeInv, EntityApart, EntityAgree,
           NEW w \in Workers, Entities!SaveBalance(w)
    PROVE  EntityApart' /\ EntityAgree'
<1>1. ic_req[w].pc = "save_balance" /\ Becomes(w, Entities!Idle)
  BY DEF Entities!SaveBalance, Entities!At, Entities!Finish, Becomes
<1>2. PICK r \in Entities!Request :
         /\ r = ic_req[w] /\ Serves(w, r.d) /\ EntityPlaced(r) /\ Held(r)
         /\ r.op \in {"post", "adjust", "execute", "reverse", "reconcile"}
         /\ r.op = "post" => r.d \in Transactions
         /\ r.op = "adjust" => r.d \in Gaap
         /\ r.op \in {"execute", "reverse"} => r.d \in Runs
         /\ r.op = "reconcile" => r.d \in Pairs
  BY <1>1, EntityServing
<1>3. PICK x : x = r.d
  OBVIOUS
<1>4. r.op \in {"post", "reconcile"} /\ r.pc = "save_balance" /\ Serves(w, x)
  BY <1>1, <1>2, <1>3 DEF EntityPlaced, AdjustPlaced, ExecutePlaced, ReversePlaced, PostLabels
<1>5. PICK p \in Pairs : p = IF r.op = "post" THEN PairOf[x] ELSE x
  BY <1>2, <1>3, <1>4 DEF EntityConstants
<1>6. balance'[p] = r.sum /\ \A y \in Pairs \ {p} : balance'[y] = balance[y]
  BY <1>2, <1>3, <1>5 DEF Entities!SaveBalance, EntityTypeInv, Entities!TypeOK
<1>7. UNCHANGED <<doc, entry, elim, total, ic_aborts>> /\ ic_aborts \in Nat
  BY DEF Entities!SaveBalance, EntityTypeInv, Entities!TypeOK
<1>8. Pairs \cap Rows(x) = {p}
  BY <1>2, <1>3, <1>4, <1>5, RowsOf
<1>9. \A y : PostedOf(y)' = PostedOf(y)
  BY <1>7 DEF PostedOf
<1>10. TablesWithin(Rows(x))
  BY <1>6, <1>7, <1>8, <1>9 DEF TablesWithin
<1>11. PairAgrees(p)'
  <2>1. PairWorked(r) = p
    BY <1>3, <1>5 DEF PairWorked
  <2>2. ic_aborts = 0 => r.sum = Cardinality(PostedOf(p))
    BY <2>1, <1>2, <1>4 DEF Held, BalanceHeld
  <2> QED BY <2>2, <1>6, <1>7, <1>9 DEF PairAgrees
<1>12. ASSUME x \in Transactions \cup Gaap PROVE DocAgrees(x)'
  <2>1. r.op = "post" /\ x \in Transactions
    BY <1>2, <1>3, <1>4, <1>12, RowsOf
  <2>2. doc[x] = "posted" /\ r.left = 0
    BY <2>1, <1>2, <1>3, <1>4 DEF Held, StatusHeld, EntityPlaced, PostPlaced, PostLabels
  <2>3. Wanted(x) = 2 /\ Wanted(x)' = 2
    BY <2>1 DEF Wanted
  <2>4. /\ 2 - 0 <= Cardinality(OwnLines(x))
        /\ Cardinality(OwnLines(x)) <= 2 * ic_aborts + (2 - 0)
    BY <2>1, <2>2, <2>3, <1>2, <1>3 DEF Held, OwnHeld
  <2>5. Cardinality(OwnLines(x)) \in Nat /\ OwnLines(x)' = OwnLines(x)
    BY <1>7, EntityCounts, SameEntries
  <2>6. 2 <= Cardinality(OwnLines(x)) /\ Cardinality(OwnLines(x)) <= 2 * (1 + ic_aborts')
    BY <2>4, <2>5, <1>7
  <2> QED BY <2>2, <2>3, <2>5, <2>6, <1>7 DEF DocAgrees
<1>13. x \notin Runs
  BY <1>2, <1>3, <1>4, RowsOf
<1>14. \A m \in Entities!Entries : EntryAgrees(m)'
  BY <1>7 DEF EntityAgree, EntryAgrees
<1>15. ic_aborts' \in Nat /\ \A y \in Pairs \cap Rows(x) : PairAgrees(y)'
  BY <1>7, <1>8, <1>11
<1> QED BY <1>1, <1>4, <1>10, <1>12, <1>13, <1>14, <1>15, Ends

\* The status of a document that nobody works on changes, and is not the posted one.
LEMMA UnservedApart ==
    ASSUME EntityConstants, EntityTypeInv, EntityApart, EntityAgree,
           NEW d \in Entities!Docs, Unheld(d), NEW s, s # "posted", doc[d] # "posted",
           doc' = [doc EXCEPT ![d] = s], UNCHANGED <<balance, entry, elim, total, ic_req, ic_aborts>>,
           d \in Runs => doc[d] = "none" /\ s = "draft"
    PROVE  EntityApart' /\ EntityAgree'
<1>1. doc'[d] = s /\ \A y \in Entities!Docs \ {d} : doc'[y] = doc[y]
  BY DEF EntityTypeInv, Entities!TypeOK
<1>2. ic_aborts \in Nat /\ ic_aborts' \in Nat /\ ic_aborts' >= ic_aborts
  BY DEF EntityTypeInv, Entities!TypeOK
<1>3. /\ \A t \in Transactions : t \in Entities!Docs
      /\ \A y \in Runs : y \in Entities!Docs
  BY DEF Entities!Docs
<1>4. /\ \A y : OwnLines(y)' = OwnLines(y) /\ EntriesOf(y)' = EntriesOf(y)
      /\ \A n : Contras(n)' = Contras(n)
  BY SameEntries
<1>5. \A p : PostedOf(p)' = PostedOf(p)
  BY <1>1, <1>3 DEF PostedOf
<1>6. Within({d}, {})
  <2>1. TablesWithin({d})
    BY <1>1, <1>2, <1>5 DEF TablesWithin
  <2> QED BY <2>1 DEF Within, Unheld
<1>7. ASSUME d \in Transactions \cup Gaap PROVE DocAgrees(d)'
  <2>1. DocAgrees(d) /\ Wanted(d)' = Wanted(d)
    BY <1>7 DEF EntityAgree, Wanted
  <2>2. Cardinality(OwnLines(d)) <= Wanted(d) * ic_aborts
    BY <2>1 DEF DocAgrees
  <2> QED BY <2>1, <2>2, <1>1, <1>4 DEF DocAgrees
<1>8. ASSUME d \in Runs PROVE RunAgrees(d)'
  <2>1. RunAgrees(d) /\ doc[d] = "none" /\ doc'[d] = "draft"
    BY <1>1, <1>8 DEF EntityAgree
  <2> QED BY <2>1, <1>4 DEF RunAgrees
<1>9. ASSUME NEW m \in Entities!Entries PROVE EntryAgrees(m)'
  <2>1. EntryAgrees(m)
    BY DEF EntityAgree
  <2>2. \A y \in Runs : doc[y] \in {"completed", "reversed"} => doc'[y] = doc[y]
    BY <1>1, <1>3
  <2> QED BY <2>1, <2>2 DEF EntryAgrees
<1>10. Inside({d}, {})
  <2>1. Pairs \cap {d} = {}
    BY DEF EntityConstants
  <2> QED BY <2>1, <1>7, <1>8, <1>9 DEF Inside
<1>11. EntityApart'
  BY DEF EntityApart, Entities!Touches
<1> QED BY <1>2, <1>6, <1>10, <1>11, InsideOutside

LEMMA CreateApart ==
    ASSUME EntityConstants, EntityTypeInv, EntityApart, EntityAgree,
           NEW d \in Entities!Docs, Entities!Create(d)
    PROVE  EntityApart' /\ EntityAgree'
<1>1. /\ doc[d] = "none" /\ doc' = [doc EXCEPT ![d] = "draft"]
      /\ UNCHANGED <<balance, entry, elim, total, ic_req, ic_aborts>>
  BY DEF Entities!Create
<1>2. ASSUME NEW v \in Workers PROVE d \notin Entities!Touches(v)
  <2>1. CASE ic_req[v].pc = "idle"
    <3>1. ic_req[v].d = "none"
      BY <2>1, EntityLocal, EntityIdle DEF EntityPlaced
    <3> QED BY <3>1 DEF Entities!Touches, EntityConstants, Entities!Docs
  <2>2. CASE ic_req[v].pc # "idle"
    <3>1. PICK r \in Entities!Request :
             /\ r = ic_req[v] /\ Serves(v, r.d) /\ EntityPlaced(r) /\ Held(r)
             /\ r.op \in {"post", "adjust", "execute", "reverse", "reconcile"}
             /\ r.op = "post" => r.d \in Transactions
             /\ r.op = "adjust" => r.d \in Gaap
             /\ r.op \in {"execute", "reverse"} => r.d \in Runs
             /\ r.op = "reconcile" => r.d \in Pairs
      BY <2>2, EntityServing
    <3>2. r.op = "reconcile" \/ doc[r.d] # "none"
      BY <3>1 DEF Held, StatusHeld
    <3>3. d # r.d
      BY <3>1, <3>2, <1>1 DEF EntityConstants
    <3>4. r.d \in Transactions => PairOf[r.d] # d
      BY RowsOf
    <3> QED BY <3>1, <3>3, <3>4 DEF Entities!Touches
  <2> QED BY <2>1, <2>2
<1>3. Unheld(d)
  BY <1>2 DEF Unheld
<1> QED BY <1>1, <1>3, UnservedApart

LEMMA ConfirmApart ==
    ASSUME EntityConstants, EntityTypeInv, EntityApart, EntityAgree,
           NEW t \in Transactions, Entities!Confirm(t)
    PROVE  EntityApart' /\ EntityAgree'
<1>1. /\ doc[t] = "draft" /\ doc' = [doc EXCEPT ![t] = "confirmed"]
      /\ UNCHANGED <<balance, entry, elim, total, ic_req, ic_aborts>> /\ Unheld(t)
  BY DEF Entities!Confirm, Unheld
<1>2. t \in Entities!Docs /\ t \notin Runs
  BY RowsOf
<1> QED BY <1>1, <1>2, UnservedApart

-----------------------------------------------------------------------------
(* Entities: the invariant holds in every behaviour, and what follows from it.      *)

LEMMA EntityInit ==
    ASSUME EntityConstants, Entities!Init
    PROVE  EntityInv
<1>1. /\ ic_req = [w \in Workers |-> Entities!Idle] /\ ic_aborts = 0
      /\ doc = [d \in Entities!Docs |-> "none"] /\ balance = [p \in Pairs |-> 0]
      /\ entry = [n \in Entities!Entries |-> Entities!NoEntry]
      /\ elim = [r \in Runs |-> {}] /\ total = [r \in Runs |-> 0]
      /\ elim_rules \in 0..MaxRules
  BY DEF Entities!Init, Entities!NoBalances
<1>2. /\ \A w \in Workers : ic_req[w] = Entities!Idle
      /\ \A n \in Entities!Entries : entry[n] = Entities!NoEntry
      /\ \A r \in Runs : elim[r] = {} /\ doc[r] = "none"
      /\ \A d \in Transactions \cup Gaap : doc[d] = "none"
  BY <1>1 DEF Entities!Docs
<1>3. EntityTypeInv
  <2>1. Entities!TypeOK
    BY <1>1, EntityIdle DEF Entities!TypeOK, Entities!Statuses
  <2> QED BY <2>1, <1>2, EntityIdle DEF EntityTypeInv
<1>4. EntityApart
  <2>1. "none" \notin Transactions /\ \A w \in Workers : ic_req[w].d = "none"
    BY <1>2, EntityIdle DEF EntityConstants, Entities!Docs
  <2>2. ASSUME NEW w \in Workers, NEW x \in Entities!Touches(w) PROVE x = "none"
    <3>1. ic_req[w].d = "none" /\ ic_req[w].d \notin Transactions
      BY <2>1
    <3> QED BY <3>1 DEF Entities!Touches
  <2> QED BY <2>2 DEF EntityApart
<1>5. Entities!NoEntry.of = "none" /\ Entities!NoEntry.undo = 0
  BY DEF Entities!NoEntry
<1>6. \A d \in Entities!Docs : EntriesOf(d) = {} /\ OwnLines(d) = {}
  BY <1>2, <1>5 DEF EntriesOf, OwnLines, EntityConstants
<1>7. ASSUME NEW w \in Workers PROVE Held(ic_req[w])
  <2>1. PICK q : q = ic_req[w]
    OBVIOUS
  <2>2. q.op = "none" /\ q.pc = "idle"
    BY <2>1, <1>2, EntityIdle
  <2>3. Held(q)
    BY <2>2 DEF Held, StatusHeld, EntryHeld, BalanceHeld, OwnHeld, ExecuteHeld, ReverseHeld
  <2> QED BY <2>1, <2>3
<1>8. ASSUME NEW p \in Pairs PROVE PairAgrees(p)
  <2>1. PostedOf(p) = {}
    BY <1>2 DEF PostedOf
  <2> QED BY <2>1, <1>1, FS_EmptySet DEF PairAgrees
<1>9. ASSUME NEW d \in Transactions \cup Gaap PROVE DocAgrees(d)
  <2>1. Cardinality(OwnLines(d)) = 0
    BY <1>6, FS_EmptySet DEF Entities!Docs
  <2>2. Wanted(d) \in {1, 2}
    BY DEF Wanted
  <2> QED BY <2>1, <2>2, <1>1, <1>2 DEF DocAgrees
<1>10. ASSUME NEW r \in Runs PROVE RunAgrees(r)
  BY <1>2, <1>6 DEF RunAgrees, Entities!Docs
<1>11. \A m \in Entities!Entries : EntryAgrees(m)
  BY <1>2, <1>5 DEF EntryAgrees
<1> QED BY <1>3, <1>4, <1>7, <1>8, <1>9, <1>10, <1>11 DEF EntityInv, EntityAgree

LEMMA EntityStep ==
    ASSUME EntityConstants, EntityInv, Entities!Next
    PROVE  EntityInv'
<1> USE DEF EntityInv
<1>1. EntityTypeInv'
  BY EntityTypeStep
<1>2. ASSUME NEW w \in Workers, Entities!Continue(w) PROVE EntityApart' /\ EntityAgree'
  <2>1. CASE Entities!GenerateNumber(w)
    BY <2>1, NumberApart
  <2>2. CASE Entities!InsertEntry(w)
    BY <2>2, InsertApart
  <2>3. CASE Entities!InsertFails(w)
    <3>1. CASE ic_req[w].op = "execute"
      BY <2>3, <3>1, RunFailsApart
    <3>2. CASE ic_req[w].op # "execute"
      <4>1. /\ ic_req[w].pc = "insert" /\ Becomes(w, Entities!Idle)
            /\ UNCHANGED <<doc, balance, entry, elim, total>> /\ ic_aborts' = ic_aborts + 1
        BY <2>3, <3>2 DEF Entities!InsertFails, Entities!At, Entities!Finish, Becomes
      <4> QED BY <4>1, DiesApart
    <3> QED BY <3>1, <3>2
  <2>4. CASE Entities!InsertLines(w)
    BY <2>4, LinesApart
  <2>5. CASE Entities!BeginRun(w)
    BY <2>5, BeginApart
  <2>6. CASE Entities!NextRule(w)
    BY <2>6, RuleApart
  <2>7. CASE Entities!Track(w)
    BY <2>7, TrackApart
  <2>8. CASE Entities!MarkFailed(w)
    BY <2>8, FailedApart
  <2>9. CASE Entities!Save(w)
    BY <2>9, SaveApart
  <2>10. CASE Entities!LoadBalance(w)
    BY <2>10, LoadApart
  <2>11. CASE Entities!SaveBalance(w)
    BY <2>11, BalanceApart
  <2> QED
    BY <1>2, <2>1, <2>2, <2>3, <2>4, <2>5, <2>6, <2>7, <2>8, <2>9, <2>10, <2>11
       DEF Entities!Continue
<1>3. ASSUME NEW w \in Workers, Entities!Crash(w) PROVE EntityApart' /\ EntityAgree'
  <2>1. /\ ic_req[w].pc # "idle" /\ Becomes(w, Entities!Idle)
        /\ UNCHANGED <<doc, balance, entry, elim, total>> /\ ic_aborts' = ic_aborts + 1
    BY <1>3 DEF Entities!Crash, Entities!Busy, Entities!At, Entities!Finish, Becomes
  <2> QED BY <2>1, DiesApart
<1>4. CASE \E d \in Entities!Docs : Entities!Create(d)
  BY <1>1, <1>4, CreateApart
<1>5. CASE \E t \in Transactions : Entities!Confirm(t)
  BY <1>1, <1>5, ConfirmApart
<1>6. CASE \E w \in Workers : \E t \in Transactions : Entities!Post(w, t)
  BY <1>1, <1>6, PostApart
<1>7. CASE \E w \in Workers : \E a \in Gaap : Entities!PostAdjustment(w, a)
  BY <1>1, <1>7, AdjustApart
<1>8. CASE \E w \in Workers : \E r \in Runs : Entities!Execute(w, r)
  BY <1>1, <1>8, ExecuteApart
<1>9. CASE \E w \in Workers : \E r \in Runs : Entities!Reverse(w, r)
  BY <1>1, <1>9, ReverseApart
<1>10. CASE \E w \in Workers : \E p \in Pairs : Entities!Reconcile(w, p)
  BY <1>1, <1>10, ReconcileApart
<1>11. CASE \E w \in Workers : Entities!Continue(w) \/ Entities!Crash(w)
  BY <1>1, <1>2, <1>3, <1>11
<1> QED
  BY <1>4, <1>5, <1>6, <1>7, <1>8, <1>9, <1>10, <1>11 DEF Entities!Next

LEMMA EntityStutter ==
    ASSUME EntityInv, UNCHANGED Entities!vars
    PROVE  EntityInv'
<1>1. UNCHANGED <<elim_rules, doc, balance, entry, elim, total, ic_req, ic_aborts>>
  BY DEF Entities!vars
<1>2. /\ \A y : OwnLines(y)' = OwnLines(y) /\ EntriesOf(y)' = EntriesOf(y)
      /\ \A n : Contras(n)' = Contras(n)
      /\ \A r : Entities!Amount(elim[r])' = Entities!Amount(elim[r])
  BY <1>1, SameEntries
<1>3. /\ \A p : PostedOf(p)' = PostedOf(p) /\ \A d : Wanted(d)' = Wanted(d)
      /\ \A q : PairWorked(q)' = PairWorked(q)
      /\ \A y : Unheld(y)' = Unheld(y)
      /\ \A n : Undone(n)' = Undone(n)
  BY <1>1, <1>2 DEF PostedOf, Wanted, PairWorked, Unheld, Entities!Touches, Undone
<1>4. EntityTypeInv' /\ EntityApart'
  BY <1>1 DEF EntityInv, EntityTypeInv, Entities!TypeOK, EntityApart, Entities!Touches
<1>5. ASSUME NEW w \in Workers PROVE Held(ic_req[w])'
  <2>1. PICK q : q = ic_req[w] /\ q = ic_req'[w]
    BY <1>1
  <2>2. Held(q)
    BY <2>1 DEF EntityInv, EntityAgree
  <2>3. StatusHeld(q)' /\ EntryHeld(q)' /\ OwnHeld(q)'
    BY <1>1, <1>2, <1>3, <2>2 DEF Held, StatusHeld, EntryHeld, OwnHeld
  <2>4. BalanceHeld(q)'
    BY <1>1, <1>2, <1>3, <2>2 DEF Held, BalanceHeld
  <2>5. ExecuteHeld(q)'
    BY <1>1, <1>2, <1>3, <2>2 DEF Held, ExecuteHeld
  <2>6. ReverseHeld(q)'
    BY <1>1, <1>2, <1>3, <2>2 DEF Held, ReverseHeld
  <2> QED BY <2>1, <2>3, <2>4, <2>5, <2>6 DEF Held
<1>6. \A p \in Pairs : PairAgrees(p)'
  BY <1>1, <1>3 DEF EntityInv, EntityAgree, PairAgrees
<1>7. \A d \in Transactions \cup Gaap : DocAgrees(d)'
  BY <1>1, <1>2, <1>3 DEF EntityInv, EntityAgree, DocAgrees
<1>8. \A r \in Runs : RunAgrees(r)'
  BY <1>1, <1>2, <1>3 DEF EntityInv, EntityAgree, RunAgrees
<1>9. \A m \in Entities!Entries : EntryAgrees(m)'
  BY <1>1 DEF EntityInv, EntityAgree, EntryAgrees
<1>10. Entities!Entries' = Entities!Entries
  BY DEF Entities!Entries
<1> QED BY <1>4, <1>5, <1>6, <1>7, <1>8, <1>9, <1>10 DEF EntityInv, EntityAgree

LEMMA EntityInvariant ==
    ASSUME EntityConstants
    PROVE  Entities!Spec => []EntityInv
<1>1. EntityInv /\ [Entities!Next]_(Entities!vars) => EntityInv'
  BY EntityStep, EntityStutter
<1> QED BY EntityInit, <1>1, PTL DEF Entities!Spec

\* What the invariant says of the balances, the documents and the runs.
LEMMA BalancesArePosted ==
    ASSUME EntityConstants, EntityInv
    PROVE  Entities!BalanceIsPosted
<1> SUFFICES ASSUME ic_aborts = 0, NEW p \in Pairs,
                    \A w \in Workers : p \notin Entities!Touches(w)
             PROVE  balance[p] = Cardinality(PostedOf(p))
  BY SameEntityCount DEF Entities!BalanceIsPosted, PostedOf
<1> QED BY DEF EntityInv, EntityAgree, PairAgrees, Unheld

LEMMA PostedIsEntered ==
    ASSUME EntityConstants, EntityInv
    PROVE  Entities!PostedHasEntries
<1>1. ASSUME NEW d \in Transactions \cup Gaap, doc[d] = "posted"
      PROVE  /\ Wanted(d) <= Cardinality(OwnLines(d))
             /\ Cardinality(OwnLines(d)) <= Wanted(d) * (1 + ic_aborts)
  <2>1. CASE Unheld(d)
    BY <1>1, <2>1 DEF EntityInv, EntityAgree, DocAgrees
  <2>2. CASE ~Unheld(d)
    <3>1. PICK w \in Workers : d \in Entities!Touches(w)
      BY <2>2 DEF Unheld
    <3>2. d # "none" /\ d \notin Pairs /\ d \notin Runs
      BY DEF EntityConstants, Entities!Docs
    <3>3. ic_req[w].d = d
      BY <3>1, <3>2, RowsOf DEF Entities!Touches
    <3>4. ic_req[w].pc # "idle"
      BY <3>2, <3>3, EntityLocal, EntityIdle DEF EntityInv, EntityPlaced
    <3>5. PICK r \in Entities!Request :
             /\ r = ic_req[w] /\ Serves(w, r.d) /\ EntityPlaced(r) /\ Held(r)
             /\ r.op \in {"post", "adjust", "execute", "reverse", "reconcile"}
             /\ r.op = "post" => r.d \in Transactions
             /\ r.op = "adjust" => r.d \in Gaap
             /\ r.op \in {"execute", "reverse"} => r.d \in Runs
             /\ r.op = "reconcile" => r.d \in Pairs
      BY <3>4, EntityServing DEF EntityInv
    <3>6. r.op = "post" /\ r.pc \in {"balance", "save_balance"}
      BY <3>2, <3>3, <3>5, <1>1 DEF Held, StatusHeld
    <3>7. r.left = 0 /\ Wanted(d) = 2
      BY <3>3, <3>5, <3>6 DEF EntityPlaced, PostPlaced, PostLabels, Wanted
    <3>8. /\ 2 - 0 <= Cardinality(OwnLines(d))
          /\ Cardinality(OwnLines(d)) <= 2 * ic_aborts + (2 - 0)
      BY <3>3, <3>5, <3>6, <3>7 DEF Held, OwnHeld
    <3>9. ic_aborts \in Nat /\ Cardinality(OwnLines(d)) \in Nat
      BY EntityCounts DEF EntityInv, EntityTypeInv, Entities!TypeOK
    <3> QED BY <3>7, <3>8, <3>9
  <2> QED BY <2>1, <2>2
<1> QED BY <1>1, SameEntityCount DEF Entities!PostedHasEntries, OwnLines, Wanted

LEMMA ConsolidationsAddUp ==
    ASSUME EntityConstants, EntityInv
    PROVE  Entities!ConsolidationAddsUp
<1>1. Entities!TotalIsEliminated
  BY DEF Entities!TotalIsEliminated, EntityInv, EntityAgree, RunAgrees, Unheld, EntriesOf
<1>2. Entities!ReversedNetsZero
  BY SameEntityCount DEF Entities!ReversedNetsZero, EntityInv, EntityAgree, RunAgrees, Undone,
     Contras
<1> QED BY <1>1, <1>2 DEF Entities!ConsolidationAddsUp

\* An intercompany balance is what was posted between the two entities, unless a request
\* on it is under way or one died, and what is posted has its journal entries with their
\* lines (ic_transaction_post, gaap_adjustment_post and ic_balance_reconcile).
THEOREM PostingsHaveEntries ==
    ASSUME EntityConstants
    PROVE  Operations => []PostingsAgree
<1>1. EntityInv => PostingsAgree
  BY BalancesArePosted, PostedIsEntered DEF PostingsAgree
<1> QED BY <1>1, EntitiesBehave, EntityInvariant, PTL

\* The total of a completed consolidation is what its entries eliminate, and a reversed
\* one has a contra entry for each of them (execute_consolidation, reverse_consolidation).
THEOREM RunsAddUp ==
    ASSUME EntityConstants
    PROVE  Operations => []ConsolidationAddsUp
<1>1. EntityInv => ConsolidationAddsUp
  BY ConsolidationsAddUp DEF ConsolidationAddsUp
<1> QED BY <1>1, EntitiesBehave, EntityInvariant, PTL

-----------------------------------------------------------------------------
(* Payroll.  One request at a time works on the journal, and it is the only one    *)
(* that changes the journal and its lines; once a reconciliation is made of an     *)
(* approved journal, no request changes either.                                    *)

LEMMA PayBehaves == Operations => Pay!Spec
<1>1. Start => Pay!Init
  BY DEF Start
<1>2. [Step]_allVars => [Pay!Next]_(Pay!vars)
  <2>1. StepPayroll => Pay!Next
    BY DEF StepPayroll
  <2>2. Step => StepPayroll \/ UNCHANGED payrollVars
    BY DEF Step, StepBank, StepEntities, StepStock, StepAssets, StepTaxes, StepRecurring,
       StepPlans, StepProjects, StepRecords, StepPeople
  <2>3. UNCHANGED allVars => UNCHANGED payrollVars
    BY DEF allVars
  <2>4. UNCHANGED payrollVars => UNCHANGED Pay!vars
    BY DEF payrollVars, Pay!vars, Pay!rows
  <2> QED BY <2>1, <2>2, <2>3, <2>4
<1> QED BY <1>1, <1>2, PTL DEF Operations, Pay!Spec

LEMMA SamePaySum == \A g : Pay!SumOf(g) = SumOf(g)
  BY DEF Pay!SumOf, Pay!MapThenSumSet, Pay!MapThenFoldSet,
     SumOf, MapThenSumSet, MapThenFoldSet

\* What the constants of payroll are.
PayConstants ==
    /\ IsFiniteSet(Employees) /\ Wage \in Nat /\ Withholdings \subseteq Nat
    /\ MaxReconciliations \in Nat

JournalLabels == {"insert", "insert_lines", "find_lines", "calculate", "approve", "post"}
CheckLabels == {"insert_reconciliation", "sum_pay", "sum_taxes", "save_reconciliation"}

\* Which labels the requests of a kind come to.
PayPlaced(q) ==
    /\ q.op = "none" <=> q.pc = "idle"
    /\ q.op = "journal" <=> q.pc \in JournalLabels
    /\ q.op = "reconcile" <=> q.pc \in CheckLabels
    /\ q.pc \in CheckLabels \ {"insert_reconciliation"} => q.n \in DOMAIN payroll_check

PayTypeInv == Pay!TypeOK /\ \A w \in Workers : PayPlaced(pay_req[w])

\* One request at a time works on the journal.
PayApart == \A v, w \in Workers : v # w /\ pay_req[v].op = "journal" => pay_req[w].op # "journal"

-----------------------------------------------------------------------------
(* The columns of the lines. *)

GrossOf(l) == [e \in Employees |-> l[e].gross]
NetOf(l) == [e \in Employees |-> l[e].net]
TakenOf(l) == [e \in Employees |-> l[e].withheld]
OtherOf(l) == [e \in Employees |-> l[e].other]
DeductedOf(l) == [e \in Employees |-> l[e].withheld + l[e].other]

\* The sum of a column over the lines that a calculation has behind it.
Behind(todo, c) == SumOf([e \in Employees |-> IF e \in todo THEN 0 ELSE c[e]])

LEMMA LineFields ==
    ASSUME NEW l \in [Employees -> Pay!Line], NEW e \in Employees
    PROVE  /\ l[e] \in Pay!Line
           /\ l[e].gross \in Nat /\ l[e].withheld \in Nat /\ l[e].other \in Nat /\ l[e].net \in Int
           /\ l[e].there \in BOOLEAN
  BY DEF Pay!Line

LEMMA ColumnTypes ==
    ASSUME NEW l \in [Employees -> Pay!Line]
    PROVE  /\ GrossOf(l) \in [Employees -> Nat] /\ TakenOf(l) \in [Employees -> Nat]
           /\ OtherOf(l) \in [Employees -> Nat] /\ DeductedOf(l) \in [Employees -> Nat]
           /\ NetOf(l) \in [Employees -> Int]
<1>1. GrossOf(l) \in [Employees -> Nat]
  BY LineFields DEF GrossOf
<1>2. TakenOf(l) \in [Employees -> Nat]
  BY LineFields DEF TakenOf
<1>3. OtherOf(l) \in [Employees -> Nat]
  BY LineFields DEF OtherOf
<1>4. DeductedOf(l) \in [Employees -> Nat]
  <2>1. \A e \in Employees : l[e].withheld + l[e].other \in Nat
    BY LineFields
  <2> QED BY <2>1 DEF DeductedOf
<1>5. NetOf(l) \in [Employees -> Int]
  BY LineFields DEF NetOf
<1> QED BY <1>1, <1>2, <1>3, <1>4, <1>5

LEMMA ColumnSums ==
    \A l : /\ Pay!Gross(l) = SumOf(GrossOf(l)) /\ Pay!Net(l) = SumOf(NetOf(l))
           /\ Pay!Taken(l) = SumOf(TakenOf(l)) /\ Pay!Deducted(l) = SumOf(DeductedOf(l))
<1> SUFFICES ASSUME NEW l
             PROVE  /\ Pay!Gross(l) = SumOf(GrossOf(l)) /\ Pay!Net(l) = SumOf(NetOf(l))
                    /\ Pay!Taken(l) = SumOf(TakenOf(l)) /\ Pay!Deducted(l) = SumOf(DeductedOf(l))
  OBVIOUS
<1>1. Pay!Gross(l) = SumOf(GrossOf(l))
  BY SamePaySum, Zenon DEF Pay!Gross, GrossOf
<1>2. Pay!Net(l) = SumOf(NetOf(l))
  BY SamePaySum, Zenon DEF Pay!Net, NetOf
<1>3. Pay!Taken(l) = SumOf(TakenOf(l))
  BY SamePaySum, Zenon DEF Pay!Taken, TakenOf
<1>4. Pay!Deducted(l) = SumOf(DeductedOf(l))
  BY SamePaySum, Zenon DEF Pay!Deducted, DeductedOf
<1> QED BY <1>1, <1>2, <1>3, <1>4

\* Nothing is behind a calculation where the column has no amounts yet.
LEMMA BehindNone ==
    ASSUME IsFiniteSet(Employees), NEW todo, NEW c \in [Employees -> Int],
           \A e \in Employees \ todo : c[e] = 0
    PROVE  Behind(todo, c) = 0
<1> DEFINE g == [e \in Employees |-> IF e \in todo THEN 0 ELSE c[e]]
<1>1. g \in [Employees -> Int] /\ \A e \in Employees : g[e] = 0
  OBVIOUS
<1>2. SumOf(g) = 0
  BY <1>1, SumZero
<1> QED BY <1>2 DEF Behind

\* In the end all of it is.
LEMMA BehindAll ==
    ASSUME NEW c \in [Employees -> Int]
    PROVE  Behind({}, c) = SumOf(c)
<1>1. [e \in Employees |-> IF e \in {} THEN 0 ELSE c[e]] = c
  OBVIOUS
<1> QED BY <1>1 DEF Behind

\* A calculation leaves one line behind, which it changes.
LEMMA BehindOne ==
    ASSUME IsFiniteSet(Employees), NEW todo, NEW e \in todo, e \in Employees,
           NEW c \in [Employees -> Int], NEW d \in [Employees -> Int],
           \A x \in Employees \ {e} : d[x] = c[x]
    PROVE  Behind(todo \ {e}, d) = Behind(todo, c) + d[e]
<1> DEFINE g == [x \in Employees |-> IF x \in todo THEN 0 ELSE c[x]]
           h == [x \in Employees |-> IF x \in todo \ {e} THEN 0 ELSE d[x]]
<1>1. g \in [Employees -> Int] /\ h \in [Employees -> Int]
  OBVIOUS
<1>2. g[e] = 0 /\ h[e] = d[e] /\ d[e] \in Int /\ \A x \in Employees \ {e} : g[x] = h[x]
  OBVIOUS
<1>3. Behind(todo, c) = SumOf(g) /\ Behind(todo \ {e}, d) = SumOf(h)
  BY DEF Behind
<1> HIDE DEF g, h
<1>4. SumOf(g) + h[e] = SumOf(h) + g[e]
  BY <1>1, <1>2, SumChange
<1>5. SumOf(g) \in Int /\ SumOf(h) \in Int
  BY <1>1, SumIsInteger
<1> QED BY <1>2, <1>3, <1>4, <1>5

-----------------------------------------------------------------------------
(* The invariant. *)

\* The totals that a request holds may take any values.
LEMMA TotalsHeld ==
    ASSUME NEW j \in Pay!Journal, NEW g \in Nat, NEW d \in Nat, NEW n \in Int
    PROVE  /\ Pay!WithTotals(j, g, d, n) \in Pay!Journal
           /\ Pay!WithTotals(j, g, d, n).gross = g /\ Pay!WithTotals(j, g, d, n).deductions = d
           /\ Pay!WithTotals(j, g, d, n).net = n
  BY DEF Pay!Journal, Pay!WithTotals

\* What a request that calculates has done to the lines it has behind it.
CalculateHeld(q) ==
    /\ \A e \in q.todo : line[e].there /\ q.line[e] = line[e]
    /\ q.copy.gross = Behind(q.todo, GrossOf(line))
    /\ q.copy.deductions = Behind(q.todo, DeductedOf(line))
    /\ q.copy.net = Behind(q.todo, NetOf(line))

\* What holds of the journal while a request works on it.
JournalHeld(q) ==
    /\ q.pc = "insert" => journal.status = "none"
    /\ q.pc = "insert_lines" => journal.status = "draft" /\ \A e \in q.todo : ~line[e].there
    /\ q.pc \in {"find_lines", "calculate"} => journal.status \in {"draft", "calculated"}
    /\ q.pc = "calculate" => CalculateHeld(q)
    /\ q.pc = "approve" => journal.status = "calculated" /\ q.copy = journal
    /\ q.pc = "post" => journal.status = "approved"

\* What a reconciliation of an approved journal has summed is what the lines still say.
CheckHeld(q) ==
    /\ q.pc \in {"sum_taxes", "save_reconciliation"} /\ payroll_check[q.n].final =>
          q.copy.gross = SumOf(GrossOf(line)) /\ q.copy.net = SumOf(NetOf(line))
    /\ q.pc = "save_reconciliation" /\ payroll_check[q.n].final =>
          q.copy.deductions = SumOf(TakenOf(line))

PayHeld == \A w \in Workers : JournalHeld(pay_req[w]) /\ CheckHeld(pay_req[w])

\* The lines are there once the journal is.
PayLines ==
    /\ \A e \in Employees : ~line[e].there => line[e] = Pay!NoLine
    /\ journal.status = "none" => \A e \in Employees : ~line[e].there
    /\ Pay!TotalsAreLines

\* A reconciliation has the sums of the lines.
Summed(row) ==
    /\ row.gross = Pay!Gross(line) /\ row.withheld = Pay!Taken(line) /\ row.net = Pay!Net(line)

PayChecks ==
    /\ \A n \in DOMAIN payroll_check : payroll_check[n].final => journal.status = "approved"
    /\ \A n \in DOMAIN payroll_check :
          payroll_check[n].final /\ payroll_check[n].status # "draft" => Summed(payroll_check[n])

PayInv == PayTypeInv /\ PayApart /\ PayHeld /\ PayLines /\ PayChecks

-----------------------------------------------------------------------------
(* What a step leaves alone. *)

LEMMA PayLocal ==
    ASSUME PayTypeInv, NEW w \in Workers
    PROVE  /\ pay_req[w] \in Pay!Request /\ PayPlaced(pay_req[w])
           /\ pay_req[w].copy \in Pay!Journal /\ pay_req[w].todo \in SUBSET Employees
           /\ pay_req[w].line \in [Employees -> Pay!Line] /\ pay_req[w].n \in Nat
  BY DEF PayTypeInv, Pay!TypeOK, Pay!Request

LEMMA PayTypes ==
    ASSUME PayTypeInv
    PROVE  /\ withheld \in [Employees -> Withholdings] /\ journal \in Pay!Journal
           /\ line \in [Employees -> Pay!Line] /\ payroll_check \in Seq(Pay!Reconciliation)
           /\ pay_lagging \in BOOLEAN /\ pay_aborts \in Nat
           /\ pay_req \in [Workers -> Pay!Request]
  BY DEF PayTypeInv, Pay!TypeOK

LEMMA PayIdle ==
    /\ Pay!Draft \in Pay!Journal /\ Pay!NoLine \in Pay!Line
    /\ Pay!Idle \in Pay!Request /\ Pay!Idle.pc = "idle" /\ Pay!Idle.op = "none"
<1>1. Pay!Draft \in Pay!Journal
  BY DEF Pay!Draft, Pay!WithTotals, Pay!Journal
<1>2. Pay!NoLine \in Pay!Line
  BY DEF Pay!NoLine, Pay!Line
<1>3. [e \in Employees |-> Pay!NoLine] \in [Employees -> Pay!Line]
  BY <1>2
<1>4. Pay!Idle \in Pay!Request
  BY <1>1, <1>3 DEF Pay!Idle, Pay!Request
<1> QED BY <1>1, <1>2, <1>4 DEF Pay!Idle

\* The tables after a step.
PayTables ==
    /\ withheld' \in [Employees -> Withholdings] /\ journal' \in Pay!Journal
    /\ line' \in [Employees -> Pay!Line] /\ payroll_check' \in Seq(Pay!Reconciliation)
    /\ pay_lagging' \in BOOLEAN /\ pay_aborts' \in Nat

\* Which requests a step of one worker may leave behind it.
PayTakes(w, q) ==
    /\ pay_req' = [pay_req EXCEPT ![w] = q]
    /\ q.op = "journal" => \A v \in Workers \ {w} : pay_req[v].op # "journal"

\* The reconciliations that are there stay there, of the same journal.
ChecksStay ==
    \A n \in DOMAIN payroll_check :
        n \in DOMAIN payroll_check' /\ payroll_check'[n].final = payroll_check[n].final

\* Only the request that works on the journal changes it or its lines, and not the lines
\* of an approved one.
LinesStay(w) ==
    /\ pay_req[w].op = "journal" \/ UNCHANGED <<journal, line>>
    /\ UNCHANGED line \/ \A n \in DOMAIN payroll_check : ~payroll_check[n].final

\* A step of one worker keeps the invariant for the others.
LEMMA PayFrame ==
    ASSUME PayInv, NEW w \in Workers, NEW q \in Pay!Request,
           PayTakes(w, q), PayTables, ChecksStay, LinesStay(w),
           PayPlaced(q)', JournalHeld(q)', CheckHeld(q)', PayLines', PayChecks'
    PROVE  PayInv'
<1>1. /\ pay_req' \in [Workers -> Pay!Request] /\ pay_req'[w] = q
      /\ \A v \in Workers \ {w} : pay_req'[v] = pay_req[v]
  BY PayTypes DEF PayInv, PayTakes
<1>2. ASSUME NEW v \in Workers \ {w}
      PROVE  PayPlaced(pay_req[v])' /\ JournalHeld(pay_req[v])' /\ CheckHeld(pay_req[v])'
  <2>1. PICK r \in Pay!Request :
           r = pay_req[v] /\ PayPlaced(r) /\ JournalHeld(r) /\ CheckHeld(r)
    BY PayLocal DEF PayInv, PayHeld
  <2>2. pay_req'[v] = r
    BY <1>1, <2>1
  <2>3. PayPlaced(r)'
    BY <2>1 DEF PayPlaced, ChecksStay
  <2>4. JournalHeld(r)'
    <3>1. CASE pay_req[w].op = "journal"
      <4>1. r.op # "journal"
        BY <3>1, <2>1 DEF PayInv, PayApart
      <4>2. r.pc \notin JournalLabels
        BY <4>1, <2>1 DEF PayPlaced
      <4> QED BY <4>2 DEF JournalHeld, JournalLabels
    <3>2. CASE UNCHANGED <<journal, line>>
      BY <3>2, <2>1 DEF JournalHeld, CalculateHeld
    <3> QED BY <3>1, <3>2 DEF LinesStay
  <2>5. CheckHeld(r)'
    <3>1. CASE r.pc \in {"sum_taxes", "save_reconciliation"}
      <4>1. r.n \in DOMAIN payroll_check
        BY <3>1, <2>1 DEF PayPlaced, CheckLabels
      <4>2. payroll_check'[r.n].final = payroll_check[r.n].final
        BY <4>1 DEF ChecksStay
      <4>3. CASE UNCHANGED line
        BY <4>2, <4>3, <2>1 DEF CheckHeld
      <4>4. CASE ~payroll_check[r.n].final
        BY <4>2, <4>4 DEF CheckHeld
      <4> QED BY <4>1, <4>3, <4>4 DEF LinesStay
    <3>2. CASE r.pc \notin {"sum_taxes", "save_reconciliation"}
      BY <3>2 DEF CheckHeld
    <3> QED BY <3>1, <3>2
  <2>6. pay_req[v]' = r
    BY <2>2
  <2> QED BY <2>3, <2>4, <2>5, <2>6
<1>3. PayTypeInv'
  <2>1. Pay!TypeOK'
    BY <1>1 DEF PayTables, Pay!TypeOK
  <2>2. \A v \in Workers : PayPlaced(pay_req[v])'
    BY <1>1, <1>2
  <2> QED BY <2>1, <2>2 DEF PayTypeInv
<1>4. PayHeld'
  BY <1>1, <1>2 DEF PayHeld
<1>5. PayApart'
  BY <1>1 DEF PayApart, PayInv, PayTakes
<1> QED BY <1>3, <1>4, <1>5 DEF PayInv

\* Most steps change no table.
LEMMA PayQuiet ==
    ASSUME PayInv, NEW w \in Workers, NEW q \in Pay!Request,
           PayTakes(w, q), UNCHANGED <<withheld, journal, line, payroll_check, pay_lagging>>,
           pay_aborts' \in Nat, PayPlaced(q), JournalHeld(q), CheckHeld(q)
    PROVE  PayInv'
<1>1. PayTables
  BY PayTypes DEF PayTables, PayInv
<1>2. ChecksStay /\ LinesStay(w)
  BY DEF ChecksStay, LinesStay
<1>3. PayPlaced(q)' /\ JournalHeld(q)' /\ CheckHeld(q)'
  BY DEF PayPlaced, JournalHeld, CalculateHeld, CheckHeld
<1>4. PayLines' /\ PayChecks'
  <2>1. PayLines /\ PayChecks
    BY DEF PayInv
  <2>2. PayLines'
    BY <2>1 DEF PayLines, Pay!TotalsAreLines, Pay!Gross, Pay!Net, Pay!Deducted
  <2>3. PayChecks'
    BY <2>1 DEF PayChecks, Summed, Pay!Gross, Pay!Taken, Pay!Net
  <2> QED BY <2>2, <2>3
<1> QED BY <1>1, <1>2, <1>3, <1>4, PayFrame

\* A request that ends, and one that dies, leave nothing to be held.
LEMMA PayEnds ==
    ASSUME PayInv, NEW w \in Workers, Pay!Finish(w)
    PROVE  /\ PayTakes(w, Pay!Idle) /\ Pay!Idle \in Pay!Request
           /\ PayPlaced(Pay!Idle) /\ JournalHeld(Pay!Idle) /\ CheckHeld(Pay!Idle)
           /\ PayPlaced(Pay!Idle)' /\ JournalHeld(Pay!Idle)' /\ CheckHeld(Pay!Idle)'
<1>1. PICK q : q = Pay!Idle
  OBVIOUS
<1>2. q \in Pay!Request /\ q.pc = "idle" /\ q.op = "none" /\ pay_req' = [pay_req EXCEPT ![w] = q]
  BY <1>1, PayIdle DEF Pay!Finish
<1>3. /\ PayTakes(w, q) /\ PayPlaced(q) /\ JournalHeld(q) /\ CheckHeld(q)
      /\ PayPlaced(q)' /\ JournalHeld(q)' /\ CheckHeld(q)'
  BY <1>2 DEF PayTakes, PayPlaced, JournalLabels, CheckLabels, JournalHeld, CheckHeld
<1> QED BY <1>1, <1>2, <1>3

-----------------------------------------------------------------------------
(* The steps. *)

\* The request of a worker, with what the invariant says of it.
LEMMA PayRequest ==
    ASSUME PayInv, NEW w \in Workers
    PROVE  \E r \in Pay!Request :
              /\ r = pay_req[w] /\ PayPlaced(r) /\ JournalHeld(r) /\ CheckHeld(r)
              /\ r.copy \in Pay!Journal /\ r.todo \in SUBSET Employees
              /\ r.line \in [Employees -> Pay!Line] /\ r.n \in Nat
              /\ r.op = "journal" => \A v \in Workers \ {w} : pay_req[v].op # "journal"
<1>1. PICK r \in Pay!Request : r = pay_req[w]
  BY PayLocal DEF PayInv
<1>2. /\ PayPlaced(r) /\ r.copy \in Pay!Journal /\ r.todo \in SUBSET Employees
      /\ r.line \in [Employees -> Pay!Line] /\ r.n \in Nat
  BY <1>1, PayLocal DEF PayInv
<1>3. JournalHeld(r) /\ CheckHeld(r)
  BY <1>1 DEF PayInv, PayHeld
<1>4. ASSUME r.op = "journal", NEW v \in Workers \ {w} PROVE pay_req[v].op # "journal"
  BY <1>1, <1>4 DEF PayInv, PayApart
<1> QED BY <1>1, <1>2, <1>3, <1>4

\* A request begins with the journal as it is.
LEMMA PayBegins ==
    ASSUME PayInv, NEW w \in Workers, NEW op, NEW label, Pay!Begin(w, op, label),
           \/ op = "reconcile" /\ label = "insert_reconciliation"
           \/ /\ op = "journal"
              /\ \/ label = "insert" /\ journal.status = "none"
                 \/ label = "find_lines" /\ journal.status \in {"draft", "calculated"}
                 \/ label = "approve" /\ journal.status = "calculated"
                 \/ label = "post" /\ journal.status = "approved"
    PROVE  PayInv'
<1>1. PICK c \in Pay!Journal : c = journal
  BY PayTypes DEF PayInv
<1> DEFINE q == [Pay!Idle EXCEPT !.op = op, !.pc = label, !.copy = c]
<1>2. pay_req' = [pay_req EXCEPT ![w] = q]
  BY <1>1 DEF Pay!Begin
<1>3. q \in Pay!Request
  <2>1. op \in {"journal", "reconcile"}
        /\ label \in {"insert", "find_lines", "approve", "post", "insert_reconciliation"}
    OBVIOUS
  <2> QED BY <2>1, PayIdle DEF Pay!Request
<1>4. q.op = op /\ q.pc = label /\ q.copy = c
  BY DEF Pay!Idle
<1> HIDE DEF q
<1>5. PayTakes(w, q)
  <2>1. op = "journal" => \A v \in Workers : pay_req[v].op # "journal"
    BY Zenon DEF Pay!Begin, Pay!MayStart
  <2> QED BY <2>1, <1>2, <1>4 DEF PayTakes
<1>6. PayPlaced(q)
  BY <1>4 DEF PayPlaced, JournalLabels, CheckLabels
<1>7. JournalHeld(q) /\ CheckHeld(q)
  BY <1>1, <1>4 DEF JournalHeld, CheckHeld
<1>8. UNCHANGED <<withheld, journal, line, payroll_check, pay_lagging>> /\ pay_aborts' \in Nat
  BY PayTypes DEF Pay!Begin, Pay!rows, PayInv
<1> QED BY <1>3, <1>5, <1>6, <1>7, <1>8, PayQuiet

LEMMA InsertJournalPays ==
    ASSUME PayConstants, PayInv, NEW w \in Workers, Pay!InsertJournal(w)
    PROVE  PayInv'
<1>1. PICK r \in Pay!Request :
         /\ r = pay_req[w] /\ PayPlaced(r) /\ JournalHeld(r) /\ CheckHeld(r)
         /\ r.copy \in Pay!Journal /\ r.todo \in SUBSET Employees
         /\ r.line \in [Employees -> Pay!Line] /\ r.n \in Nat
         /\ r.op = "journal" => \A v \in Workers \ {w} : pay_req[v].op # "journal"
  BY PayRequest
<1>2. r.pc = "insert" /\ r.op = "journal" /\ journal.status = "none"
  BY <1>1 DEF Pay!InsertJournal, Pay!At, PayPlaced, JournalLabels, JournalHeld
<1> DEFINE q == [r EXCEPT !.pc = "insert_lines", !.todo = Employees]
<1>3. pay_req' = [pay_req EXCEPT ![w] = q]
  BY <1>1, PayTypes DEF Pay!InsertJournal, PayInv
<1>4. q \in Pay!Request /\ q.pc = "insert_lines" /\ q.op = "journal" /\ q.todo = Employees
  BY <1>2 DEF Pay!Request
<1> HIDE DEF q
<1>5. PayTakes(w, q)
  BY <1>1, <1>2, <1>3 DEF PayTakes
<1>6. /\ journal' = Pay!Draft
      /\ UNCHANGED <<withheld, line, payroll_check, pay_lagging, pay_aborts>>
  BY DEF Pay!InsertJournal
<1>7. PayTables
  BY <1>6, PayTypes, PayIdle DEF PayTables, PayInv
<1>8. ChecksStay /\ LinesStay(w)
  BY <1>1, <1>2, <1>6 DEF ChecksStay, LinesStay
<1>9. journal'.status = "draft"
  BY <1>6 DEF Pay!Draft, Pay!WithTotals
<1>10. PayPlaced(q)' /\ CheckHeld(q)'
  BY <1>4 DEF PayPlaced, JournalLabels, CheckLabels, CheckHeld
<1>11. \A e \in Employees : ~line[e].there
  BY <1>2 DEF PayInv, PayLines
<1>12. JournalHeld(q)'
  BY <1>4, <1>6, <1>9, <1>11 DEF JournalHeld
<1>13. PayLines'
  BY <1>6, <1>9 DEF PayInv, PayLines, Pay!TotalsAreLines
<1>14. PayChecks'
  BY <1>2, <1>6 DEF PayInv, PayChecks, Summed, Pay!Gross, Pay!Taken, Pay!Net
<1> QED BY <1>4, <1>5, <1>7, <1>8, <1>10, <1>12, <1>13, <1>14, PayFrame

\* A line comes, in a draft, where there was none.
LEMMA InsertLinePays ==
    ASSUME PayConstants, PayInv, NEW w \in Workers, Pay!InsertLine(w)
    PROVE  PayInv'
<1>1. PICK r \in Pay!Request :
         /\ r = pay_req[w] /\ PayPlaced(r) /\ JournalHeld(r) /\ CheckHeld(r)
         /\ r.copy \in Pay!Journal /\ r.todo \in SUBSET Employees
         /\ r.line \in [Employees -> Pay!Line] /\ r.n \in Nat
         /\ r.op = "journal" => \A v \in Workers \ {w} : pay_req[v].op # "journal"
  BY PayRequest
<1>2. /\ r.pc = "insert_lines" /\ r.op = "journal" /\ journal.status = "draft"
      /\ \A x \in r.todo : ~line[x].there
  BY <1>1 DEF Pay!InsertLine, Pay!At, PayPlaced, JournalLabels, JournalHeld
<1>3. PICK e \in r.todo :
         /\ pay_req' = [pay_req EXCEPT ![w].todo = @ \ {e}]
         /\ line' \in {line} \cup
               {[line EXCEPT ![e].there = TRUE, ![e].other = other] :
                   other \in IF e \in WithOther THEN {0, 1} ELSE {0}}
  BY <1>1, Zenon DEF Pay!InsertLine
<1> DEFINE q == [r EXCEPT !.todo = @ \ {e}]
<1>4. pay_req' = [pay_req EXCEPT ![w] = q]
  BY <1>1, <1>3
<1>5. q \in Pay!Request /\ q.pc = "insert_lines" /\ q.op = "journal" /\ q.todo = r.todo \ {e}
  BY <1>1, <1>2 DEF Pay!Request
<1> HIDE DEF q
<1>6. PayTakes(w, q)
  BY <1>1, <1>2, <1>4 DEF PayTakes
<1>7. UNCHANGED <<withheld, journal, payroll_check, pay_lagging, pay_aborts>>
  BY DEF Pay!InsertLine
<1>8. e \in Employees /\ line \in [Employees -> Pay!Line]
  BY <1>1, PayTypes DEF PayInv
<1>9. /\ line' \in [Employees -> Pay!Line] /\ \A x \in Employees \ {e} : line'[x] = line[x]
      /\ line'[e] = line[e] \/ line'[e].there
  <2>1. CASE line' = line
    BY <2>1, <1>8
  <2>2. CASE line' # line
    <3>1. PICK o \in {0, 1} : line' = [line EXCEPT ![e].there = TRUE, ![e].other = o]
      BY <2>2, <1>3
    <3>2. PICK row \in Pay!Line : row = line[e]
      BY <1>8
    <3>3. line' = [line EXCEPT ![e] = [row EXCEPT !.there = TRUE, !.other = o]]
      BY <3>1, <3>2, <1>8
    <3>4. [row EXCEPT !.there = TRUE, !.other = o] \in Pay!Line
          /\ [row EXCEPT !.there = TRUE, !.other = o].there
      BY DEF Pay!Line
    <3> QED BY <3>3, <3>4, <1>8
  <2> QED BY <2>1, <2>2
<1>10. PayTables
  BY <1>7, <1>9, PayTypes DEF PayTables, PayInv
<1>11. \A n \in DOMAIN payroll_check : ~payroll_check[n].final
  BY <1>2 DEF PayInv, PayChecks
<1>12. ChecksStay /\ LinesStay(w)
  BY <1>1, <1>2, <1>7, <1>11 DEF ChecksStay, LinesStay
<1>13. PayPlaced(q)' /\ CheckHeld(q)'
  BY <1>5 DEF PayPlaced, JournalLabels, CheckLabels, CheckHeld
<1>14. JournalHeld(q)'
  <2>1. \A x \in q.todo : ~line'[x].there
    BY <1>1, <1>2, <1>5, <1>9
  <2> QED BY <1>2, <1>5, <1>7, <2>1 DEF JournalHeld
<1>15. PayLines'
  <2>1. \A x \in Employees : ~line'[x].there => line'[x] = Pay!NoLine
    BY <1>8, <1>9 DEF PayInv, PayLines
  <2> QED BY <2>1, <1>2, <1>7 DEF PayLines, Pay!TotalsAreLines
<1>16. PayChecks'
  BY <1>7, <1>11 DEF PayChecks, Summed, Pay!Gross, Pay!Taken, Pay!Net
<1> QED BY <1>5, <1>6, <1>10, <1>12, <1>13, <1>14, <1>15, <1>16, PayFrame

\* The lines that a calculation finds; the others have no amounts.
LEMMA FindLinesPays ==
    ASSUME PayConstants, PayInv, NEW w \in Workers, Pay!FindLines(w)
    PROVE  PayInv'
<1>1. PICK r \in Pay!Request :
         /\ r = pay_req[w] /\ PayPlaced(r) /\ JournalHeld(r) /\ CheckHeld(r)
         /\ r.copy \in Pay!Journal /\ r.todo \in SUBSET Employees
         /\ r.line \in [Employees -> Pay!Line] /\ r.n \in Nat
         /\ r.op = "journal" => \A v \in Workers \ {w} : pay_req[v].op # "journal"
  BY PayRequest
<1>2. r.pc = "find_lines" /\ r.op = "journal" /\ journal.status \in {"draft", "calculated"}
  <2>1. pay_req[w].pc = "find_lines"
    BY Zenon DEF Pay!FindLines, Pay!At
  <2> QED BY <2>1, <1>1 DEF PayPlaced, JournalLabels, JournalHeld
<1>3. PICK found \in SUBSET Employees : found = Pay!Entered
  BY DEF Pay!Entered
<1>4. PICK l \in [Employees -> Pay!Line] : l = line
  BY PayTypes DEF PayInv
<1>5. PICK j \in Pay!Journal : j = r.copy
  BY <1>1
<1> DEFINE c == Pay!WithTotals(j, 0, 0, 0)
           q == [r EXCEPT !.pc = "calculate", !.line = l, !.todo = found, !.copy = c]
<1>6. c \in Pay!Journal /\ c.gross = 0 /\ c.deductions = 0 /\ c.net = 0
  BY TotalsHeld
<1>7. pay_req' = [pay_req EXCEPT ![w] = q]
  <2>1. pay_req' = [pay_req EXCEPT ![w].pc = "calculate", ![w].line = line,
                       ![w].todo = Pay!Entered,
                       ![w].copy = Pay!WithTotals(@, 0, 0, 0)]
    BY Zenon DEF Pay!FindLines
  <2>2. r.copy = j /\ pay_req[w] = r /\ pay_req \in [Workers -> Pay!Request]
    BY <1>1, <1>5, PayTypes DEF PayInv
  <2> HIDE DEF c
  <2>3. pay_req[w].copy = j
    BY <2>2
  <2>4. pay_req' = [pay_req EXCEPT ![w] = [@ EXCEPT !.pc = "calculate", !.line = line,
                       !.todo = Pay!Entered,
                       !.copy = Pay!WithTotals(pay_req[w].copy, 0, 0, 0)]]
    BY <2>1, <2>2 DEF Pay!Request
  <2> QED BY <2>2, <2>3, <2>4, <1>3, <1>4 DEF c
<1> HIDE DEF c
<1>8. /\ q \in Pay!Request /\ q.pc = "calculate" /\ q.op = "journal" /\ q.todo = found
      /\ q.line = l /\ q.copy.gross = 0 /\ q.copy.deductions = 0 /\ q.copy.net = 0
  BY <1>2, <1>6 DEF Pay!Request
<1> HIDE DEF q
<1>9. PayTakes(w, q)
  BY <1>1, <1>2, <1>7 DEF PayTakes
<1>10. \A e \in Employees \ found : line[e] = Pay!NoLine
  BY <1>3 DEF PayInv, PayLines, Pay!Entered
<1>11. \A e \in Employees \ found :
          /\ GrossOf(l)[e] = 0 /\ NetOf(l)[e] = 0 /\ DeductedOf(l)[e] = 0
  BY <1>4, <1>10 DEF GrossOf, NetOf, DeductedOf, Pay!NoLine
<1>12. /\ Behind(found, GrossOf(l)) = 0 /\ Behind(found, DeductedOf(l)) = 0
       /\ Behind(found, NetOf(l)) = 0
  <2>1. /\ GrossOf(l) \in [Employees -> Int] /\ DeductedOf(l) \in [Employees -> Int]
        /\ NetOf(l) \in [Employees -> Int]
    <3>1. \A g \in [Employees -> Nat] : g \in [Employees -> Int]
      OBVIOUS
    <3> QED BY <3>1, ColumnTypes
  <2> QED BY <2>1, <1>11, BehindNone DEF PayConstants
<1>13. CalculateHeld(q)
  BY <1>3, <1>4, <1>8, <1>11, <1>12 DEF CalculateHeld, Pay!Entered
<1>14. JournalHeld(q)
  BY <1>2, <1>8, <1>13 DEF JournalHeld
<1>15. PayPlaced(q) /\ CheckHeld(q)
  BY <1>8 DEF PayPlaced, JournalLabels, CheckLabels, CheckHeld
<1>16. UNCHANGED <<withheld, journal, line, payroll_check, pay_lagging>> /\ pay_aborts' \in Nat
  <2>1. UNCHANGED <<Pay!rows, pay_aborts>>
    BY Zenon DEF Pay!FindLines
  <2> QED BY <2>1, PayTypes DEF Pay!rows, PayInv
<1> QED BY <1>8, <1>9, <1>14, <1>15, <1>16, PayQuiet

LEMMA RowCalculated ==
    ASSUME NEW row \in Pay!Line, NEW amount \in Withholdings, PayConstants
    PROVE  /\ Pay!Calculated(row, amount) \in Pay!Line
           /\ Pay!Calculated(row, amount).there = row.there
<1>1. row.other \in Nat /\ amount \in Nat /\ Wage \in Nat
  BY DEF Pay!Line, PayConstants
<1>2. PICK net \in Int : net = Wage - amount - row.other
  BY <1>1
<1>3. Pay!Calculated(row, amount) = [row EXCEPT !.gross = Wage, !.withheld = amount, !.net = net]
  BY <1>2 DEF Pay!Calculated
<1> QED BY <1>1, <1>2, <1>3 DEF Pay!Line

\* A calculation leaves one line behind.
LEMMA CalculateLinePays ==
    ASSUME PayConstants, PayInv, NEW w \in Workers, Pay!CalculateLine(w)
    PROVE  PayInv'
<1>1. PICK r \in Pay!Request :
         /\ r = pay_req[w] /\ PayPlaced(r) /\ JournalHeld(r) /\ CheckHeld(r)
         /\ r.copy \in Pay!Journal /\ r.todo \in SUBSET Employees
         /\ r.line \in [Employees -> Pay!Line] /\ r.n \in Nat
         /\ r.op = "journal" => \A v \in Workers \ {w} : pay_req[v].op # "journal"
  BY PayRequest
<1>2. /\ r.pc = "calculate" /\ r.op = "journal" /\ journal.status \in {"draft", "calculated"}
      /\ CalculateHeld(r)
  <2>1. pay_req[w].pc = "calculate"
    BY Zenon DEF Pay!CalculateLine, Pay!At
  <2> QED BY <2>1, <1>1 DEF PayPlaced, JournalLabels, JournalHeld
<1>3. PICK e \in pay_req[w].todo :
         LET row == Pay!Calculated(pay_req[w].line[e], withheld[e]) IN
         /\ line' = [line EXCEPT ![e] = row]
         /\ pay_req' = [pay_req EXCEPT ![w].todo = @ \ {e},
                          ![w].copy = Pay!WithTotals(@, @.gross + row.gross,
                              @.deductions + row.withheld + row.other, @.net + row.net)]
  BY Zenon DEF Pay!CalculateLine
<1>4. pay_lagging' = TRUE /\ UNCHANGED <<withheld, journal, payroll_check, pay_aborts>>
  BY Zenon DEF Pay!CalculateLine
<1>5. e \in r.todo /\ e \in Employees /\ withheld[e] \in Withholdings /\ r.line[e] \in Pay!Line
      /\ line \in [Employees -> Pay!Line]
  BY <1>1, <1>3, PayTypes DEF PayInv
<1>6. PICK row \in Pay!Line : row = Pay!Calculated(r.line[e], withheld[e])
  BY <1>5, RowCalculated
<1>7. row.there
  BY <1>2, <1>5, <1>6, RowCalculated DEF CalculateHeld
<1>8. row.gross \in Nat /\ row.withheld \in Nat /\ row.other \in Nat /\ row.net \in Int
  BY DEF Pay!Line
<1>9. PICK j \in Pay!Journal : j = r.copy
  BY <1>1
<1>10. j.gross \in Nat /\ j.deductions \in Nat /\ j.net \in Int
  BY DEF Pay!Journal
<1>11. PICK c \in Pay!Journal :
          /\ c = Pay!WithTotals(j, j.gross + row.gross,
                                j.deductions + row.withheld + row.other, j.net + row.net)
          /\ c.gross = j.gross + row.gross
          /\ c.deductions = j.deductions + row.withheld + row.other
          /\ c.net = j.net + row.net
  <2>1. PICK g \in Nat : g = j.gross + row.gross
    BY <1>8, <1>10
  <2>2. PICK d \in Nat : d = j.deductions + row.withheld + row.other
    BY <1>8, <1>10
  <2>3. PICK n \in Int : n = j.net + row.net
    BY <1>8, <1>10
  <2>4. PICK c \in Pay!Journal : /\ c = Pay!WithTotals(j, g, d, n)
                                 /\ c.gross = g /\ c.deductions = d /\ c.net = n
    BY TotalsHeld
  <2> QED BY <2>1, <2>2, <2>3, <2>4
<1> DEFINE q == [r EXCEPT !.todo = @ \ {e}, !.copy = c]
<1>12. pay_req' = [pay_req EXCEPT ![w] = q]
  <2>1. pay_req' = [pay_req EXCEPT ![w].todo = @ \ {e},
                          ![w].copy = Pay!WithTotals(@, @.gross + row.gross,
                              @.deductions + row.withheld + row.other, @.net + row.net)]
    BY <1>1, <1>3, <1>6
  <2>2. r.copy = j /\ pay_req[w] = r /\ pay_req \in [Workers -> Pay!Request]
    BY <1>1, <1>9, PayTypes DEF PayInv
  <2>3. pay_req' = [pay_req EXCEPT ![w] = [r EXCEPT !.todo = @ \ {e},
                       !.copy = Pay!WithTotals(j, j.gross + row.gross,
                                j.deductions + row.withheld + row.other, j.net + row.net)]]
    BY <2>1, <2>2 DEF Pay!Request
  <2> QED BY <2>3, <1>11
<1>13. /\ q \in Pay!Request /\ q.pc = "calculate" /\ q.op = "journal" /\ q.todo = r.todo \ {e}
       /\ q.line = r.line /\ q.copy = c
  BY <1>1, <1>2 DEF Pay!Request
<1> HIDE DEF q
<1>14. PayTakes(w, q)
  BY <1>1, <1>2, <1>12 DEF PayTakes
<1>15. PICK l \in [Employees -> Pay!Line] : l = [line EXCEPT ![e] = row]
  BY <1>5
<1>16. line' = l
  BY <1>1, <1>3, <1>6, <1>15
<1>17. l[e] = row /\ \A x \in Employees \ {e} : l[x] = line[x]
  BY <1>5, <1>15
<1>18. PayTables
  BY <1>4, <1>16, PayTypes DEF PayTables, PayInv
<1>19. \A n \in DOMAIN payroll_check : ~payroll_check[n].final
  BY <1>2 DEF PayInv, PayChecks
<1>20. ChecksStay /\ LinesStay(w)
  BY <1>1, <1>2, <1>4, <1>19 DEF ChecksStay, LinesStay
<1>21. PayPlaced(q)' /\ CheckHeld(q)'
  BY <1>13 DEF PayPlaced, JournalLabels, CheckLabels, CheckHeld
<1>22. \A x \in q.todo : l[x].there /\ q.line[x] = l[x]
  BY <1>2, <1>13, <1>17, <1>1 DEF CalculateHeld
<1>24. /\ c.gross = Behind(q.todo, GrossOf(l)) /\ c.net = Behind(q.todo, NetOf(l))
       /\ c.deductions = Behind(q.todo, DeductedOf(l))
  <2>1. /\ GrossOf(l) \in [Employees -> Int] /\ NetOf(l) \in [Employees -> Int]
        /\ DeductedOf(l) \in [Employees -> Int] /\ GrossOf(line) \in [Employees -> Int]
        /\ NetOf(line) \in [Employees -> Int] /\ DeductedOf(line) \in [Employees -> Int]
    <3>1. \A g \in [Employees -> Nat] : g \in [Employees -> Int]
      OBVIOUS
    <3> QED BY <3>1, <1>5, ColumnTypes
  <2>2. /\ GrossOf(l)[e] = row.gross /\ NetOf(l)[e] = row.net
        /\ DeductedOf(l)[e] = row.withheld + row.other
    BY <1>5, <1>17 DEF GrossOf, NetOf, DeductedOf
  <2>3. \A x \in Employees \ {e} : /\ GrossOf(l)[x] = GrossOf(line)[x]
                                   /\ NetOf(l)[x] = NetOf(line)[x]
                                   /\ DeductedOf(l)[x] = DeductedOf(line)[x]
    BY <1>17 DEF GrossOf, NetOf, DeductedOf
  <2>4. Behind(r.todo \ {e}, GrossOf(l)) = Behind(r.todo, GrossOf(line)) + row.gross
    BY <1>5, <2>1, <2>2, <2>3, BehindOne DEF PayConstants
  <2>5. Behind(r.todo \ {e}, NetOf(l)) = Behind(r.todo, NetOf(line)) + row.net
    BY <1>5, <2>1, <2>2, <2>3, BehindOne DEF PayConstants
  <2>6. Behind(r.todo \ {e}, DeductedOf(l))
          = Behind(r.todo, DeductedOf(line)) + (row.withheld + row.other)
    BY <1>5, <2>1, <2>2, <2>3, BehindOne DEF PayConstants
  <2>7. /\ j.gross = Behind(r.todo, GrossOf(line)) /\ j.net = Behind(r.todo, NetOf(line))
        /\ j.deductions = Behind(r.todo, DeductedOf(line))
    BY <1>2, <1>9 DEF CalculateHeld
  <2>8. (j.deductions + row.withheld) + row.other = j.deductions + (row.withheld + row.other)
    BY <1>8, <1>10
  <2> QED BY <1>11, <1>13, <2>4, <2>5, <2>6, <2>7, <2>8
<1>25. CalculateHeld(q)'
  BY <1>13, <1>16, <1>22, <1>24 DEF CalculateHeld
<1>26. JournalHeld(q)'
  BY <1>2, <1>4, <1>13, <1>25 DEF JournalHeld
<1>27. PayLines'
  <2>1. \A x \in Employees : ~l[x].there => l[x] = Pay!NoLine
    BY <1>7, <1>17 DEF PayInv, PayLines
  <2>2. journal.status # "none"
    BY <1>2
  <2> QED BY <2>1, <2>2, <1>4, <1>16 DEF PayLines, Pay!TotalsAreLines
<1>28. PayChecks'
  BY <1>4, <1>19 DEF PayChecks, Summed, Pay!Gross, Pay!Taken, Pay!Net
<1> QED BY <1>13, <1>14, <1>18, <1>20, <1>21, <1>26, <1>27, <1>28, PayFrame

\* The totals are those of the lines when all of them are behind.
LEMMA SaveTotalsPays ==
    ASSUME PayConstants, PayInv, NEW w \in Workers, Pay!SaveTotals(w)
    PROVE  PayInv'
<1>1. PICK r \in Pay!Request :
         /\ r = pay_req[w] /\ PayPlaced(r) /\ JournalHeld(r) /\ CheckHeld(r)
         /\ r.copy \in Pay!Journal /\ r.todo \in SUBSET Employees
         /\ r.line \in [Employees -> Pay!Line] /\ r.n \in Nat
         /\ r.op = "journal" => \A v \in Workers \ {w} : pay_req[v].op # "journal"
  BY PayRequest
<1>2. /\ r.pc = "calculate" /\ r.op = "journal" /\ journal.status \in {"draft", "calculated"}
      /\ CalculateHeld(r) /\ r.todo = {}
  BY <1>1 DEF Pay!SaveTotals, Pay!At, PayPlaced, JournalLabels, JournalHeld
<1>3. PICK j \in Pay!Journal : j = r.copy
  BY <1>1
<1>4. /\ journal' = [j EXCEPT !.status = "calculated"] /\ pay_lagging' = FALSE
      /\ UNCHANGED <<withheld, line, payroll_check, pay_aborts>> /\ Pay!Finish(w)
  BY <1>1, <1>3 DEF Pay!SaveTotals
<1>5. /\ journal' \in Pay!Journal /\ journal'.status = "calculated" /\ journal'.gross = j.gross
      /\ journal'.deductions = j.deductions /\ journal'.net = j.net
  BY <1>4 DEF Pay!Journal
<1>6. PayTables
  BY <1>4, <1>5, PayTypes DEF PayTables, PayInv
<1>7. \A n \in DOMAIN payroll_check : ~payroll_check[n].final
  BY <1>2 DEF PayInv, PayChecks
<1>8. ChecksStay /\ LinesStay(w)
  BY <1>1, <1>2, <1>4 DEF ChecksStay, LinesStay
<1>9. /\ j.gross = SumOf(GrossOf(line)) /\ j.net = SumOf(NetOf(line))
      /\ j.deductions = SumOf(DeductedOf(line))
  <2>1. /\ GrossOf(line) \in [Employees -> Int] /\ NetOf(line) \in [Employees -> Int]
        /\ DeductedOf(line) \in [Employees -> Int]
    <3>1. \A g \in [Employees -> Nat] : g \in [Employees -> Int]
      OBVIOUS
    <3> QED BY <3>1, PayTypes, ColumnTypes DEF PayInv
  <2> QED BY <2>1, <1>2, <1>3, BehindAll DEF CalculateHeld
<1>11. PayLines'
  <2>1. /\ journal'.gross = Pay!Gross(line) /\ journal'.net = Pay!Net(line)
        /\ journal'.deductions = Pay!Deducted(line)
    BY <1>5, <1>9, ColumnSums
  <2>2. Pay!TotalsAreLines'
    BY <2>1, <1>4 DEF Pay!TotalsAreLines, Pay!Gross, Pay!Net, Pay!Deducted
  <2> QED BY <2>2, <1>4, <1>5 DEF PayInv, PayLines
<1>12. PayChecks'
  BY <1>4, <1>7 DEF PayChecks, Summed, Pay!Gross, Pay!Taken, Pay!Net
<1> QED BY <1>4, <1>6, <1>8, <1>11, <1>12, PayEnds, PayFrame

\* The approval saves the totals that were calculated.
LEMMA SaveApprovalPays ==
    ASSUME PayConstants, PayInv, NEW w \in Workers, Pay!SaveApproval(w)
    PROVE  PayInv'
<1>1. PICK r \in Pay!Request :
         /\ r = pay_req[w] /\ PayPlaced(r) /\ JournalHeld(r) /\ CheckHeld(r)
         /\ r.copy \in Pay!Journal /\ r.todo \in SUBSET Employees
         /\ r.line \in [Employees -> Pay!Line] /\ r.n \in Nat
         /\ r.op = "journal" => \A v \in Workers \ {w} : pay_req[v].op # "journal"
  BY PayRequest
<1>2. /\ r.pc = "approve" /\ r.op = "journal" /\ journal.status = "calculated"
      /\ r.copy = journal
  BY <1>1 DEF Pay!SaveApproval, Pay!At, PayPlaced, JournalLabels, JournalHeld
<1>3. PICK j \in Pay!Journal : j = journal
  BY <1>1, <1>2
<1>4. /\ journal' = [j EXCEPT !.status = "approved"]
      /\ UNCHANGED <<withheld, line, payroll_check, pay_lagging, pay_aborts>> /\ Pay!Finish(w)
  BY <1>1, <1>2, <1>3 DEF Pay!SaveApproval
<1>5. /\ journal' \in Pay!Journal /\ journal'.status = "approved" /\ journal'.gross = j.gross
      /\ journal'.deductions = j.deductions /\ journal'.net = j.net
  BY <1>4 DEF Pay!Journal
<1>6. PayTables
  BY <1>4, <1>5, PayTypes DEF PayTables, PayInv
<1>7. \A n \in DOMAIN payroll_check : ~payroll_check[n].final
  BY <1>2 DEF PayInv, PayChecks
<1>8. ChecksStay /\ LinesStay(w)
  BY <1>1, <1>2, <1>4 DEF ChecksStay, LinesStay
<1>9. PayLines
  BY <1>2 DEF PayInv, PayLines
<1>10. PayLines'
  <2>1. Pay!TotalsAreLines'
    BY <1>2, <1>3, <1>4, <1>5, <1>9
       DEF PayLines, Pay!TotalsAreLines, Pay!Gross, Pay!Net, Pay!Deducted
  <2> QED BY <2>1, <1>4, <1>5, <1>9 DEF PayLines
<1>11. PayChecks'
  BY <1>4, <1>7 DEF PayChecks, Summed, Pay!Gross, Pay!Taken, Pay!Net
<1> QED BY <1>4, <1>6, <1>8, <1>10, <1>11, PayEnds, PayFrame

\* A reconciliation comes, of the journal as it is.
LEMMA InsertReconciliationPays ==
    ASSUME PayConstants, PayInv, NEW w \in Workers, Pay!InsertReconciliation(w)
    PROVE  PayInv'
<1>1. PICK r \in Pay!Request :
         /\ r = pay_req[w] /\ PayPlaced(r) /\ JournalHeld(r) /\ CheckHeld(r)
         /\ r.copy \in Pay!Journal /\ r.todo \in SUBSET Employees
         /\ r.line \in [Employees -> Pay!Line] /\ r.n \in Nat
         /\ r.op = "journal" => \A v \in Workers \ {w} : pay_req[v].op # "journal"
  BY PayRequest
<1>2. r.pc = "insert_reconciliation" /\ r.op = "reconcile"
  <2>1. pay_req[w].pc = "insert_reconciliation"
    BY Zenon DEF Pay!InsertReconciliation, Pay!At
  <2> QED BY <2>1, <1>1 DEF PayPlaced, CheckLabels
<1>3. PICK k \in Nat : k = Len(payroll_check) + 1
  BY PayTypes DEF PayInv
<1>4. PICK final \in BOOLEAN : final = (journal.status = "approved")
  OBVIOUS
<1> DEFINE new == [status |-> "draft", gross |-> 0, withheld |-> 0, net |-> 0, final |-> final]
           q == [r EXCEPT !.pc = "sum_pay", !.n = k]
<1>5. /\ payroll_check' = Append(payroll_check, new)
      /\ UNCHANGED <<withheld, journal, line, pay_lagging, pay_aborts>>
  BY <1>4 DEF Pay!InsertReconciliation
<1>6. pay_req' = [pay_req EXCEPT ![w] = q]
  BY <1>1, <1>3, PayTypes DEF PayInv, Pay!InsertReconciliation
<1>7. new \in Pay!Reconciliation /\ new.status = "draft" /\ new.final = final
  BY DEF Pay!Reconciliation
<1>8. q \in Pay!Request /\ q.pc = "sum_pay" /\ q.op = "reconcile" /\ q.n = k
  BY <1>2 DEF Pay!Request
<1> HIDE DEF q, new
<1>9. /\ payroll_check' \in Seq(Pay!Reconciliation) /\ DOMAIN payroll_check' = 1..k
      /\ DOMAIN payroll_check = 1..k - 1 /\ payroll_check'[k] = new
      /\ \A n \in DOMAIN payroll_check : payroll_check'[n] = payroll_check[n]
  <2>1. payroll_check \in Seq(Pay!Reconciliation)
    BY PayTypes DEF PayInv
  <2> QED BY <2>1, <1>3, <1>5, <1>7, AppendProperties
<1>10. PayTakes(w, q)
  BY <1>6, <1>8 DEF PayTakes
<1>11. PayTables
  BY <1>5, <1>9, PayTypes DEF PayTables, PayInv
<1>12. ChecksStay /\ LinesStay(w)
  BY <1>3, <1>5, <1>9 DEF ChecksStay, LinesStay
<1>13. PayPlaced(q)'
  <2>1. k \in DOMAIN payroll_check'
    <3>1. k \in 1..k
      BY <1>3, PayTypes DEF PayInv
    <3> QED BY <3>1, <1>9
  <2> QED BY <2>1, <1>8 DEF PayPlaced, CheckLabels, JournalLabels
<1>14. JournalHeld(q)' /\ CheckHeld(q)'
  BY <1>8 DEF JournalHeld, CheckHeld
<1>15. PayLines'
  BY <1>5 DEF PayInv, PayLines, Pay!TotalsAreLines, Pay!Gross, Pay!Net, Pay!Deducted
<1>16. PayChecks'
  <2>1. ASSUME NEW n \in DOMAIN payroll_check'
        PROVE  /\ payroll_check'[n].final => journal'.status = "approved"
               /\ payroll_check'[n].final /\ payroll_check'[n].status # "draft" =>
                     Summed(payroll_check'[n])
    <3>1. CASE n = k
      BY <3>1, <1>4, <1>5, <1>7, <1>9
    <3>2. CASE n # k
      <4>1. n \in DOMAIN payroll_check
        BY <3>2, <1>3, <1>9
      <4>2. payroll_check'[n] = payroll_check[n] /\ PayChecks
        BY <4>1, <1>9 DEF PayInv
      <4> QED BY <4>1, <4>2, <1>5 DEF PayChecks, Summed, Pay!Gross, Pay!Taken, Pay!Net
    <3> QED BY <3>1, <3>2
  <2>2. \A n \in DOMAIN payroll_check' : Summed(payroll_check[n])' <=> Summed(payroll_check'[n])
    BY <1>5 DEF Summed, Pay!Gross, Pay!Taken, Pay!Net
  <2> QED BY <2>1, <2>2 DEF PayChecks
<1> QED BY <1>8, <1>10, <1>11, <1>12, <1>13, <1>14, <1>15, <1>16, PayFrame

LEMMA SumPayPays ==
    ASSUME PayConstants, PayInv, NEW w \in Workers, Pay!SumPay(w)
    PROVE  PayInv'
<1>1. PICK r \in Pay!Request :
         /\ r = pay_req[w] /\ PayPlaced(r) /\ JournalHeld(r) /\ CheckHeld(r)
         /\ r.copy \in Pay!Journal /\ r.todo \in SUBSET Employees
         /\ r.line \in [Employees -> Pay!Line] /\ r.n \in Nat
         /\ r.op = "journal" => \A v \in Workers \ {w} : pay_req[v].op # "journal"
  BY PayRequest
<1>2. r.pc = "sum_pay" /\ r.op = "reconcile" /\ r.n \in DOMAIN payroll_check
  <2>1. pay_req[w].pc = "sum_pay"
    BY Zenon DEF Pay!SumPay, Pay!At
  <2> QED BY <2>1, <1>1 DEF PayPlaced, CheckLabels
<1>3. PICK j \in Pay!Journal : j = r.copy
  BY <1>1
<1>4. PICK a \in Nat : a = j.deductions
  BY DEF Pay!Journal
<1>5. PICK g \in Nat : g = Pay!Gross(line) /\ g = SumOf(GrossOf(line))
  BY PayTypes, ColumnTypes, ColumnSums, SumType DEF PayInv, PayConstants
<1>6. PICK n \in Int : n = Pay!Net(line) /\ n = SumOf(NetOf(line))
  BY PayTypes, ColumnTypes, ColumnSums, SumIsInteger DEF PayInv, PayConstants
<1>7. PICK c \in Pay!Journal : /\ c = Pay!WithTotals(j, g, a, n)
                               /\ c.gross = g /\ c.net = n
  BY TotalsHeld
<1> DEFINE q == [r EXCEPT !.pc = "sum_taxes", !.copy = c]
<1>8. pay_req' = [pay_req EXCEPT ![w] = q]
  <2>1. pay_req' = [pay_req EXCEPT ![w].pc = "sum_taxes",
                       ![w].copy = Pay!WithTotals(@, Pay!Gross(line), @.deductions, Pay!Net(line))]
    BY Zenon DEF Pay!SumPay
  <2>2. pay_req' = [pay_req EXCEPT ![w].pc = "sum_taxes",
                       ![w].copy = Pay!WithTotals(@, g, @.deductions, n)]
    BY <2>1, <1>5, <1>6
  <2>3. r.copy = j /\ pay_req[w] = r /\ pay_req \in [Workers -> Pay!Request]
    BY <1>1, <1>3, PayTypes DEF PayInv
  <2>4. pay_req' = [pay_req EXCEPT ![w] = [r EXCEPT !.pc = "sum_taxes",
                       !.copy = Pay!WithTotals(j, g, j.deductions, n)]]
    BY <2>2, <2>3 DEF Pay!Request
  <2> QED BY <2>4, <1>4, <1>7
<1>9. /\ q \in Pay!Request /\ q.pc = "sum_taxes" /\ q.op = "reconcile" /\ q.n = r.n
      /\ q.copy = c
  BY <1>2 DEF Pay!Request
<1> HIDE DEF q
<1>10. PayTakes(w, q)
  BY <1>8, <1>9 DEF PayTakes
<1>11. PayPlaced(q) /\ JournalHeld(q)
  BY <1>2, <1>9 DEF PayPlaced, JournalLabels, CheckLabels, JournalHeld
<1>12. CheckHeld(q)
  BY <1>5, <1>6, <1>7, <1>9 DEF CheckHeld
<1>13. UNCHANGED <<withheld, journal, line, payroll_check, pay_lagging>> /\ pay_aborts' \in Nat
  <2>1. UNCHANGED <<Pay!rows, pay_aborts>>
    BY Zenon DEF Pay!SumPay
  <2> QED BY <2>1, PayTypes DEF Pay!rows, PayInv
<1> QED BY <1>9, <1>10, <1>11, <1>12, <1>13, PayQuiet

LEMMA SumTaxesPays ==
    ASSUME PayConstants, PayInv, NEW w \in Workers, Pay!SumTaxes(w)
    PROVE  PayInv'
<1>1. PICK r \in Pay!Request :
         /\ r = pay_req[w] /\ PayPlaced(r) /\ JournalHeld(r) /\ CheckHeld(r)
         /\ r.copy \in Pay!Journal /\ r.todo \in SUBSET Employees
         /\ r.line \in [Employees -> Pay!Line] /\ r.n \in Nat
         /\ r.op = "journal" => \A v \in Workers \ {w} : pay_req[v].op # "journal"
  BY PayRequest
<1>2. r.pc = "sum_taxes" /\ r.op = "reconcile" /\ r.n \in DOMAIN payroll_check
  <2>1. pay_req[w].pc = "sum_taxes"
    BY Zenon DEF Pay!SumTaxes, Pay!At
  <2> QED BY <2>1, <1>1 DEF PayPlaced, CheckLabels
<1>3. PICK j \in Pay!Journal : j = r.copy
  BY <1>1
<1>4. PICK a \in Nat : a = j.gross
  BY DEF Pay!Journal
<1>b. PICK b \in Int : b = j.net
  BY DEF Pay!Journal
<1>5. PICK d \in Nat : d = Pay!Taken(line) /\ d = SumOf(TakenOf(line))
  BY PayTypes, ColumnTypes, ColumnSums, SumType DEF PayInv, PayConstants
<1>6. PICK c \in Pay!Journal : /\ c = Pay!WithTotals(j, a, d, b)
                               /\ c.gross = a /\ c.deductions = d /\ c.net = b
  BY TotalsHeld
<1> DEFINE q == [r EXCEPT !.pc = "save_reconciliation", !.copy = c]
<1>7. pay_req' = [pay_req EXCEPT ![w] = q]
  <2>1. pay_req' = [pay_req EXCEPT ![w].pc = "save_reconciliation",
                       ![w].copy = Pay!WithTotals(@, @.gross, Pay!Taken(line), @.net)]
    BY Zenon DEF Pay!SumTaxes
  <2>2. pay_req' = [pay_req EXCEPT ![w].pc = "save_reconciliation",
                       ![w].copy = Pay!WithTotals(@, @.gross, d, @.net)]
    BY <2>1, <1>5
  <2>3. r.copy = j /\ pay_req[w] = r /\ pay_req \in [Workers -> Pay!Request]
    BY <1>1, <1>3, PayTypes DEF PayInv
  <2>4. pay_req' = [pay_req EXCEPT ![w] = [r EXCEPT !.pc = "save_reconciliation",
                       !.copy = Pay!WithTotals(j, j.gross, d, j.net)]]
    BY <2>2, <2>3 DEF Pay!Request
  <2> QED BY <2>4, <1>4, <1>b, <1>6
<1>8. /\ q \in Pay!Request /\ q.pc = "save_reconciliation" /\ q.op = "reconcile" /\ q.n = r.n
      /\ q.copy = c
  BY <1>2 DEF Pay!Request
<1> HIDE DEF q
<1>9. PayTakes(w, q)
  BY <1>7, <1>8 DEF PayTakes
<1>10. PayPlaced(q) /\ JournalHeld(q)
  BY <1>2, <1>8 DEF PayPlaced, JournalLabels, CheckLabels, JournalHeld
<1>11. CheckHeld(q)
  BY <1>1, <1>2, <1>3, <1>4, <1>b, <1>5, <1>6, <1>8 DEF CheckHeld
<1>12. UNCHANGED <<withheld, journal, line, payroll_check, pay_lagging>> /\ pay_aborts' \in Nat
  <2>1. UNCHANGED <<Pay!rows, pay_aborts>>
    BY Zenon DEF Pay!SumTaxes
  <2> QED BY <2>1, PayTypes DEF Pay!rows, PayInv
<1> QED BY <1>8, <1>9, <1>10, <1>11, <1>12, PayQuiet

\* What a reconciliation of an approved journal has summed is what its lines say.
LEMMA SaveReconciliationPays ==
    ASSUME PayConstants, PayInv, NEW w \in Workers, Pay!SaveReconciliation(w)
    PROVE  PayInv'
<1>1. PICK r \in Pay!Request :
         /\ r = pay_req[w] /\ PayPlaced(r) /\ JournalHeld(r) /\ CheckHeld(r)
         /\ r.copy \in Pay!Journal /\ r.todo \in SUBSET Employees
         /\ r.line \in [Employees -> Pay!Line] /\ r.n \in Nat
         /\ r.op = "journal" => \A v \in Workers \ {w} : pay_req[v].op # "journal"
  BY PayRequest
<1>2. r.pc = "save_reconciliation" /\ r.op = "reconcile" /\ r.n \in DOMAIN payroll_check
  <2>1. pay_req[w].pc = "save_reconciliation"
    BY Zenon DEF Pay!SaveReconciliation, Pay!At
  <2> QED BY <2>1, <1>1 DEF PayPlaced, CheckLabels
<1>3. PICK j \in Pay!Journal : j = r.copy
  BY <1>1
<1>4. j.gross \in Nat /\ j.deductions \in Nat /\ j.net \in Int
  BY DEF Pay!Journal
<1>5. PICK g \in Nat : g = j.gross
  BY <1>4
<1>6. PICK d \in Nat : d = j.deductions
  BY <1>4
<1>7. PICK n \in Int : n = j.net
  BY <1>4
<1>8. PICK s \in {"reconciled", "exception"} :
         s = IF n = g - d THEN "reconciled" ELSE "exception"
  OBVIOUS
<1>9. PICK old \in Pay!Reconciliation : old = payroll_check[r.n]
  <2>1. payroll_check \in Seq(Pay!Reconciliation)
    BY PayTypes DEF PayInv
  <2> QED BY <2>1, <1>2, ElementOfSeq
<1> DEFINE new == [old EXCEPT !.gross = g, !.withheld = d, !.net = n, !.status = s]
<1>10. payroll_check' = [payroll_check EXCEPT ![r.n] = new]
  <2>1. payroll_check' = [payroll_check EXCEPT ![r.n] =
              [@ EXCEPT !.gross = j.gross, !.withheld = j.deductions, !.net = j.net,
                        !.status = IF j.net = j.gross - j.deductions
                                   THEN "reconciled" ELSE "exception"]]
    BY <1>1, <1>3 DEF Pay!SaveReconciliation
  <2> QED BY <2>1, <1>2, <1>5, <1>6, <1>7, <1>8, <1>9
<1>11. UNCHANGED <<withheld, journal, line, pay_lagging, pay_aborts>> /\ Pay!Finish(w)
  BY DEF Pay!SaveReconciliation
<1>12. /\ new \in Pay!Reconciliation /\ new.status = s /\ new.final = old.final
       /\ new.gross = g /\ new.withheld = d /\ new.net = n
  BY DEF Pay!Reconciliation
<1> HIDE DEF new
<1>13. /\ payroll_check' \in Seq(Pay!Reconciliation)
       /\ DOMAIN payroll_check' = DOMAIN payroll_check /\ payroll_check'[r.n] = new
       /\ \A i \in DOMAIN payroll_check : i # r.n => payroll_check'[i] = payroll_check[i]
  <2>1. payroll_check \in Seq(Pay!Reconciliation)
    BY PayTypes DEF PayInv
  <2>2. payroll_check' \in Seq(Pay!Reconciliation)
    BY <2>1, <1>2, <1>10, <1>12, ExceptSeq
  <2> QED BY <2>2, <1>2, <1>10
<1>14. PayTables
  BY <1>11, <1>13, PayTypes DEF PayTables, PayInv
<1>15. ChecksStay /\ LinesStay(w)
  BY <1>9, <1>11, <1>12, <1>13 DEF ChecksStay, LinesStay
<1>16. PayLines'
  BY <1>11 DEF PayInv, PayLines, Pay!TotalsAreLines, Pay!Gross, Pay!Net, Pay!Deducted
<1>17. ASSUME old.final
       PROVE  g = Pay!Gross(line) /\ d = Pay!Taken(line) /\ n = Pay!Net(line)
  <2>1. g = SumOf(GrossOf(line)) /\ n = SumOf(NetOf(line)) /\ d = SumOf(TakenOf(line))
    BY <1>1, <1>2, <1>3, <1>5, <1>6, <1>7, <1>9, <1>17 DEF CheckHeld
  <2> QED BY <2>1, ColumnSums
<1>18. PayChecks'
  <2>1. ASSUME NEW i \in DOMAIN payroll_check'
        PROVE  /\ payroll_check'[i].final => journal'.status = "approved"
               /\ payroll_check'[i].final /\ payroll_check'[i].status # "draft" =>
                     Summed(payroll_check'[i])
    <3>1. PayChecks /\ i \in DOMAIN payroll_check
      BY <1>13 DEF PayInv
    <3>2. CASE i = r.n
      <4>1. payroll_check'[i] = new /\ payroll_check[i] = old
        BY <3>2, <1>9, <1>13
      <4>2. old.final => journal.status = "approved"
        BY <3>1, <4>1 DEF PayChecks
      <4> QED BY <4>1, <4>2, <1>11, <1>12, <1>17 DEF Summed
    <3>3. CASE i # r.n
      <4>1. payroll_check'[i] = payroll_check[i]
        BY <3>1, <3>3, <1>13
      <4> QED BY <3>1, <4>1, <1>11 DEF PayChecks, Summed, Pay!Gross, Pay!Taken, Pay!Net
    <3> QED BY <3>2, <3>3
  <2>2. \A i \in DOMAIN payroll_check' : Summed(payroll_check[i])' <=> Summed(payroll_check'[i])
    BY <1>11 DEF Summed, Pay!Gross, Pay!Taken, Pay!Net
  <2> QED BY <2>1, <2>2 DEF PayChecks
<1> QED BY <1>11, <1>14, <1>15, <1>16, <1>18, PayEnds, PayFrame

LEMMA PayInit ==
    ASSUME PayConstants, Pay!Init
    PROVE  PayInv
<1>1. /\ withheld \in [Employees -> Withholdings] /\ journal = [Pay!Draft EXCEPT !.status = "none"]
      /\ line = [e \in Employees |-> Pay!NoLine] /\ payroll_check = <<>>
      /\ pay_lagging = FALSE /\ pay_req = [w \in Workers |-> Pay!Idle] /\ pay_aborts = 0
  BY DEF Pay!Init
<1>2. journal \in Pay!Journal /\ journal.status = "none"
  <2>1. journal = [status |-> "none", gross |-> 0, deductions |-> 0, net |-> 0]
    BY <1>1 DEF Pay!Draft, Pay!WithTotals
  <2> QED BY <2>1 DEF Pay!Journal
<1>3. \A w \in Workers : pay_req[w].pc = "idle" /\ pay_req[w].op = "none"
  <2>1. pay_req = [w \in Workers |-> Pay!Idle]
    BY <1>1
  <2>2. PICK q \in Pay!Request : q = Pay!Idle /\ q.pc = "idle" /\ q.op = "none"
    BY PayIdle
  <2>3. pay_req = [w \in Workers |-> q]
    BY <2>1, <2>2, Zenon
  <2> QED BY <2>2, <2>3
<1>4. PayTypeInv
  <2>1. Pay!TypeOK
    <3>1. line \in [Employees -> Pay!Line] /\ pay_req \in [Workers -> Pay!Request]
      BY PayIdle DEF Pay!Init
    <3>2. payroll_check \in Seq(Pay!Reconciliation)
      BY EmptySeq DEF Pay!Init
    <3>3. withheld \in [Employees -> Withholdings] /\ pay_lagging \in BOOLEAN /\ pay_aborts \in Nat
      BY DEF Pay!Init
    <3> QED BY <3>1, <3>2, <3>3, <1>2 DEF Pay!TypeOK
  <2>2. \A w \in Workers : PayPlaced(pay_req[w])
    <3>1. ASSUME NEW w \in Workers PROVE PayPlaced(pay_req[w])
      BY <1>3 DEF PayPlaced, JournalLabels, CheckLabels
    <3> QED BY <3>1
  <2> QED BY <2>1, <2>2 DEF PayTypeInv
<1>5. PayApart
  BY <1>3 DEF PayApart
<1>6. PayHeld
  <2>1. ASSUME NEW w \in Workers PROVE JournalHeld(pay_req[w]) /\ CheckHeld(pay_req[w])
    BY <1>3 DEF JournalHeld, CheckHeld
  <2> QED BY <2>1 DEF PayHeld
<1>7. \A e \in Employees : line[e] = Pay!NoLine /\ ~line[e].there
  BY <1>1 DEF Pay!NoLine
<1>8. PayLines
  BY <1>2, <1>7 DEF PayLines, Pay!TotalsAreLines
<1>9. PayChecks
  BY <1>1 DEF PayChecks, Summed, Pay!Gross, Pay!Taken, Pay!Net
<1> QED BY <1>4, <1>5, <1>6, <1>8, <1>9 DEF PayInv

\* The steps that change nothing but what a worker holds, and the withholdings.
LEMMA PayIdles ==
    ASSUME PayInv, NEW w \in Workers,
           Pay!EndLines(w) \/ Pay!FailToPost(w) \/ Pay!Crash(w)
    PROVE  PayInv'
<1>1. /\ Pay!Finish(w) /\ pay_aborts' \in Nat
      /\ UNCHANGED <<withheld, journal, line, payroll_check, pay_lagging>>
  BY PayTypes DEF Pay!EndLines, Pay!FailToPost, Pay!Crash, Pay!rows, PayInv
<1> QED BY <1>1, PayEnds, PayQuiet

LEMMA ChangeWithheldPays ==
    ASSUME PayInv, Pay!ChangeWithheld
    PROVE  PayInv'
<1>1. /\ withheld' \in [Employees -> Withholdings]
      /\ UNCHANGED <<journal, line, payroll_check, pay_lagging, pay_req, pay_aborts>>
  BY PayTypes DEF Pay!ChangeWithheld, PayInv
<1>2. PayTypeInv'
  <2>1. Pay!TypeOK'
    BY <1>1 DEF PayInv, PayTypeInv, Pay!TypeOK
  <2>2. \A w \in Workers : PayPlaced(pay_req[w])'
    BY <1>1 DEF PayInv, PayTypeInv, PayPlaced
  <2> QED BY <2>1, <2>2 DEF PayTypeInv
<1>3. PayApart'
  BY <1>1 DEF PayInv, PayApart
<1>4. PayHeld'
  BY <1>1 DEF PayInv, PayHeld, JournalHeld, CalculateHeld, CheckHeld
<1>5. PayLines'
  BY <1>1 DEF PayInv, PayLines, Pay!TotalsAreLines, Pay!Gross, Pay!Net, Pay!Deducted
<1>6. PayChecks'
  BY <1>1 DEF PayInv, PayChecks, Summed, Pay!Gross, Pay!Taken, Pay!Net
<1> QED BY <1>2, <1>3, <1>4, <1>5, <1>6 DEF PayInv

LEMMA PayStutter ==
    ASSUME PayInv, UNCHANGED Pay!vars
    PROVE  PayInv'
<1>1. UNCHANGED <<withheld, journal, line, payroll_check, pay_lagging, pay_req, pay_aborts>>
  BY DEF Pay!vars, Pay!rows
<1>2. PayTypeInv'
  <2>1. Pay!TypeOK'
    BY <1>1 DEF PayInv, PayTypeInv, Pay!TypeOK
  <2>2. \A w \in Workers : PayPlaced(pay_req[w])'
    BY <1>1 DEF PayInv, PayTypeInv, PayPlaced
  <2> QED BY <2>1, <2>2 DEF PayTypeInv
<1>3. PayApart'
  BY <1>1 DEF PayInv, PayApart
<1>4. PayHeld'
  BY <1>1 DEF PayInv, PayHeld, JournalHeld, CalculateHeld, CheckHeld
<1>5. PayLines'
  BY <1>1 DEF PayInv, PayLines, Pay!TotalsAreLines, Pay!Gross, Pay!Net, Pay!Deducted
<1>6. PayChecks'
  BY <1>1 DEF PayInv, PayChecks, Summed, Pay!Gross, Pay!Taken, Pay!Net
<1> QED BY <1>2, <1>3, <1>4, <1>5, <1>6 DEF PayInv

\* One case for each disjunct of Next.
LEMMA PayStep ==
    ASSUME PayConstants, PayInv, Pay!Next
    PROVE  PayInv'
<1>1. CASE Pay!ChangeWithheld
  BY <1>1, ChangeWithheldPays
<1>2. ASSUME NEW w \in Workers, Pay!CreateJournal(w) PROVE PayInv'
  BY <1>2, PayBegins DEF Pay!CreateJournal
<1>3. ASSUME NEW w \in Workers, Pay!CalculateJournal(w) PROVE PayInv'
  BY <1>3, PayBegins DEF Pay!CalculateJournal
<1>4. ASSUME NEW w \in Workers, Pay!ApproveJournal(w) PROVE PayInv'
  BY <1>4, PayBegins DEF Pay!ApproveJournal
<1>5. ASSUME NEW w \in Workers, Pay!PostJournal(w) PROVE PayInv'
  BY <1>5, PayBegins DEF Pay!PostJournal
<1>6. ASSUME NEW w \in Workers, Pay!Reconcile(w) PROVE PayInv'
  BY <1>6, PayBegins DEF Pay!Reconcile
<1>7. ASSUME NEW w \in Workers, Pay!Continue(w) PROVE PayInv'
  BY <1>7, InsertJournalPays, InsertLinePays, PayIdles, FindLinesPays, CalculateLinePays,
     SaveTotalsPays, SaveApprovalPays, InsertReconciliationPays, SumPayPays, SumTaxesPays,
     SaveReconciliationPays DEF Pay!Continue
<1>8. ASSUME NEW w \in Workers, Pay!Crash(w) PROVE PayInv'
  BY <1>8, PayIdles
<1> QED BY <1>1, <1>2, <1>3, <1>4, <1>5, <1>6, <1>7, <1>8 DEF Pay!Next

\* A payroll journal adds up however often it is calculated while what is withheld
\* changes: what a calculation that died has left, the next one that ends puts right.  What
\* was reconciled once the journal was approved are the sums of its lines, which nothing
\* changes any more (calculate_payroll_journal, journal_approve and perform_reconciliation).
THEOREM PayrollsAddUp ==
    ASSUME PayConstants
    PROVE  Operations => []PayrollAddsUp
<1>1. PayInv /\ [Pay!Next]_(Pay!vars) => PayInv'
  BY PayStep, PayStutter
<1>2. Pay!Init => PayInv
  BY PayInit
<1>3. Pay!Spec => []PayInv
  BY <1>1, <1>2, PTL DEF Pay!Spec
<1>4. PayInv => PayrollAddsUp
  BY DEF PayrollAddsUp, Pay!PayrollAddsUp, Pay!ReconciliationIsLines, PayInv, PayLines, PayChecks,
         Summed
<1> QED BY <1>3, <1>4, PayBehaves, PTL

-----------------------------------------------------------------------------
(* Projects: revenue.  A record that is not behind has been computed from what the *)
(* posted records say now, in the table or in the request that is about to save    *)
(* it; posting one by percentage leaves all the others behind.                     *)


LEMMA SameRevenueSum == \A g : Revenue!SumOf(g) = SumOf(g)
  BY DEF Revenue!SumOf, Revenue!MapThenSumSet, Revenue!MapThenFoldSet,
     SumOf, MapThenSumSet, MapThenFoldSet

\* What the constants of project costing are.
ProjectConstants ==
    /\ IsFiniteSet(RevenueRecords) /\ "none" \notin RevenueRecords
    /\ ContractAmounts \subseteq Nat /\ ContractAmounts # {}
    /\ "none" \notin ProjectInvoices /\ MaxLines \in Nat

\* What the posted records have recognized, in a table of records.
PostedIn(f) == {r \in RevenueRecords : f[r].status = "posted"}
SumIn(f, rs) == SumOf([r \in rs |-> f[r].recognized])
TotalIn(f) == SumIn(f, PostedIn(f))

RevenuePlaced(q) ==
    /\ q.pc \in {"idle", "prior", "calculate", "post"}
    /\ q.pc = "idle" <=> q.d = "none"
    /\ q.pc # "idle" => q.d \in RevenueRecords

RevenueTypeInv == Revenue!TypeOK /\ \A w \in Workers : RevenuePlaced(pj_req[w])

\* Two requests are never on one document.
ProjectsApart == \A v, w \in Workers : v # w /\ pj_req[v].pc # "idle" => pj_req[w].d # pj_req[v].d

\* What a record has recognized completes the sum of the posted ones to its percentage.
Completes(row, sum) == row.by_percentage => row.recognized = row.cumulative - sum
Plain(row) == ~row.by_percentage => row.recognized = 0

\* What a request on a record holds.
RevenueHeld(q) ==
    q.pc # "idle" =>
        /\ Plain(q.copy) /\ q.copy.status = "draft" /\ revenue[q.d].status # "posted"
        /\ q.pc = "calculate" /\ q.d \notin behind => Completes(q.copy, TotalIn(revenue))
        /\ q.pc = "post" => q.copy = revenue[q.d]

\* What the row of a record says, unless a request is about to save a new calculation.
RowStands(r) ==
    /\ Plain(revenue[r])
    /\ revenue[r].status = "draft" /\ r \notin behind =>
          \/ Completes(revenue[r], TotalIn(revenue))
          \/ \E w \in Workers : pj_req[w].d = r /\ pj_req[w].pc = "calculate"

RevenueSums == ~hasty => TotalIn(revenue) = last

RevenueInv ==
    /\ RevenueTypeInv /\ ProjectsApart
    /\ \A w \in Workers : RevenueHeld(pj_req[w])
    /\ \A r \in RevenueRecords : RowStands(r)
    /\ RevenueSums

-----------------------------------------------------------------------------
(* What a step leaves alone. *)

LEMMA RecognizedIsTotal ==
    /\ Revenue!Posted = PostedIn(revenue)
    /\ \A rs : Revenue!Recognized(rs) = SumIn(revenue, rs)
    /\ Revenue!Recognized(Revenue!Posted) = TotalIn(revenue)
<1>1. Revenue!Posted = PostedIn(revenue)
  BY DEF Revenue!Posted, PostedIn
<1>2. ASSUME NEW rs PROVE Revenue!Recognized(rs) = SumIn(revenue, rs)
  BY SameRevenueSum, Zenon DEF Revenue!Recognized, SumIn
<1> QED BY <1>1, <1>2 DEF TotalIn

LEMMA RecordFields ==
    ASSUME NEW row \in Revenue!Record
    PROVE  /\ row.recognized \in Int /\ row.cumulative \in Int /\ row.prior \in Int
           /\ row.percentage \in 0..2 /\ row.by_percentage \in BOOLEAN
           /\ row.status \in {"none", "draft", "posted"}
  BY DEF Revenue!Record, Revenue!None

LEMMA SumInType ==
    ASSUME ProjectConstants, NEW f \in [RevenueRecords -> Revenue!Record],
           NEW rs \in SUBSET RevenueRecords
    PROVE  SumIn(f, rs) \in Int /\ IsFiniteSet(rs)
<1>1. IsFiniteSet(rs)
  BY FS_Subset DEF ProjectConstants
<1>2. [r \in rs |-> f[r].recognized] \in [rs -> Int]
  BY RecordFields
<1> QED BY <1>1, <1>2, SumIsInteger DEF SumIn

LEMMA TotalInType ==
    ASSUME ProjectConstants, NEW f \in [RevenueRecords -> Revenue!Record]
    PROVE  TotalIn(f) \in Int
<1>1. PostedIn(f) \in SUBSET RevenueRecords
  BY DEF PostedIn
<1> QED BY <1>1, SumInType DEF TotalIn

\* A change of a record that is not posted, and does not become so, leaves the sum alone.
LEMMA TotalStays ==
    ASSUME NEW f \in [RevenueRecords -> Revenue!Record],
           NEW g \in [RevenueRecords -> Revenue!Record], NEW d,
           \A r \in RevenueRecords : r # d => g[r] = f[r],
           d \in RevenueRecords => f[d].status # "posted" /\ g[d].status # "posted"
    PROVE  TotalIn(g) = TotalIn(f)
<1>1. PostedIn(g) = PostedIn(f)
  BY DEF PostedIn
<1>2. [r \in PostedIn(f) |-> g[r].recognized] = [r \in PostedIn(f) |-> f[r].recognized]
  BY DEF PostedIn
<1> QED BY <1>1, <1>2, Zenon DEF TotalIn, SumIn

\* Posting a record adds what it recognizes.
LEMMA TotalGrows ==
    ASSUME ProjectConstants, NEW f \in [RevenueRecords -> Revenue!Record],
           NEW g \in [RevenueRecords -> Revenue!Record], NEW d \in RevenueRecords,
           \A r \in RevenueRecords : r # d => g[r] = f[r],
           f[d].status # "posted", g[d].status = "posted"
    PROVE  TotalIn(g) = TotalIn(f) + g[d].recognized
<1> DEFINE S == PostedIn(g)
           h == [r \in S |-> g[r].recognized]
<1>1. d \in S /\ S \ {d} = PostedIn(f) /\ S \in SUBSET RevenueRecords
  BY DEF PostedIn
<1>2. h \in [S -> Int] /\ h[d] = g[d].recognized /\ IsFiniteSet(S)
  BY <1>1, RecordFields, SumInType
<1>3. SumOf(h) = SumOf([r \in S \ {d} |-> h[r]]) + h[d]
  BY <1>1, <1>2, SumOfRest
<1>4. [r \in S \ {d} |-> h[r]] = [r \in PostedIn(f) |-> f[r].recognized]
  BY <1>1 DEF PostedIn
<1>5. SumOf([r \in S \ {d} |-> h[r]]) = TotalIn(f)
  BY <1>4 DEF TotalIn, SumIn
<1>6. SumOf(h) = TotalIn(g)
  BY DEF TotalIn, SumIn
<1> QED BY <1>2, <1>3, <1>5, <1>6

LEMMA RevenueTypes ==
    ASSUME RevenueTypeInv
    PROVE  /\ contract \in ContractAmounts /\ retention \in BOOLEAN
           /\ revenue \in [RevenueRecords -> Revenue!Record]
           /\ last \in Int /\ behind \in SUBSET RevenueRecords /\ hasty \in BOOLEAN
           /\ pj_aborts \in Nat /\ pj_req \in [Workers -> Revenue!Request]
  BY DEF RevenueTypeInv, Revenue!TypeOK

LEMMA RevenueIdle ==
    ASSUME ProjectConstants
    PROVE  /\ Revenue!Idle \in Revenue!Request /\ Revenue!NoRecord \in Revenue!Record
           /\ Revenue!Idle.pc = "idle" /\ Revenue!Idle.d = "none"
<1>1. Revenue!NoRecord \in Revenue!Record
  BY DEF Revenue!NoRecord, Revenue!Record, Revenue!None
<1>2. Revenue!NoInvoice \in Revenue!Invoice
  BY DEF Revenue!NoInvoice, Revenue!Invoice, Revenue!None, ProjectConstants
<1>3. (CHOOSE c \in ContractAmounts : TRUE) \in ContractAmounts
  BY DEF ProjectConstants
<1> QED BY <1>1, <1>2, <1>3 DEF Revenue!Idle, Revenue!Request, Revenue!None

\* The request of a worker, with what the invariant says of it.
LEMMA RevenueRequest ==
    ASSUME RevenueInv, NEW w \in Workers
    PROVE  \E r \in Revenue!Request :
              /\ r = pj_req[w] /\ RevenuePlaced(r) /\ RevenueHeld(r)
              /\ r.copy \in Revenue!Record /\ r.contract \in ContractAmounts
              /\ r.pc # "idle" => \A v \in Workers \ {w} : pj_req[v].d # r.d
<1>1. PICK r \in Revenue!Request : r = pj_req[w]
  BY RevenueTypes DEF RevenueInv
<1>2. RevenuePlaced(r) /\ RevenueHeld(r)
  BY <1>1 DEF RevenueInv, RevenueTypeInv
<1>3. r.copy \in Revenue!Record /\ r.contract \in ContractAmounts
  BY DEF Revenue!Request
<1>4. ASSUME r.pc # "idle", NEW v \in Workers \ {w} PROVE pj_req[v].d # r.d
  BY <1>1, <1>4 DEF RevenueInv, ProjectsApart
<1> QED BY <1>1, <1>2, <1>3, <1>4

\* The tables after a step.
RevenueTables ==
    /\ contract' \in ContractAmounts /\ retention' \in BOOLEAN
    /\ revenue' \in [RevenueRecords -> Revenue!Record]
    /\ last' \in Int /\ behind' \subseteq RevenueRecords /\ hasty' \in BOOLEAN
    /\ pj_aborts' \in Nat /\ UNCHANGED <<invoice, pj_lagging>>

\* Which requests a step of one worker may leave behind it.
TakesUp(w, q) ==
    /\ pj_req' = [pj_req EXCEPT ![w] = q]
    /\ q.pc # "idle" => \A v \in Workers \ {w} : pj_req[v].d # q.d

\* A step changes the row of one record at most, and leaves the others behind if it
\* changes what the posted ones add up to.
OnlyRecord(d) ==
    /\ \A r \in RevenueRecords \ {d} : revenue'[r] = revenue[r]
    /\ \A r \in RevenueRecords \ {d} :
          revenue[r].status # "posted" /\ r \notin behind' =>
              r \notin behind /\ TotalIn(revenue') = TotalIn(revenue)

\* What the row of the record that a request was on says after its step.
OwnRow(d, q) ==
    d # "none" =>
        /\ Plain(revenue'[d])
        /\ revenue'[d].status = "draft" /\ d \notin behind' =>
              \/ Completes(revenue'[d], TotalIn(revenue'))
              \/ q.d = d /\ q.pc = "calculate"

LEMMA RevenueFrame ==
    ASSUME ProjectConstants, RevenueInv, NEW w \in Workers, NEW q \in Revenue!Request, NEW d,
           d = pj_req[w].d, TakesUp(w, q), RevenueTables, RevenuePlaced(q), OnlyRecord(d),
           OwnRow(d, q), RevenueHeld(q)', RevenueSums'
    PROVE  RevenueInv'
<1>1. /\ pj_req' \in [Workers -> Revenue!Request] /\ pj_req'[w] = q
      /\ \A v \in Workers \ {w} : pj_req'[v] = pj_req[v]
  BY RevenueTypes DEF RevenueInv, TakesUp
<1>2. RevenueTypeInv'
  <2>1. Revenue!TypeOK'
    BY <1>1 DEF RevenueTables, Revenue!TypeOK, RevenueInv, RevenueTypeInv
  <2>2. ASSUME NEW v \in Workers PROVE RevenuePlaced(pj_req'[v])
    BY <1>1 DEF RevenueInv, RevenueTypeInv
  <2> QED BY <2>1, <2>2 DEF RevenueTypeInv, RevenuePlaced
<1>3. ProjectsApart'
  <2>1. ASSUME NEW v \in Workers, NEW x \in Workers, v # x, pj_req'[v].pc # "idle"
        PROVE  pj_req'[x].d # pj_req'[v].d
    <3>1. CASE v = w
      BY <3>1, <2>1, <1>1 DEF TakesUp
    <3>2. CASE x = w
      <4>1. q.d = "none" \/ q.pc # "idle"
        BY DEF RevenuePlaced
      <4>2. pj_req[v].d # "none" /\ pj_req'[v] = pj_req[v]
        BY <3>2, <2>1, <1>1 DEF RevenueInv, RevenueTypeInv, RevenuePlaced
      <4> QED BY <4>1, <4>2, <3>2, <2>1, <1>1 DEF TakesUp
    <3>3. CASE v # w /\ x # w
      BY <3>3, <2>1, <1>1 DEF RevenueInv, ProjectsApart
    <3> QED BY <3>1, <3>2, <3>3
  <2> QED BY <2>1 DEF ProjectsApart
<1>4. ASSUME NEW v \in Workers PROVE RevenueHeld(pj_req[v])'
  <2>1. CASE v = w
    <3>1. pj_req[v]' = q
      BY <2>1, <1>1
    <3> QED BY <3>1
  <2>2. CASE v # w
    <3>1. PICK r \in Revenue!Request :
             /\ r = pj_req[v] /\ RevenuePlaced(r) /\ RevenueHeld(r)
             /\ r.copy \in Revenue!Record /\ r.contract \in ContractAmounts
             /\ r.pc # "idle" => \A x \in Workers \ {v} : pj_req[x].d # r.d
      BY RevenueRequest
    <3>2. pj_req[v]' = r
      BY <2>2, <3>1, <1>1
    <3>3. CASE r.pc = "idle"
      BY <3>2, <3>3 DEF RevenueHeld
    <3>4. CASE r.pc # "idle"
      <4>1. r.d \in RevenueRecords \ {d} /\ revenue[r.d].status # "posted"
        BY <2>2, <3>1, <3>4 DEF RevenuePlaced, RevenueHeld
      <4>2. revenue'[r.d] = revenue[r.d]
        BY <4>1 DEF OnlyRecord
      <4>3. r.d \notin behind' => r.d \notin behind /\ TotalIn(revenue') = TotalIn(revenue)
        BY <4>1 DEF OnlyRecord
      <4>4. RevenueHeld(r)'
        BY <3>1, <3>4, <4>2, <4>3 DEF RevenueHeld
      <4> QED BY <3>2, <4>4
    <3> QED BY <3>3, <3>4
  <2> QED BY <2>1, <2>2
<1>5. ASSUME NEW r \in RevenueRecords PROVE RowStands(r)'
  <2>1. CASE r = d
    <3>1. d # "none"
      BY <2>1 DEF ProjectConstants
    <3>2. q.d = d /\ q.pc = "calculate" =>
             \E x \in Workers : pj_req'[x].d = d /\ pj_req'[x].pc = "calculate"
      BY <1>1
    <3> QED BY <2>1, <3>1, <3>2 DEF OwnRow, RowStands
  <2>2. CASE r # d
    <3>1. revenue'[r] = revenue[r] /\ RowStands(r)
      BY <2>2 DEF OnlyRecord, RevenueInv
    <3>2. CASE revenue[r].status = "draft" /\ r \notin behind'
      <4>1. r \notin behind /\ TotalIn(revenue') = TotalIn(revenue)
        BY <2>2, <3>2 DEF OnlyRecord
      <4>2. ASSUME NEW x \in Workers, pj_req[x].d = r, pj_req[x].pc = "calculate"
            PROVE  pj_req'[x].d = r /\ pj_req'[x].pc = "calculate"
        BY <2>2, <4>2, <1>1
      <4> QED BY <3>1, <3>2, <4>1, <4>2 DEF RowStands
    <3>3. CASE ~(revenue[r].status = "draft" /\ r \notin behind')
      BY <3>1, <3>3 DEF RowStands
    <3> QED BY <3>2, <3>3
  <2> QED BY <2>1, <2>2
<1> QED BY <1>2, <1>3, <1>4, <1>5 DEF RevenueInv

-----------------------------------------------------------------------------
(* The steps. *)

LEMMA RowCompleted ==
    ASSUME ProjectConstants, NEW row \in Revenue!Record, NEW prior \in Int,
           NEW amount \in ContractAmounts, Plain(row)
    PROVE  LET c == Revenue!Calculated(row, prior, amount) IN
           /\ c \in Revenue!Record /\ c.status = row.status
           /\ Completes(c, prior) /\ Plain(c)
<1>1. PICK n \in Int : n = (amount * row.percentage) \div 2
  <2>1. amount \in Nat /\ row.percentage \in 0..2
    BY RecordFields DEF ProjectConstants
  <2>2. \/ row.percentage = 0 /\ amount * row.percentage = 0
        \/ row.percentage = 1 /\ amount * row.percentage = amount
        \/ row.percentage = 2 /\ amount * row.percentage = 2 * amount
    BY <2>1
  <2>3. amount * row.percentage \in Int
    BY <2>1, <2>2
  <2> QED BY <2>3
<1> DEFINE c == Revenue!Calculated(row, prior, amount)
<1>2. c = IF row.by_percentage
          THEN [row EXCEPT !.prior = prior, !.cumulative = n, !.recognized = n - prior]
          ELSE [row EXCEPT !.prior = prior]
  BY <1>1 DEF Revenue!Calculated
<1> HIDE DEF c
<1>3. c \in Revenue!Record /\ c.status = row.status
  <2>1. PICK k \in Int : k = n - prior
    OBVIOUS
  <2>2. CASE row.by_percentage
    <3>1. c = [row EXCEPT !.prior = prior, !.cumulative = n, !.recognized = k]
      BY <1>2, <2>1, <2>2
    <3> QED BY <3>1 DEF Revenue!Record
  <2>3. CASE ~row.by_percentage
    <3>1. c = [row EXCEPT !.prior = prior]
      BY <1>2, <2>3
    <3> QED BY <3>1 DEF Revenue!Record
  <2> QED BY <2>2, <2>3
<1>4. Completes(c, prior) /\ Plain(c)
  <2>1. CASE row.by_percentage
    <3>1. c.by_percentage /\ c.cumulative = n /\ c.recognized = n - prior
      BY <1>2, <2>1 DEF Revenue!Record
    <3> QED BY <3>1 DEF Completes, Plain
  <2>2. CASE ~row.by_percentage
    <3>1. ~c.by_percentage /\ c.recognized = row.recognized
      BY <1>2, <2>2 DEF Revenue!Record
    <3> QED BY <3>1, <2>2 DEF Completes, Plain
  <2> QED BY <2>1, <2>2
<1> QED BY <1>3, <1>4 DEF c

\* A request that a worker takes up changes no table.
LEMMA RevenueBegins ==
    ASSUME ProjectConstants, RevenueInv, NEW w \in Workers, NEW r \in RevenueRecords,
           NEW q \in Revenue!Request, Revenue!MayStart(w, r), pj_req' = [pj_req EXCEPT ![w] = q],
           q.d = r, q.pc \in {"prior", "post"}, Plain(q.copy), q.copy.status = "draft",
           revenue[r].status # "posted", q.pc = "post" => q.copy = revenue[r],
           UNCHANGED <<contract, retention, revenue, invoice, last, behind, hasty, pj_lagging, pj_aborts>>
    PROVE  RevenueInv'
<1>1. PICK o \in Revenue!Request : o = pj_req[w] /\ RevenuePlaced(o)
  BY RevenueRequest
<1>2. o.pc = "idle" /\ o.d = "none" /\ \A v \in Workers : pj_req[v].d # r
  BY <1>1 DEF Revenue!MayStart, Revenue!Busy, Revenue!At, RevenuePlaced
<1>3. TakesUp(w, q) /\ RevenuePlaced(q)
  BY <1>2 DEF TakesUp, RevenuePlaced, ProjectConstants
<1>4. RevenueTables
  BY RevenueTypes DEF RevenueTables, RevenueInv
<1>5. OnlyRecord(o.d) /\ OwnRow(o.d, q)
  BY <1>2 DEF OnlyRecord, OwnRow
<1>6. RevenueHeld(q)'
  BY DEF RevenueHeld
<1>7. RevenueSums'
  BY DEF RevenueInv, RevenueSums
<1>8. o.d = pj_req[w].d
  BY <1>1
<1> QED BY <1>3, <1>4, <1>5, <1>6, <1>7, <1>8, RevenueFrame

LEMMA CreateRecordRecognizes ==
    ASSUME ProjectConstants, RevenueInv, NEW w \in Workers, NEW r \in RevenueRecords,
           Revenue!CreateRecord(w, r)
    PROVE  RevenueInv'
<1>1. PICK percentage \in 0..2, by \in BOOLEAN :
         pj_req' = [pj_req EXCEPT ![w] = [Revenue!Idle EXCEPT !.pc = "prior", !.d = r,
                       !.contract = contract,
                       !.copy = [Revenue!NoRecord EXCEPT !.status = "draft", !.by_percentage = by,
                                                         !.percentage = percentage]]]
  BY Zenon DEF Revenue!CreateRecord
<1>2. PICK c \in ContractAmounts : c = contract
  BY RevenueTypes DEF RevenueInv
<1>3. PICK row \in Revenue!Record :
         /\ row = [Revenue!NoRecord EXCEPT !.status = "draft", !.by_percentage = by,
                                           !.percentage = percentage]
         /\ row.status = "draft" /\ row.recognized = 0
  <2>1. PICK z \in Revenue!Record : z = Revenue!NoRecord /\ z.recognized = 0
    <3>1. Revenue!NoRecord.recognized = 0
      BY DEF Revenue!NoRecord
    <3> QED BY <3>1, RevenueIdle
  <2> DEFINE row == [z EXCEPT !.status = "draft", !.by_percentage = by, !.percentage = percentage]
  <2>2. row \in Revenue!Record /\ row.status = "draft" /\ row.recognized = 0
    BY <2>1 DEF Revenue!Record, Revenue!None
  <2>3. row = [Revenue!NoRecord EXCEPT !.status = "draft", !.by_percentage = by,
                                       !.percentage = percentage]
    BY <2>1, Zenon
  <2> HIDE DEF row
  <2> QED BY <2>2, <2>3
<1> DEFINE q == [Revenue!Idle EXCEPT !.pc = "prior", !.d = r, !.contract = c, !.copy = row]
<1>4. pj_req' = [pj_req EXCEPT ![w] = q]
  BY <1>1, <1>2, <1>3, Zenon
<1>5. q \in Revenue!Request /\ q.d = r /\ q.pc = "prior" /\ q.copy = row
  BY RevenueIdle DEF Revenue!Request
<1> HIDE DEF q
<1>6. /\ Revenue!MayStart(w, r) /\ revenue[r].status = "none"
      /\ UNCHANGED <<contract, retention, revenue, invoice, last, behind, hasty, pj_lagging, pj_aborts>>
  BY DEF Revenue!CreateRecord, Revenue!rows, Revenue!None
<1>7. Plain(q.copy)
  BY <1>3, <1>5 DEF Plain
<1> QED BY <1>3, <1>4, <1>5, <1>6, <1>7, RevenueBegins

LEMMA TakeRecordRecognizes ==
    ASSUME ProjectConstants, RevenueInv, NEW w \in Workers, NEW r \in RevenueRecords,
           Revenue!CalculateRecord(w, r) \/ Revenue!PostRecord(w, r)
    PROVE  RevenueInv'
<1>1. PICK c \in ContractAmounts : c = contract
  BY RevenueTypes DEF RevenueInv
<1>2. PICK row \in Revenue!Record : row = revenue[r]
  BY RevenueTypes DEF RevenueInv
<1>3. /\ Revenue!MayStart(w, r) /\ row.status = "draft"
      /\ UNCHANGED <<contract, retention, revenue, invoice, last, behind, hasty, pj_lagging, pj_aborts>>
  BY <1>2 DEF Revenue!CalculateRecord, Revenue!PostRecord, Revenue!rows
<1>4. Plain(row)
  BY <1>2 DEF RevenueInv, RowStands
<1>5. CASE Revenue!CalculateRecord(w, r)
  <2> DEFINE q == [Revenue!Idle EXCEPT !.pc = "prior", !.d = r, !.contract = c, !.copy = row]
  <2>1. pj_req' = [pj_req EXCEPT ![w] = [Revenue!Idle EXCEPT !.pc = "prior", !.d = r,
                                            !.contract = contract, !.copy = revenue[r]]]
    BY <1>5, Zenon DEF Revenue!CalculateRecord
  <2>2. pj_req' = [pj_req EXCEPT ![w] = q]
    BY <2>1, <1>1, <1>2, Zenon
  <2>3. q \in Revenue!Request /\ q.d = r /\ q.pc = "prior" /\ q.copy = row
    BY RevenueIdle DEF Revenue!Request
  <2> HIDE DEF q
  <2> QED BY <1>2, <1>3, <1>4, <2>2, <2>3, RevenueBegins
<1>6. CASE Revenue!PostRecord(w, r)
  <2> DEFINE q == [Revenue!Idle EXCEPT !.pc = "post", !.d = r, !.copy = row]
  <2>1. pj_req' = [pj_req EXCEPT ![w] = [Revenue!Idle EXCEPT !.pc = "post", !.d = r,
                                                             !.copy = revenue[r]]]
    BY <1>6, Zenon DEF Revenue!PostRecord
  <2>2. pj_req' = [pj_req EXCEPT ![w] = q]
    BY <2>1, <1>2, Zenon
  <2>3. q \in Revenue!Request /\ q.d = r /\ q.pc = "post" /\ q.copy = row
    BY RevenueIdle DEF Revenue!Request
  <2> HIDE DEF q
  <2> QED BY <1>2, <1>3, <1>4, <2>2, <2>3, RevenueBegins
<1> QED BY <1>5, <1>6

-----------------------------------------------------------------------------
\* A request that ends, and one that dies, leave nothing to be held.
LEMMA RevenueEnds ==
    ASSUME ProjectConstants, NEW w \in Workers, Revenue!Finish(w)
    PROVE  \E q \in Revenue!Request :
              q.pc = "idle" /\ TakesUp(w, q) /\ RevenuePlaced(q) /\ RevenueHeld(q)'
<1>1. PICK q : q = Revenue!Idle
  OBVIOUS
<1>2. q \in Revenue!Request /\ q.pc = "idle" /\ q.d = "none" /\ pj_req' = [pj_req EXCEPT ![w] = q]
  BY <1>1, RevenueIdle DEF Revenue!Finish
<1> QED BY <1>2 DEF TakesUp, RevenuePlaced, RevenueHeld

LEMMA SumPriorRecognizes ==
    ASSUME ProjectConstants, RevenueInv, NEW w \in Workers, Revenue!SumPrior(w)
    PROVE  RevenueInv'
<1>1. PICK r \in Revenue!Request :
         /\ r = pj_req[w] /\ RevenuePlaced(r) /\ RevenueHeld(r)
         /\ r.copy \in Revenue!Record /\ r.contract \in ContractAmounts
         /\ r.pc # "idle" => \A v \in Workers \ {w} : pj_req[v].d # r.d
  BY RevenueRequest
<1>2. r.pc = "prior"
  BY <1>1 DEF Revenue!SumPrior, Revenue!At
<1>3. /\ behind' = behind \ {r.d}
      /\ UNCHANGED <<contract, retention, revenue, invoice, last, hasty, pj_lagging, pj_aborts>>
  BY <1>1 DEF Revenue!SumPrior
<1>4. PICK sum \in Int : sum = TotalIn(revenue) /\ sum = Revenue!Recognized(Revenue!Posted)
  BY RevenueTypes, TotalInType, RecognizedIsTotal DEF RevenueInv
<1>5. PICK c \in Revenue!Record :
         /\ c = Revenue!Calculated(r.copy, sum, r.contract) /\ c.status = r.copy.status
         /\ Completes(c, sum) /\ Plain(c)
  BY <1>1, <1>2, RowCompleted DEF RevenueHeld
<1> DEFINE q == [r EXCEPT !.pc = "calculate", !.copy = c]
<1>6. pj_req' = [pj_req EXCEPT ![w] = q]
  <2>1. pj_req' = [pj_req EXCEPT ![w].pc = "calculate",
            ![w].copy = Revenue!Calculated(@, Revenue!Recognized(Revenue!Posted), pj_req[w].contract)]
    BY Zenon DEF Revenue!SumPrior
  <2>2. pj_req' = [pj_req EXCEPT ![w].pc = "calculate",
                                 ![w].copy = Revenue!Calculated(@, sum, r.contract)]
    BY <2>1, <1>1, <1>4, Zenon
  <2>3. pj_req \in [Workers -> Revenue!Request]
    BY RevenueTypes DEF RevenueInv
  <2> QED BY <1>1, <1>5, <2>2, <2>3
<1>7. q \in Revenue!Request /\ q.d = r.d /\ q.pc = "calculate" /\ q.copy = c
  BY <1>1 DEF Revenue!Request
<1> HIDE DEF q
<1>8. r.d \in RevenueRecords /\ c.status = "draft" /\ revenue[r.d].status # "posted"
  BY <1>1, <1>2, <1>5 DEF RevenuePlaced, RevenueHeld
<1>9. TakesUp(w, q) /\ RevenuePlaced(q)
  BY <1>1, <1>2, <1>6, <1>7, <1>8 DEF TakesUp, RevenuePlaced, ProjectConstants
<1>10. RevenueTables
  BY <1>3, RevenueTypes DEF RevenueTables, RevenueInv
<1>11. OnlyRecord(r.d)
  BY <1>3 DEF OnlyRecord
<1>12. OwnRow(r.d, q)
  BY <1>3, <1>7, <1>8 DEF OwnRow, RevenueInv, RowStands
<1>13. RevenueHeld(q)'
  BY <1>3, <1>4, <1>5, <1>7, <1>8 DEF RevenueHeld
<1>14. RevenueSums'
  BY <1>3 DEF RevenueInv, RevenueSums
<1>15. r.d = pj_req[w].d
  BY <1>1
<1> QED BY <1>7, <1>9, <1>10, <1>11, <1>12, <1>13, <1>14, <1>15, RevenueFrame

LEMMA SaveRecordRecognizes ==
    ASSUME ProjectConstants, RevenueInv, NEW w \in Workers, Revenue!SaveRecord(w)
    PROVE  RevenueInv'
<1>1. PICK r \in Revenue!Request :
         /\ r = pj_req[w] /\ RevenuePlaced(r) /\ RevenueHeld(r)
         /\ r.copy \in Revenue!Record /\ r.contract \in ContractAmounts
         /\ r.pc # "idle" => \A v \in Workers \ {w} : pj_req[v].d # r.d
  BY RevenueRequest
<1>2. r.pc = "calculate"
  BY <1>1 DEF Revenue!SaveRecord, Revenue!At
<1>3. /\ revenue' = [revenue EXCEPT ![r.d] = r.copy] /\ Revenue!Finish(w)
      /\ UNCHANGED <<contract, retention, invoice, last, behind, hasty, pj_lagging, pj_aborts>>
  BY <1>1 DEF Revenue!SaveRecord
<1>4. /\ r.d \in RevenueRecords /\ r.copy.status = "draft" /\ revenue[r.d].status # "posted"
      /\ Plain(r.copy)
      /\ r.d \notin behind => Completes(r.copy, TotalIn(revenue))
  BY <1>1, <1>2 DEF RevenuePlaced, RevenueHeld
<1>5. revenue \in [RevenueRecords -> Revenue!Record]
  BY RevenueTypes DEF RevenueInv
<1>6. /\ revenue' \in [RevenueRecords -> Revenue!Record] /\ revenue'[r.d] = r.copy
      /\ \A x \in RevenueRecords : x # r.d => revenue'[x] = revenue[x]
  BY <1>1, <1>3, <1>4, <1>5
<1>7. TotalIn(revenue') = TotalIn(revenue)
  <2>1. PICK f \in [RevenueRecords -> Revenue!Record], g \in [RevenueRecords -> Revenue!Record] :
           f = revenue /\ g = revenue'
    BY <1>5, <1>6
  <2>2. f[r.d].status # "posted" /\ g[r.d].status # "posted"
        /\ \A x \in RevenueRecords : x # r.d => g[x] = f[x]
    BY <2>1, <1>4, <1>6
  <2>3. TotalIn(g) = TotalIn(f)
    BY <2>2, TotalStays
  <2> QED BY <2>1, <2>3
<1>8. PICK q \in Revenue!Request :
         q.pc = "idle" /\ TakesUp(w, q) /\ RevenuePlaced(q) /\ RevenueHeld(q)'
  BY <1>3, RevenueEnds
<1>9. RevenueTables
  BY <1>3, <1>6, RevenueTypes DEF RevenueTables, RevenueInv
<1>10. OnlyRecord(r.d)
  BY <1>3, <1>6, <1>7 DEF OnlyRecord
<1>11. OwnRow(r.d, q)
  <2>1. Plain(revenue'[r.d])
    BY <1>4, <1>6
  <2>2. r.d \notin behind' => Completes(revenue'[r.d], TotalIn(revenue'))
    BY <1>3, <1>4, <1>6, <1>7
  <2> QED BY <2>1, <2>2 DEF OwnRow
<1>12. RevenueSums'
  BY <1>3, <1>7 DEF RevenueInv, RevenueSums
<1>13. r.d = pj_req[w].d
  BY <1>1
<1> QED BY <1>8, <1>9, <1>10, <1>11, <1>12, <1>13, RevenueFrame

LEMMA SavePostedRecognizes ==
    ASSUME ProjectConstants, RevenueInv, NEW w \in Workers, Revenue!SavePosted(w)
    PROVE  RevenueInv'
<1>1. PICK r \in Revenue!Request :
         /\ r = pj_req[w] /\ RevenuePlaced(r) /\ RevenueHeld(r)
         /\ r.copy \in Revenue!Record /\ r.contract \in ContractAmounts
         /\ r.pc # "idle" => \A v \in Workers \ {w} : pj_req[v].d # r.d
  BY RevenueRequest
<1>2. r.pc = "post"
  BY <1>1 DEF Revenue!SavePosted, Revenue!At
<1>3. PICK row \in Revenue!Record : row = r.copy
  BY <1>1
<1>4. /\ revenue' = [revenue EXCEPT ![r.d] = [row EXCEPT !.status = "posted"]]
      /\ IF row.by_percentage
         THEN /\ last' = row.cumulative
              /\ hasty' = (hasty \/ r.d \in behind)
              /\ behind' = RevenueRecords \ (Revenue!Posted \cup {r.d})
         ELSE UNCHANGED <<last, hasty, behind>>
      /\ Revenue!Finish(w)
      /\ UNCHANGED <<contract, retention, invoice, pj_lagging, pj_aborts>>
  BY <1>1, <1>3 DEF Revenue!SavePosted
<1>5. /\ r.d \in RevenueRecords /\ row.status = "draft" /\ row = revenue[r.d] /\ Plain(row)
      /\ revenue \in [RevenueRecords -> Revenue!Record]
  BY <1>1, <1>2, <1>3, RevenueTypes DEF RevenuePlaced, RevenueHeld, RevenueInv
<1>6. PICK p \in Revenue!Record :
         /\ p = [row EXCEPT !.status = "posted"] /\ p.status = "posted"
         /\ p.recognized = row.recognized /\ p.by_percentage = row.by_percentage
  <2> DEFINE p == [row EXCEPT !.status = "posted"]
  <2>1. /\ p \in Revenue!Record /\ p.status = "posted"
        /\ p.recognized = row.recognized /\ p.by_percentage = row.by_percentage
    BY DEF Revenue!Record, Revenue!None
  <2> HIDE DEF p
  <2> QED BY <2>1 DEF p
<1>7. PICK f \in [RevenueRecords -> Revenue!Record], g \in [RevenueRecords -> Revenue!Record] :
         /\ f = revenue /\ g = revenue' /\ g[r.d] = p
         /\ \A x \in RevenueRecords : x # r.d => g[x] = f[x]
  <2>1. revenue' = [revenue EXCEPT ![r.d] = p]
    BY <1>4, <1>6
  <2>2. /\ revenue' \in [RevenueRecords -> Revenue!Record] /\ revenue'[r.d] = p
        /\ \A x \in RevenueRecords : x # r.d => revenue'[x] = revenue[x]
    BY <2>1, <1>1, <1>5, <1>6
  <2> QED BY <2>2, <1>5
<1>8. PICK a \in Int, b \in Int, n \in Int :
         /\ a = TotalIn(f) /\ b = TotalIn(g) /\ n = row.recognized /\ b = a + n
         /\ row.cumulative \in Int
  <2>1. f[r.d].status # "posted" /\ g[r.d].status = "posted" /\ g[r.d].recognized = row.recognized
    BY <1>5, <1>6, <1>7
  <2>2. TotalIn(g) = TotalIn(f) + g[r.d].recognized
    BY <2>1, <1>5, <1>7, TotalGrows
  <2>3. TotalIn(f) \in Int /\ TotalIn(g) \in Int
    BY TotalInType
  <2>4. row.recognized \in Int /\ row.cumulative \in Int
    BY RecordFields
  <2> QED BY <2>1, <2>2, <2>3, <2>4
<1>9. RevenueSums'
  <2>1. ~hasty => a = last
    BY <1>7, <1>8 DEF RevenueInv, RevenueSums
  <2>2. CASE row.by_percentage
    <3>1. last' = row.cumulative /\ hasty' = (hasty \/ r.d \in behind)
      BY <1>4, <2>2
    <3>2. r.d \notin behind => n = row.cumulative - a
      <4>1. RowStands(r.d)
        BY <1>5 DEF RevenueInv
      <4>2. ~\E v \in Workers : pj_req[v].d = r.d /\ pj_req[v].pc = "calculate"
        BY <1>1, <1>2
      <4>3. r.d \notin behind => Completes(revenue[r.d], TotalIn(revenue))
        BY <4>1, <4>2, <1>5 DEF RowStands
      <4>4. r.d \notin behind => Completes(row, a)
        BY <4>3, <1>5, <1>7, <1>8
      <4>5. ASSUME Completes(row, a) PROVE row.recognized = row.cumulative - a
        BY <4>5, <2>2 DEF Completes
      <4>6. CASE r.d \notin behind
        BY <4>4, <4>5, <4>6, <1>8
      <4> QED BY <4>6
    <3>3. ~hasty' => r.d \notin behind
      BY <3>1, Zenon
    <3>4. ~hasty' => b = last'
      BY <3>1, <3>2, <3>3, <1>8
    <3> QED BY <3>4, <1>7, <1>8 DEF RevenueSums
  <2>3. CASE ~row.by_percentage
    <3>1. last' = last /\ hasty' = hasty
      BY <1>4, <2>3
    <3>2. n = 0
      BY <1>5, <1>8, <2>3 DEF Plain
    <3> QED BY <2>1, <3>1, <3>2, <1>7, <1>8 DEF RevenueSums
  <2> QED BY <2>2, <2>3
<1>10. OnlyRecord(r.d)
  <2>1. \A x \in RevenueRecords \ {r.d} : revenue'[x] = revenue[x]
    BY <1>7
  <2>2. ASSUME NEW x \in RevenueRecords \ {r.d}, revenue[x].status # "posted", x \notin behind'
        PROVE  x \notin behind /\ TotalIn(revenue') = TotalIn(revenue)
    <3>1. CASE row.by_percentage
      BY <1>4, <2>2, <3>1 DEF Revenue!Posted
    <3>2. CASE ~row.by_percentage
      <4>1. behind' = behind
        BY <1>4, <3>2
      <4>2. n = 0
        BY <1>5, <1>8, <3>2 DEF Plain
      <4> QED BY <4>1, <4>2, <2>2, <1>7, <1>8
    <3> QED BY <3>1, <3>2
  <2> QED BY <2>1, <2>2 DEF OnlyRecord
<1>11. PICK q \in Revenue!Request :
         q.pc = "idle" /\ TakesUp(w, q) /\ RevenuePlaced(q) /\ RevenueHeld(q)'
  BY <1>4, RevenueEnds
<1>12. RevenueTables
  <2>1. /\ contract \in ContractAmounts /\ retention \in BOOLEAN /\ last \in Int
        /\ behind \in SUBSET RevenueRecords /\ hasty \in BOOLEAN /\ pj_aborts \in Nat
    BY RevenueTypes DEF RevenueInv
  <2>2. last' \in Int /\ behind' \subseteq RevenueRecords /\ hasty' \in BOOLEAN
    <3>1. CASE row.by_percentage
      BY <1>4, <1>8, <3>1
    <3>2. CASE ~row.by_percentage
      BY <2>1, <1>4, <3>2
    <3> QED BY <3>1, <3>2
  <2> QED BY <2>1, <2>2, <1>4, <1>7 DEF RevenueTables
<1>13. OwnRow(r.d, q)
  <2>1. revenue'[r.d] = p
    BY <1>7
  <2>2. Plain(p) /\ p.status # "draft"
    BY <1>5, <1>6 DEF Plain
  <2> QED BY <2>1, <2>2 DEF OwnRow
<1>14. r.d = pj_req[w].d
  BY <1>1
<1> QED BY <1>9, <1>10, <1>11, <1>12, <1>13, <1>14, RevenueFrame

-----------------------------------------------------------------------------
\* A request that dies between its calculation and its save leaves its record behind.
LEMMA CrashRecognizes ==
    ASSUME ProjectConstants, RevenueInv, NEW w \in Workers, Revenue!Crash(w)
    PROVE  RevenueInv'
<1>1. PICK r \in Revenue!Request :
         /\ r = pj_req[w] /\ RevenuePlaced(r) /\ RevenueHeld(r)
         /\ r.copy \in Revenue!Record /\ r.contract \in ContractAmounts
         /\ r.pc # "idle" => \A v \in Workers \ {w} : pj_req[v].d # r.d
  BY RevenueRequest
<1>2. /\ behind' = (IF r.pc = "calculate" THEN behind \cup {r.d} ELSE behind)
      /\ pj_aborts' = pj_aborts + 1 /\ Revenue!Finish(w) /\ r.pc # "idle"
      /\ UNCHANGED <<contract, retention, revenue, invoice, last, hasty, pj_lagging>>
  BY <1>1 DEF Revenue!Crash, Revenue!At, Revenue!Busy
<1>3. r.d \in RevenueRecords
  BY <1>1, <1>2 DEF RevenuePlaced
<1>4. PICK q \in Revenue!Request :
         q.pc = "idle" /\ TakesUp(w, q) /\ RevenuePlaced(q) /\ RevenueHeld(q)'
  BY <1>2, RevenueEnds
<1>5. RevenueTables
  <2>1. behind' \subseteq RevenueRecords /\ pj_aborts' \in Nat
    BY <1>2, <1>3, RevenueTypes DEF RevenueInv
  <2> QED BY <2>1, <1>2, RevenueTypes DEF RevenueTables, RevenueInv
<1>6. OnlyRecord(r.d)
  BY <1>2 DEF OnlyRecord
<1>7. OwnRow(r.d, q)
  <2>1. RowStands(r.d)
    BY <1>3 DEF RevenueInv
  <2>2. Plain(revenue'[r.d])
    BY <2>1, <1>2 DEF RowStands
  <2>3. ASSUME revenue'[r.d].status = "draft", r.d \notin behind'
        PROVE  Completes(revenue'[r.d], TotalIn(revenue'))
    <3>1. r.d \notin behind /\ r.pc # "calculate"
      BY <1>2, <2>3
    <3>2. ~\E v \in Workers : pj_req[v].d = r.d /\ pj_req[v].pc = "calculate"
      BY <3>1, <1>1, <1>2
    <3>3. Completes(revenue[r.d], TotalIn(revenue))
      BY <2>1, <2>3, <3>1, <3>2, <1>2 DEF RowStands
    <3> QED BY <3>3, <1>2
  <2> QED BY <2>2, <2>3 DEF OwnRow
<1>8. RevenueSums'
  BY <1>2 DEF RevenueInv, RevenueSums
<1>9. r.d = pj_req[w].d
  BY <1>1
<1> QED BY <1>4, <1>5, <1>6, <1>7, <1>8, <1>9, RevenueFrame

\* What the project says, and nothing else, changes.
LEMMA RevenueStutter ==
    ASSUME RevenueInv, contract' \in ContractAmounts, retention' \in BOOLEAN,
           UNCHANGED <<revenue, invoice, last, behind, hasty, pj_lagging, pj_req, pj_aborts>>
    PROVE  RevenueInv'
<1>1. RevenueTypeInv'
  <2>1. Revenue!TypeOK'
    BY DEF RevenueInv, RevenueTypeInv, Revenue!TypeOK
  <2>2. \A w \in Workers : RevenuePlaced(pj_req[w])'
    BY DEF RevenueInv, RevenueTypeInv
  <2> QED BY <2>1, <2>2 DEF RevenueTypeInv
<1>2. ProjectsApart'
  BY DEF RevenueInv, ProjectsApart
<1>3. \A w \in Workers : RevenueHeld(pj_req[w])'
  BY DEF RevenueInv, RevenueHeld
<1>4. \A r \in RevenueRecords : RowStands(r)'
  BY DEF RevenueInv, RowStands
<1>5. RevenueSums'
  BY DEF RevenueInv, RevenueSums
<1> QED BY <1>1, <1>2, <1>3, <1>4, <1>5 DEF RevenueInv

LEMMA RevenueInit ==
    ASSUME ProjectConstants, Revenue!Init
    PROVE  RevenueInv
<1>1. /\ contract \in ContractAmounts /\ retention \in BOOLEAN
      /\ revenue = [r \in RevenueRecords |-> Revenue!NoRecord]
      /\ invoice = [i \in {} |-> Revenue!NoInvoice]
      /\ last = 0 /\ behind = {} /\ hasty = FALSE /\ pj_lagging = {}
      /\ pj_req = [w \in Workers |-> Revenue!Idle] /\ pj_aborts = 0
  BY DEF Revenue!Init
<1>2. PICK row \in Revenue!Record :
         row = Revenue!NoRecord /\ row.status = "none" /\ row.recognized = 0
  <2>1. Revenue!NoRecord.status = "none" /\ Revenue!NoRecord.recognized = 0
    BY DEF Revenue!NoRecord, Revenue!None
  <2> QED BY <2>1, RevenueIdle
<1>3. PICK q \in Revenue!Request : q = Revenue!Idle /\ q.pc = "idle" /\ q.d = "none"
  BY RevenueIdle
<1>4. \A w \in Workers : pj_req[w] = q
  BY <1>1, <1>3
<1>5. \A r \in RevenueRecords : revenue[r] = row
  BY <1>1, <1>2
<1>6. RevenueTypeInv
  <2>1. revenue \in [RevenueRecords -> Revenue!Record] /\ pj_req \in [Workers -> Revenue!Request]
        /\ invoice \in [{} -> Revenue!Invoice]
    BY <1>1, <1>2, <1>3
  <2>2. Revenue!TypeOK
    <3>1. last \in Int /\ behind \subseteq RevenueRecords /\ hasty \in BOOLEAN
          /\ pj_lagging \subseteq {} /\ pj_aborts \in Nat
      <4>1. last = 0 /\ behind = {} /\ hasty = FALSE /\ pj_lagging = {} /\ pj_aborts = 0
        BY <1>1
      <4>2. last \in Int /\ pj_aborts \in Nat
        BY <4>1
      <4>3. hasty \in BOOLEAN
        BY <4>1
      <4> QED BY <4>1, <4>2, <4>3
    <3> QED BY <2>1, <3>1, <1>1 DEF Revenue!TypeOK
  <2>3. \A w \in Workers : RevenuePlaced(pj_req[w])
    BY <1>3, <1>4 DEF RevenuePlaced
  <2> QED BY <2>2, <2>3 DEF RevenueTypeInv
<1>7. ProjectsApart
  BY <1>3, <1>4 DEF ProjectsApart
<1>8. \A w \in Workers : RevenueHeld(pj_req[w])
  BY <1>3, <1>4 DEF RevenueHeld
<1>9. \A r \in RevenueRecords : RowStands(r)
  BY <1>2, <1>5 DEF RowStands, Plain
<1>10. RevenueSums
  <2>1. PostedIn(revenue) = {}
    BY <1>2, <1>5 DEF PostedIn
  <2> DEFINE g == [r \in {} |-> revenue[r].recognized]
  <2>2. TotalIn(revenue) = SumOf(g)
    BY <2>1, Zenon DEF TotalIn, SumIn
  <2>3. g \in [{} -> Int] /\ IsFiniteSet({}) /\ \A x \in {} : g[x] = 0
    BY FS_EmptySet
  <2> HIDE DEF g
  <2>4. TotalIn(revenue) = 0
    BY <2>2, <2>3, SumZero
  <2> QED BY <2>4, <1>1 DEF RevenueSums
<1> QED BY <1>6, <1>7, <1>8, <1>9, <1>10 DEF RevenueInv

\* One case for each disjunct of Next; there are no invoices.
LEMMA RevenueStep ==
    ASSUME ProjectConstants, RevenueInv, [Revenue!Next]_(Revenue!vars)
    PROVE  RevenueInv'
<1>1. CASE Revenue!EditProject
  <2>1. contract' \in ContractAmounts /\ retention' \in BOOLEAN
    BY <1>1 DEF Revenue!EditProject
  <2> QED BY <1>1, <2>1, RevenueStutter DEF Revenue!EditProject
<1>2. CASE UNCHANGED Revenue!vars
  <2>1. contract' \in ContractAmounts /\ retention' \in BOOLEAN
    BY <1>2, RevenueTypes DEF Revenue!vars, Revenue!rows, RevenueInv
  <2> QED BY <1>2, <2>1, RevenueStutter DEF Revenue!vars, Revenue!rows
<1>3. ASSUME NEW w \in Workers, Revenue!Continue(w) PROVE RevenueInv'
  <2>1. pj_req[w].pc \in {"idle", "prior", "calculate", "post"}
    BY DEF RevenueInv, RevenueTypeInv, RevenuePlaced
  <2>2. Revenue!SumPrior(w) \/ Revenue!SaveRecord(w) \/ Revenue!SavePosted(w)
    BY <1>3, <2>1 DEF Revenue!Continue, Revenue!InsertInvoice, Revenue!InsertLine,
       Revenue!SumInvoice, Revenue!SaveTotals, Revenue!SaveStatus, Revenue!At
  <2> QED BY <2>2, SumPriorRecognizes, SaveRecordRecognizes, SavePostedRecognizes
<1>4. ASSUME NEW w \in Workers, NEW r \in RevenueRecords,
             \/ Revenue!CreateRecord(w, r) \/ Revenue!CalculateRecord(w, r)
             \/ Revenue!PostRecord(w, r)
      PROVE RevenueInv'
  BY <1>4, CreateRecordRecognizes, TakeRecordRecognizes
<1>5. ASSUME NEW w \in Workers, Revenue!Crash(w) PROVE RevenueInv'
  BY <1>5, CrashRecognizes
<1> QED BY <1>1, <1>2, <1>3, <1>4, <1>5 DEF Revenue!Next

-----------------------------------------------------------------------------
(* Projects: invoices.  A request that has not saved the totals of its invoice has *)
(* it among the lagging ones; what the others save carries totals that fit.        *)

Fits(row) == row.subtotal = 2 * row.lines /\ row.total = row.subtotal - row.retained

InvoicePlaced(q) ==
    /\ q.pc \in {"idle", "insert_invoice", "lines", "totals", "status"}
    /\ q.pc = "idle" <=> q.d = "none"
    /\ q.pc # "idle" => q.d \in ProjectInvoices

InvoiceHeld(q) ==
    /\ q.pc \in {"lines", "totals"} => q.d \in pj_lagging
    /\ q.pc = "totals" => Fits(q.row)
    /\ q.pc = "status" /\ q.d \notin pj_lagging => Fits(q.row)

InvoiceTypeInv == Invoicing!TypeOK /\ \A w \in Workers : InvoicePlaced(pj_req[w])

InvoiceInv ==
    /\ InvoiceTypeInv /\ ProjectsApart /\ last = 0
    /\ \A w \in Workers : InvoiceHeld(pj_req[w])
    /\ \A i \in ProjectInvoices \ pj_lagging : Fits(invoice[i])

-----------------------------------------------------------------------------
(* What a step leaves alone. *)

LEMMA InvoiceTypes ==
    ASSUME InvoiceTypeInv
    PROVE  /\ contract \in {2} /\ retention \in BOOLEAN
           /\ revenue \in [{} -> Invoicing!Record]
           /\ invoice \in [ProjectInvoices -> Invoicing!Invoice]
           /\ last \in Int /\ behind \subseteq {} /\ hasty \in BOOLEAN
           /\ pj_lagging \in SUBSET ProjectInvoices
           /\ pj_aborts \in Nat /\ pj_req \in [Workers -> Invoicing!Request]
  BY DEF InvoiceTypeInv, Invoicing!TypeOK

LEMMA InvoiceIdle ==
    ASSUME ProjectConstants
    PROVE  /\ Invoicing!Idle \in Invoicing!Request
           /\ Invoicing!Idle.pc = "idle" /\ Invoicing!Idle.d = "none"
           /\ Invoicing!NoInvoice \in Invoicing!Invoice /\ Fits(Invoicing!NoInvoice)
<1>1. Invoicing!NoRecord \in Invoicing!Record
  BY DEF Invoicing!NoRecord, Invoicing!Record, Invoicing!None
<1>2. Invoicing!NoInvoice \in Invoicing!Invoice
  BY DEF Invoicing!NoInvoice, Invoicing!Invoice, Invoicing!None, ProjectConstants
<1>3. Fits(Invoicing!NoInvoice)
  BY DEF Invoicing!NoInvoice, Fits
<1>4. (CHOOSE c \in {2} : TRUE) \in {2}
  OBVIOUS
<1> QED BY <1>1, <1>2, <1>3, <1>4 DEF Invoicing!Idle, Invoicing!Request, Invoicing!None

LEMMA InvoiceFields ==
    ASSUME ProjectConstants, NEW row \in Invoicing!Invoice
    PROVE  /\ row.lines \in 0..MaxLines /\ row.lines \in Nat
           /\ row.subtotal \in Nat /\ row.retained \in Nat /\ row.total \in Nat
           /\ row.status \in {"none", "draft", "approved", "void"}
  BY DEF Invoicing!Invoice, Invoicing!None, ProjectConstants

\* The request of a worker, with what the invariant says of it.
LEMMA InvoiceRequest ==
    ASSUME InvoiceInv, NEW w \in Workers
    PROVE  \E r \in Invoicing!Request :
              /\ r = pj_req[w] /\ InvoicePlaced(r) /\ InvoiceHeld(r)
              /\ r.row \in Invoicing!Invoice /\ r.half \in BOOLEAN
              /\ r.pc # "idle" => \A v \in Workers \ {w} : pj_req[v].d # r.d
<1>1. PICK r \in Invoicing!Request : r = pj_req[w]
  BY InvoiceTypes DEF InvoiceInv
<1>2. InvoicePlaced(r) /\ InvoiceHeld(r)
  BY <1>1 DEF InvoiceInv, InvoiceTypeInv
<1>3. r.row \in Invoicing!Invoice /\ r.half \in BOOLEAN
  BY DEF Invoicing!Request
<1>4. ASSUME r.pc # "idle", NEW v \in Workers \ {w} PROVE pj_req[v].d # r.d
  BY <1>1, <1>4 DEF InvoiceInv, ProjectsApart
<1> QED BY <1>1, <1>2, <1>3, <1>4

\* A step changes the row of one invoice at most, and whether it lags.
OnlyInvoice(d) ==
    /\ invoice' \in [ProjectInvoices -> Invoicing!Invoice]
    /\ pj_lagging' \subseteq ProjectInvoices /\ pj_aborts' \in Nat
    /\ UNCHANGED <<contract, retention, revenue, last, behind, hasty>>
    /\ \A i \in ProjectInvoices \ {d} :
          invoice'[i] = invoice[i] /\ (i \in pj_lagging' <=> i \in pj_lagging)

LEMMA InvoiceFrame ==
    ASSUME ProjectConstants, InvoiceInv, NEW w \in Workers, NEW q \in Invoicing!Request, NEW d,
           d = pj_req[w].d, TakesUp(w, q), InvoicePlaced(q), OnlyInvoice(d), InvoiceHeld(q)',
           d \in ProjectInvoices \ pj_lagging' => Fits(invoice'[d])
    PROVE  InvoiceInv'
<1>1. /\ pj_req' \in [Workers -> Invoicing!Request] /\ pj_req'[w] = q
      /\ \A v \in Workers \ {w} : pj_req'[v] = pj_req[v]
  BY InvoiceTypes DEF InvoiceInv, TakesUp
<1>2. InvoiceTypeInv'
  <2>1. Invoicing!TypeOK'
    BY <1>1 DEF OnlyInvoice, Invoicing!TypeOK, InvoiceInv, InvoiceTypeInv
  <2>2. ASSUME NEW v \in Workers PROVE InvoicePlaced(pj_req'[v])
    BY <1>1 DEF InvoiceInv, InvoiceTypeInv
  <2> QED BY <2>1, <2>2 DEF InvoiceTypeInv, InvoicePlaced
<1>3. ProjectsApart'
  <2>1. ASSUME NEW v \in Workers, NEW x \in Workers, v # x, pj_req'[v].pc # "idle"
        PROVE  pj_req'[x].d # pj_req'[v].d
    <3>1. CASE v = w
      BY <3>1, <2>1, <1>1 DEF TakesUp
    <3>2. CASE x = w
      <4>1. q.d = "none" \/ q.pc # "idle"
        BY DEF InvoicePlaced
      <4>2. pj_req[v].d # "none" /\ pj_req'[v] = pj_req[v]
        BY <3>2, <2>1, <1>1 DEF InvoiceInv, InvoiceTypeInv, InvoicePlaced
      <4> QED BY <4>1, <4>2, <3>2, <2>1, <1>1 DEF TakesUp
    <3>3. CASE v # w /\ x # w
      BY <3>3, <2>1, <1>1 DEF InvoiceInv, ProjectsApart
    <3> QED BY <3>1, <3>2, <3>3
  <2> QED BY <2>1 DEF ProjectsApart
<1>4. ASSUME NEW v \in Workers PROVE InvoiceHeld(pj_req[v])'
  <2>1. CASE v = w
    <3>1. pj_req[v]' = q
      BY <2>1, <1>1
    <3> QED BY <3>1
  <2>2. CASE v # w
    <3>1. PICK r \in Invoicing!Request :
             /\ r = pj_req[v] /\ InvoicePlaced(r) /\ InvoiceHeld(r)
             /\ r.row \in Invoicing!Invoice /\ r.half \in BOOLEAN
             /\ r.pc # "idle" => \A x \in Workers \ {v} : pj_req[x].d # r.d
      BY InvoiceRequest
    <3>2. pj_req[v]' = r
      BY <2>2, <3>1, <1>1
    <3>3. r.pc # "idle" => (r.d \in pj_lagging' <=> r.d \in pj_lagging)
      BY <2>2, <3>1 DEF InvoicePlaced, OnlyInvoice
    <3>4. InvoiceHeld(r)'
      BY <3>1, <3>3 DEF InvoiceHeld
    <3> QED BY <3>2, <3>4
  <2> QED BY <2>1, <2>2
<1>5. ASSUME NEW i \in ProjectInvoices \ pj_lagging' PROVE Fits(invoice'[i])
  <2>1. CASE i # d
    BY <2>1, <1>5 DEF OnlyInvoice, InvoiceInv
  <2> QED BY <2>1
<1>6. (\A i \in ProjectInvoices \ pj_lagging : Fits(invoice[i]))'
  BY <1>5
<1>7. last' = 0
  BY DEF OnlyInvoice, InvoiceInv
<1> QED BY <1>2, <1>3, <1>4, <1>6, <1>7 DEF InvoiceInv

\* A request that ends, and one that dies, leave nothing to be held.
LEMMA InvoiceEnds ==
    ASSUME ProjectConstants, NEW w \in Workers, Invoicing!Finish(w)
    PROVE  \E q \in Invoicing!Request : TakesUp(w, q) /\ InvoicePlaced(q) /\ InvoiceHeld(q)'
<1>1. PICK q : q = Invoicing!Idle
  OBVIOUS
<1>2. q \in Invoicing!Request /\ q.pc = "idle" /\ q.d = "none" /\ pj_req' = [pj_req EXCEPT ![w] = q]
  BY <1>1, InvoiceIdle DEF Invoicing!Finish
<1> QED BY <1>2 DEF TakesUp, InvoicePlaced, InvoiceHeld

-----------------------------------------------------------------------------
(* The steps. *)

\* A request that a worker takes up changes no table.
LEMMA InvoiceBegins ==
    ASSUME ProjectConstants, InvoiceInv, NEW w \in Workers, NEW i \in ProjectInvoices,
           NEW q \in Invoicing!Request, Invoicing!MayStart(w, i),
           pj_req' = [pj_req EXCEPT ![w] = q], q.d = i,
           \/ q.pc = "insert_invoice"
           \/ q.pc = "status" /\ (i \notin pj_lagging => Fits(q.row)),
           UNCHANGED <<contract, retention, revenue, invoice, last, behind, hasty, pj_lagging, pj_aborts>>
    PROVE  InvoiceInv'
<1>1. PICK o \in Invoicing!Request : o = pj_req[w] /\ InvoicePlaced(o)
  BY InvoiceRequest
<1>2. o.pc = "idle" /\ o.d = "none" /\ \A v \in Workers : pj_req[v].d # i
  BY <1>1 DEF Invoicing!MayStart, Invoicing!Busy, Invoicing!At, InvoicePlaced
<1>3. TakesUp(w, q) /\ InvoicePlaced(q)
  BY <1>2 DEF TakesUp, InvoicePlaced, ProjectConstants
<1>4. OnlyInvoice(o.d)
  BY InvoiceTypes DEF OnlyInvoice, InvoiceInv
<1>5. InvoiceHeld(q)'
  BY DEF InvoiceHeld
<1>6. o.d \notin ProjectInvoices
  BY <1>2 DEF ProjectConstants
<1>7. o.d = pj_req[w].d
  BY <1>1
<1> QED BY <1>3, <1>4, <1>5, <1>6, <1>7, InvoiceFrame

LEMMA CreateInvoiceFits ==
    ASSUME ProjectConstants, InvoiceInv, NEW w \in Workers, NEW i \in ProjectInvoices,
           Invoicing!CreateInvoice(w, i)
    PROVE  InvoiceInv'
<1>1. PICK h \in BOOLEAN : h = retention
  BY InvoiceTypes DEF InvoiceInv
<1> DEFINE q == [Invoicing!Idle EXCEPT !.pc = "insert_invoice", !.d = i, !.half = h]
<1>2. pj_req' = [pj_req EXCEPT ![w] = q]
  <2>1. pj_req' = [pj_req EXCEPT ![w] = [Invoicing!Idle EXCEPT !.pc = "insert_invoice", !.d = i,
                                                               !.half = retention]]
    BY Zenon DEF Invoicing!CreateInvoice
  <2> QED BY <2>1, <1>1, Zenon
<1>3. q \in Invoicing!Request /\ q.d = i /\ q.pc = "insert_invoice"
  BY InvoiceIdle DEF Invoicing!Request
<1> HIDE DEF q
<1>4. /\ Invoicing!MayStart(w, i)
      /\ UNCHANGED <<contract, retention, revenue, invoice, last, behind, hasty, pj_lagging, pj_aborts>>
  BY DEF Invoicing!CreateInvoice, Invoicing!rows
<1> QED BY <1>2, <1>3, <1>4, InvoiceBegins

LEMMA ChangeInvoiceFits ==
    ASSUME ProjectConstants, InvoiceInv, NEW w \in Workers, NEW i \in ProjectInvoices,
           Invoicing!ChangeInvoice(w, i)
    PROVE  InvoiceInv'
<1>1. PICK status \in {"approved", "void"} :
         pj_req' = [pj_req EXCEPT ![w] = [Invoicing!Idle EXCEPT !.pc = "status", !.d = i,
                                              !.row = [invoice[i] EXCEPT !.status = status]]]
  BY Zenon DEF Invoicing!ChangeInvoice
<1>2. PICK old \in Invoicing!Invoice : old = invoice[i]
  BY InvoiceTypes DEF InvoiceInv
<1> DEFINE row == [old EXCEPT !.status = status]
<1>3. row \in Invoicing!Invoice
  BY DEF Invoicing!Invoice
<1>4. /\ row.lines = old.lines /\ row.subtotal = old.subtotal
      /\ row.retained = old.retained /\ row.total = old.total
  BY DEF Invoicing!Invoice
<1>5. i \notin pj_lagging => Fits(row)
  BY <1>2, <1>4 DEF InvoiceInv, Fits
<1>6. pj_req' = [pj_req EXCEPT ![w] = [Invoicing!Idle EXCEPT !.pc = "status", !.d = i, !.row = row]]
  BY <1>1, <1>2, Zenon
<1> HIDE DEF row
<1> DEFINE q == [Invoicing!Idle EXCEPT !.pc = "status", !.d = i, !.row = row]
<1>7. q \in Invoicing!Request /\ q.d = i /\ q.pc = "status" /\ q.row = row
  BY <1>3, InvoiceIdle DEF Invoicing!Request
<1>8. pj_req' = [pj_req EXCEPT ![w] = q]
  BY <1>6
<1> HIDE DEF q
<1>9. /\ Invoicing!MayStart(w, i)
      /\ UNCHANGED <<contract, retention, revenue, invoice, last, behind, hasty, pj_lagging, pj_aborts>>
  BY DEF Invoicing!ChangeInvoice, Invoicing!rows
<1> QED BY <1>5, <1>7, <1>8, <1>9, InvoiceBegins

LEMMA InsertInvoiceFits ==
    ASSUME ProjectConstants, InvoiceInv, NEW w \in Workers, Invoicing!InsertInvoice(w)
    PROVE  InvoiceInv'
<1>1. PICK r \in Invoicing!Request :
         /\ r = pj_req[w] /\ InvoicePlaced(r) /\ InvoiceHeld(r)
         /\ r.row \in Invoicing!Invoice /\ r.half \in BOOLEAN
         /\ r.pc # "idle" => \A v \in Workers \ {w} : pj_req[v].d # r.d
  BY InvoiceRequest
<1>2. r.pc = "insert_invoice" /\ r.d \in ProjectInvoices
  BY <1>1 DEF Invoicing!InsertInvoice, Invoicing!At, InvoicePlaced
<1>3. /\ invoice' = [invoice EXCEPT ![r.d].status = "draft"]
      /\ pj_lagging' = pj_lagging \cup {r.d} /\ pj_req' = [pj_req EXCEPT ![w].pc = "lines"]
      /\ UNCHANGED <<contract, retention, revenue, last, behind, hasty, pj_aborts>>
  BY <1>1 DEF Invoicing!InsertInvoice, Invoicing!Goto
<1> DEFINE q == [r EXCEPT !.pc = "lines"]
<1>4. pj_req' = [pj_req EXCEPT ![w] = q]
  BY <1>1, <1>3, InvoiceTypes DEF InvoiceInv
<1>5. q \in Invoicing!Request /\ q.pc = "lines" /\ q.d = r.d
  BY <1>1 DEF Invoicing!Request
<1> HIDE DEF q
<1>6. TakesUp(w, q) /\ InvoicePlaced(q)
  BY <1>1, <1>2, <1>4, <1>5 DEF TakesUp, InvoicePlaced, ProjectConstants
<1>7. OnlyInvoice(r.d)
  <2>1. PICK row \in Invoicing!Invoice : row = invoice[r.d]
    BY <1>2, InvoiceTypes DEF InvoiceInv
  <2>2. [row EXCEPT !.status = "draft"] \in Invoicing!Invoice
    BY DEF Invoicing!Invoice, Invoicing!None
  <2>3. invoice' = [invoice EXCEPT ![r.d] = [row EXCEPT !.status = "draft"]]
    BY <1>3, <2>1
  <2>4. invoice' \in [ProjectInvoices -> Invoicing!Invoice]
        /\ \A i \in ProjectInvoices \ {r.d} : invoice'[i] = invoice[i]
    BY <2>2, <2>3, InvoiceTypes DEF InvoiceInv
  <2> QED BY <1>2, <1>3, <2>4, InvoiceTypes DEF OnlyInvoice, InvoiceInv
<1>8. InvoiceHeld(q)'
  BY <1>3, <1>5 DEF InvoiceHeld
<1>9. r.d \in pj_lagging' /\ r.d = pj_req[w].d
  BY <1>1, <1>3
<1> QED BY <1>5, <1>6, <1>7, <1>8, <1>9, InvoiceFrame

LEMMA InsertLineFits ==
    ASSUME ProjectConstants, InvoiceInv, NEW w \in Workers, Invoicing!InsertLine(w)
    PROVE  InvoiceInv'
<1>1. PICK r \in Invoicing!Request :
         /\ r = pj_req[w] /\ InvoicePlaced(r) /\ InvoiceHeld(r)
         /\ r.row \in Invoicing!Invoice /\ r.half \in BOOLEAN
         /\ r.pc # "idle" => \A v \in Workers \ {w} : pj_req[v].d # r.d
  BY InvoiceRequest
<1>2. r.pc = "lines" /\ r.d \in ProjectInvoices /\ r.d \in pj_lagging
  BY <1>1 DEF Invoicing!InsertLine, Invoicing!At, InvoicePlaced, InvoiceHeld
<1>3. PICK row \in Invoicing!Invoice : row = invoice[r.d]
  BY <1>2, InvoiceTypes DEF InvoiceInv
<1>4. PICK n \in 0..MaxLines : n = row.lines /\ n < MaxLines
  BY <1>1, <1>3, InvoiceFields DEF Invoicing!InsertLine
<1>5. /\ invoice' = [invoice EXCEPT ![r.d].lines = @ + 1]
      /\ UNCHANGED <<contract, retention, revenue, last, behind, hasty, pj_lagging, pj_req, pj_aborts>>
  BY <1>1 DEF Invoicing!InsertLine
<1>6. PICK m \in 0..MaxLines : m = n + 1
  BY <1>4 DEF ProjectConstants
<1>7. [row EXCEPT !.lines = m] \in Invoicing!Invoice
  BY DEF Invoicing!Invoice
<1>8. invoice' = [invoice EXCEPT ![r.d] = [row EXCEPT !.lines = m]]
  BY <1>3, <1>4, <1>5, <1>6
<1>9. OnlyInvoice(r.d)
  <2>1. invoice' \in [ProjectInvoices -> Invoicing!Invoice]
        /\ \A i \in ProjectInvoices \ {r.d} : invoice'[i] = invoice[i]
    BY <1>7, <1>8, InvoiceTypes DEF InvoiceInv
  <2> QED BY <1>5, <2>1, InvoiceTypes DEF OnlyInvoice, InvoiceInv
<1>10. TakesUp(w, r)
  BY <1>1, <1>5, InvoiceTypes DEF TakesUp, InvoiceInv
<1>11. InvoiceHeld(r)'
  BY <1>1, <1>5 DEF InvoiceHeld
<1>12. r.d \in pj_lagging' /\ r.d = pj_req[w].d
  BY <1>1, <1>2, <1>5
<1> QED BY <1>1, <1>9, <1>10, <1>11, <1>12, InvoiceFrame

-----------------------------------------------------------------------------
LEMMA SumInvoiceFits ==
    ASSUME ProjectConstants, InvoiceInv, NEW w \in Workers, Invoicing!SumInvoice(w)
    PROVE  InvoiceInv'
<1>1. PICK r \in Invoicing!Request :
         /\ r = pj_req[w] /\ InvoicePlaced(r) /\ InvoiceHeld(r)
         /\ r.row \in Invoicing!Invoice /\ r.half \in BOOLEAN
         /\ r.pc # "idle" => \A v \in Workers \ {w} : pj_req[v].d # r.d
  BY InvoiceRequest
<1>2. r.pc = "lines" /\ r.d \in ProjectInvoices /\ r.d \in pj_lagging
  BY <1>1 DEF Invoicing!SumInvoice, Invoicing!At, InvoicePlaced, InvoiceHeld
<1>3. PICK n \in Nat : n = invoice[r.d].lines /\ n \in 0..MaxLines
  <2>1. PICK old \in Invoicing!Invoice : old = invoice[r.d]
    BY <1>2, InvoiceTypes DEF InvoiceInv
  <2> QED BY <2>1, InvoiceFields
<1>4. PICK retained \in Nat : retained = (IF r.half THEN (2 * n) \div 2 ELSE 0) /\ retained <= 2 * n
  <2>1. (2 * n) \div 2 \in Nat /\ (2 * n) \div 2 <= 2 * n
    OBVIOUS
  <2> QED BY <2>1
<1>5. PICK subtotal \in Nat, due \in Nat :
         /\ subtotal = 2 * n /\ due = subtotal - retained
         /\ retained = IF r.half THEN subtotal \div 2 ELSE 0
  BY <1>4
<1> DEFINE row == [status |-> "draft", lines |-> n, subtotal |-> subtotal,
                   retained |-> retained, total |-> due]
<1>6. row \in Invoicing!Invoice /\ Fits(row)
  BY <1>3, <1>5 DEF Invoicing!Invoice, Invoicing!None, Fits
<1>7. /\ pj_req' = [pj_req EXCEPT ![w].pc = "totals", ![w].row = row]
      /\ UNCHANGED <<contract, retention, revenue, invoice, last, behind, hasty, pj_lagging, pj_aborts>>
  BY <1>1, <1>3, <1>5 DEF Invoicing!SumInvoice, Invoicing!rows
<1> HIDE DEF row
<1> DEFINE q == [r EXCEPT !.pc = "totals", !.row = row]
<1>8. pj_req' = [pj_req EXCEPT ![w] = q]
  BY <1>1, <1>7, InvoiceTypes DEF InvoiceInv
<1>9. q \in Invoicing!Request /\ q.pc = "totals" /\ q.d = r.d /\ q.row = row
  BY <1>1, <1>6 DEF Invoicing!Request
<1> HIDE DEF q
<1>10. TakesUp(w, q) /\ InvoicePlaced(q)
  BY <1>1, <1>2, <1>8, <1>9 DEF TakesUp, InvoicePlaced, ProjectConstants
<1>11. OnlyInvoice(r.d)
  BY <1>7, InvoiceTypes DEF OnlyInvoice, InvoiceInv
<1>12. InvoiceHeld(q)'
  BY <1>2, <1>6, <1>7, <1>9 DEF InvoiceHeld
<1>13. r.d \in pj_lagging' /\ r.d = pj_req[w].d
  BY <1>1, <1>2, <1>7
<1> QED BY <1>9, <1>10, <1>11, <1>12, <1>13, InvoiceFrame

\* The row that a request held is saved.
LEMMA SaveInvoiceFits ==
    ASSUME ProjectConstants, InvoiceInv, NEW w \in Workers,
           Invoicing!SaveTotals(w) \/ Invoicing!SaveStatus(w)
    PROVE  InvoiceInv'
<1>1. PICK r \in Invoicing!Request :
         /\ r = pj_req[w] /\ InvoicePlaced(r) /\ InvoiceHeld(r)
         /\ r.row \in Invoicing!Invoice /\ r.half \in BOOLEAN
         /\ r.pc # "idle" => \A v \in Workers \ {w} : pj_req[v].d # r.d
  BY InvoiceRequest
<1>2. /\ invoice' = [invoice EXCEPT ![r.d] = r.row] /\ Invoicing!Finish(w)
      /\ UNCHANGED <<contract, retention, revenue, last, behind, hasty, pj_aborts>>
      /\ \/ r.pc = "totals" /\ pj_lagging' = pj_lagging \ {r.d}
         \/ r.pc = "status" /\ pj_lagging' = pj_lagging
  BY <1>1 DEF Invoicing!SaveTotals, Invoicing!SaveStatus, Invoicing!At
<1>3. r.d \in ProjectInvoices
  BY <1>1, <1>2 DEF InvoicePlaced
<1>4. r.d \notin pj_lagging' => Fits(r.row)
  BY <1>1, <1>2 DEF InvoiceHeld
<1>5. /\ invoice' \in [ProjectInvoices -> Invoicing!Invoice] /\ invoice'[r.d] = r.row
      /\ \A i \in ProjectInvoices \ {r.d} : invoice'[i] = invoice[i]
  BY <1>1, <1>2, <1>3, InvoiceTypes DEF InvoiceInv
<1>6. OnlyInvoice(r.d)
  BY <1>2, <1>5, InvoiceTypes DEF OnlyInvoice, InvoiceInv
<1>7. PICK q \in Invoicing!Request : TakesUp(w, q) /\ InvoicePlaced(q) /\ InvoiceHeld(q)'
  BY <1>2, InvoiceEnds
<1>8. r.d \in ProjectInvoices \ pj_lagging' => Fits(invoice'[r.d])
  BY <1>4, <1>5
<1>9. r.d = pj_req[w].d
  BY <1>1
<1> QED BY <1>6, <1>7, <1>8, <1>9, InvoiceFrame

LEMMA CrashFits ==
    ASSUME ProjectConstants, InvoiceInv, NEW w \in Workers, Invoicing!Crash(w)
    PROVE  InvoiceInv'
<1>1. PICK r \in Invoicing!Request : r = pj_req[w] /\ InvoicePlaced(r)
  BY InvoiceRequest
<1>2. /\ pj_aborts' = pj_aborts + 1 /\ Invoicing!Finish(w)
      /\ UNCHANGED <<contract, retention, revenue, invoice, last, behind, hasty, pj_lagging>>
  <2>1. r.pc # "calculate"
    BY <1>1 DEF InvoicePlaced
  <2> QED BY <2>1, <1>1 DEF Invoicing!Crash, Invoicing!At
<1>3. OnlyInvoice(r.d)
  <2>1. pj_aborts' \in Nat
    BY <1>2, InvoiceTypes DEF InvoiceInv
  <2> QED BY <2>1, <1>2, InvoiceTypes DEF OnlyInvoice, InvoiceInv
<1>4. PICK q \in Invoicing!Request : TakesUp(w, q) /\ InvoicePlaced(q) /\ InvoiceHeld(q)'
  BY <1>2, InvoiceEnds
<1>5. r.d \in ProjectInvoices \ pj_lagging' => Fits(invoice'[r.d])
  BY <1>2 DEF InvoiceInv
<1>6. r.d = pj_req[w].d
  BY <1>1
<1> QED BY <1>3, <1>4, <1>5, <1>6, InvoiceFrame

\* What the project says, and nothing else, changes.
LEMMA InvoiceStutter ==
    ASSUME InvoiceInv, contract' \in {2}, retention' \in BOOLEAN,
           UNCHANGED <<revenue, invoice, last, behind, hasty, pj_lagging, pj_req, pj_aborts>>
    PROVE  InvoiceInv'
<1>1. InvoiceTypeInv'
  <2>1. Invoicing!TypeOK'
    BY DEF InvoiceInv, InvoiceTypeInv, Invoicing!TypeOK
  <2>2. \A w \in Workers : InvoicePlaced(pj_req[w])'
    BY DEF InvoiceInv, InvoiceTypeInv
  <2> QED BY <2>1, <2>2 DEF InvoiceTypeInv
<1>2. ProjectsApart'
  BY DEF InvoiceInv, ProjectsApart
<1>3. \A w \in Workers : InvoiceHeld(pj_req[w])'
  BY DEF InvoiceInv, InvoiceHeld
<1>4. (\A i \in ProjectInvoices \ pj_lagging : Fits(invoice[i]))'
  BY DEF InvoiceInv
<1> QED BY <1>1, <1>2, <1>3, <1>4 DEF InvoiceInv

LEMMA InvoiceInit ==
    ASSUME ProjectConstants, Invoicing!Init
    PROVE  InvoiceInv
<1>1. /\ contract \in {2} /\ retention \in BOOLEAN
      /\ revenue = [r \in {} |-> Invoicing!NoRecord]
      /\ invoice = [i \in ProjectInvoices |-> Invoicing!NoInvoice]
      /\ last = 0 /\ behind = {} /\ hasty = FALSE /\ pj_lagging = {}
      /\ pj_req = [w \in Workers |-> Invoicing!Idle] /\ pj_aborts = 0
  BY DEF Invoicing!Init
<1>2. PICK row \in Invoicing!Invoice : row = Invoicing!NoInvoice /\ Fits(row)
  BY InvoiceIdle
<1>3. PICK q \in Invoicing!Request : q = Invoicing!Idle /\ q.pc = "idle" /\ q.d = "none"
  BY InvoiceIdle
<1>4. \A w \in Workers : pj_req[w] = q
  BY <1>1, <1>3
<1>5. \A i \in ProjectInvoices : invoice[i] = row
  BY <1>1, <1>2
<1>6. InvoiceTypeInv
  <2>1. /\ revenue \in [{} -> Invoicing!Record] /\ pj_req \in [Workers -> Invoicing!Request]
        /\ invoice \in [ProjectInvoices -> Invoicing!Invoice]
    BY <1>1, <1>2, <1>3
  <2>2. Invoicing!TypeOK
    <3>1. last = 0 /\ behind = {} /\ hasty = FALSE /\ pj_lagging = {} /\ pj_aborts = 0
      BY <1>1
    <3>2. last \in Int /\ pj_aborts \in Nat
      BY <3>1
    <3>3. hasty \in BOOLEAN
      BY <3>1
    <3>4. behind \subseteq {} /\ pj_lagging \subseteq ProjectInvoices
      BY <3>1
    <3> QED BY <2>1, <3>2, <3>3, <3>4, <1>1 DEF Invoicing!TypeOK
  <2>3. \A w \in Workers : InvoicePlaced(pj_req[w])
    BY <1>3, <1>4 DEF InvoicePlaced
  <2> QED BY <2>2, <2>3 DEF InvoiceTypeInv
<1>7. ProjectsApart
  BY <1>3, <1>4 DEF ProjectsApart
<1>8. \A w \in Workers : InvoiceHeld(pj_req[w])
  BY <1>3, <1>4 DEF InvoiceHeld
<1>9. \A i \in ProjectInvoices \ pj_lagging : Fits(invoice[i])
  BY <1>2, <1>5
<1> QED BY <1>1, <1>6, <1>7, <1>8, <1>9 DEF InvoiceInv

\* One case for each disjunct of Next; there are no records.
LEMMA InvoiceStep ==
    ASSUME ProjectConstants, InvoiceInv, [Invoicing!Next]_(Invoicing!vars)
    PROVE  InvoiceInv'
<1>1. CASE Invoicing!EditProject
  <2>1. contract' \in {2} /\ retention' \in BOOLEAN
    BY <1>1 DEF Invoicing!EditProject
  <2> QED BY <1>1, <2>1, InvoiceStutter DEF Invoicing!EditProject
<1>2. CASE UNCHANGED Invoicing!vars
  <2>1. contract' \in {2} /\ retention' \in BOOLEAN
    BY <1>2, InvoiceTypes DEF Invoicing!vars, Invoicing!rows, InvoiceInv
  <2> QED BY <1>2, <2>1, InvoiceStutter DEF Invoicing!vars, Invoicing!rows
<1>3. ASSUME NEW w \in Workers, Invoicing!Continue(w) PROVE InvoiceInv'
  <2>1. pj_req[w].pc \in {"idle", "insert_invoice", "lines", "totals", "status"}
    BY DEF InvoiceInv, InvoiceTypeInv, InvoicePlaced
  <2>2. \/ Invoicing!InsertInvoice(w) \/ Invoicing!InsertLine(w) \/ Invoicing!SumInvoice(w)
        \/ Invoicing!SaveTotals(w) \/ Invoicing!SaveStatus(w)
    BY <1>3, <2>1 DEF Invoicing!Continue, Invoicing!SumPrior, Invoicing!SaveRecord,
       Invoicing!SavePosted, Invoicing!At
  <2> QED BY <2>2, InsertInvoiceFits, InsertLineFits, SumInvoiceFits, SaveInvoiceFits
<1>4. ASSUME NEW w \in Workers, NEW i \in ProjectInvoices,
             Invoicing!CreateInvoice(w, i) \/ Invoicing!ChangeInvoice(w, i)
      PROVE InvoiceInv'
  BY <1>4, CreateInvoiceFits, ChangeInvoiceFits
<1>5. ASSUME NEW w \in Workers, Invoicing!Crash(w) PROVE InvoiceInv'
  BY <1>5, CrashFits
<1> QED BY <1>1, <1>2, <1>3, <1>4, <1>5 DEF Invoicing!Next

-----------------------------------------------------------------------------
LEMMA SameInvoiceSum == \A g : Invoicing!SumOf(g) = SumOf(g)
  BY DEF Invoicing!SumOf, Invoicing!MapThenSumSet, Invoicing!MapThenFoldSet,
     SumOf, MapThenSumSet, MapThenFoldSet

\* Which of the two is exercised does not change.
ProjectInv == (focus = "revenue" => RevenueInv) /\ (focus = "invoicing" => InvoiceInv)

LEMMA ProjectsBehave ==
    ASSUME ProjectConstants, ProjectInv, [Step]_allVars
    PROVE  ProjectInv'
<1>1. focus' = focus
  BY DEF Step, StepBank, StepEntities, StepStock, StepAssets, StepTaxes, StepRecurring,
     StepPlans, StepPayroll, StepProjects, StepRecords, StepPeople, allVars
<1>2. \/ StepProjects
      \/ UNCHANGED projectVars
  BY DEF Step, StepBank, StepEntities, StepStock, StepAssets, StepTaxes, StepRecurring,
     StepPlans, StepPayroll, StepRecords, StepPeople, allVars
<1>3. UNCHANGED projectVars => UNCHANGED Revenue!vars /\ UNCHANGED Invoicing!vars
  BY DEF projectVars, Revenue!vars, Revenue!rows, Invoicing!vars, Invoicing!rows
<1>4. CASE focus = "revenue"
  <2>1. [Revenue!Next]_(Revenue!vars)
    BY <1>2, <1>3, <1>4 DEF StepProjects
  <2> QED BY <1>1, <1>4, <2>1, RevenueStep DEF ProjectInv
<1>5. CASE focus = "invoicing"
  <2>1. [Invoicing!Next]_(Invoicing!vars)
    BY <1>2, <1>3, <1>5 DEF StepProjects
  <2> QED BY <1>1, <1>5, <2>1, InvoiceStep DEF ProjectInv
<1> QED BY <1>1, <1>4, <1>5 DEF ProjectInv

LEMMA ProjectsStart ==
    ASSUME ProjectConstants, Start
    PROVE  ProjectInv
<1>1. IF focus = "revenue" THEN Revenue!Init ELSE Invoicing!Init
  BY DEF Start
<1> QED BY <1>1, RevenueInit, InvoiceInit DEF ProjectInv

\* Revenue and invoices of a project add up while contract and retention are edited and
\* records are created, calculated and posted side by side; only a record posted without
\* a new calculation, or an invoice whose request died, breaks it (RevenueRecognition.calculate,
\* rev_rec_post, invoice_create and invoice_approve).
THEOREM ProjectsAreSummed ==
    ASSUME ProjectConstants
    PROVE  Operations => []ProjectsAddUp
<1>1. ProjectInv /\ [Step]_allVars => ProjectInv'
  BY ProjectsBehave
<1>2. Start => ProjectInv
  BY ProjectsStart
<1>3. ProjectInv => ProjectsAddUp
  <2>1. RevenueInv => Revenue!ProjectsAddUp
    <3>1. RevenueInv => Revenue!RevenueAddsUp
      BY RecognizedIsTotal DEF RevenueInv, RevenueSums, Revenue!RevenueAddsUp
    <3>2. Revenue!InvoicesAddUp
      BY DEF Revenue!InvoicesAddUp
    <3> QED BY <3>1, <3>2 DEF Revenue!ProjectsAddUp
  <2>2. InvoiceInv => Invoicing!ProjectsAddUp
    <3>1. Invoicing!InvoicesAddUp <=> \A i \in ProjectInvoices \ pj_lagging : Fits(invoice[i])
      BY DEF Invoicing!InvoicesAddUp, Fits
    <3>2. InvoiceInv => Invoicing!RevenueAddsUp
      <4> DEFINE g == [r \in {} |-> revenue[r].recognized]
      <4>1. Invoicing!Recognized(Invoicing!Posted) = SumOf(g)
        <5>1. Invoicing!Posted = {}
          BY DEF Invoicing!Posted
        <5> QED BY <5>1, SameInvoiceSum, Zenon DEF Invoicing!Recognized
      <4>2. g \in [{} -> Int] /\ IsFiniteSet({}) /\ \A x \in {} : g[x] = 0
        BY FS_EmptySet
      <4> HIDE DEF g
      <4>3. SumOf(g) = 0
        BY <4>2, SumZero
      <4> QED BY <4>1, <4>3 DEF InvoiceInv, Invoicing!RevenueAddsUp
    <3> QED BY <3>1, <3>2 DEF InvoiceInv, Invoicing!ProjectsAddUp
  <2> QED BY <2>1, <2>2 DEF ProjectInv, ProjectsAddUp
<1> QED BY <1>1, <1>2, <1>3, PTL DEF Operations

-----------------------------------------------------------------------------
(* Taxes: types.  A statement about a return needs the return; that a request      *)
(* which is under way names a document, and an idle worker none, is what keeps two *)
(* requests on one document apart.                                                 *)

ReturnLabels == {"edit", "file", "calculate", "insert", "post", "link", "sum", "save"}

Placed(q) ==
    /\ q.pc = "idle" <=> q.d = None
    /\ q.pc \in ReturnLabels => q.d \in Returns

TypeInv == TypeOK /\ \A w \in Workers : Placed(req[w])

\* What the types say of the local values of one worker.
LEMMA LocalTypes ==
    ASSUME TypeInv, NEW w \in Workers
    PROVE  /\ req[w] \in Request /\ Placed(req[w])
           /\ req[w].copy \in Return
           /\ req[w].copy.paid \in Nat
           /\ req[w].found \subseteq Assessments
  BY DEF TypeInv, TypeOK, Request, Return

LEMMA EmptyTypes ==
    NoReturn \in Return /\ NoAccrual \in Accrual /\ Idle \in Request /\ Placed(Idle)
  BY DEF NoReturn, Return, NoAccrual, Accrual, Idle, Request, Placed, ReturnLabels, None

\* A step of one worker keeps the types if its new local values and the tables have them.
LEMMA LocalStep ==
    ASSUME TypeInv, NEW w \in Workers, NEW q \in Request, Placed(q),
           req' = [req EXCEPT ![w] = q],
           return' \in [Returns -> Return], payments' \in [Returns -> Seq(PaymentState)],
           accrual' \in [Accruals -> Accrual], aborts' \in Nat,
           UNCHANGED <<rate, assessment>>
    PROVE  TypeInv'
  BY DEF TypeInv, TypeOK

\* A request that starts names a document, which is not None.
LEMMA StartsOnDocument ==
    ASSUME TypeInv, NEW w \in Workers, NEW d, MayStart(w, d)
    PROVE  req[w].pc = "idle" /\ d # None /\ \A v \in Workers : req[v].d # d
  BY LocalTypes DEF MayStart, Busy, At, Placed

\* Linking the entry to the last payment of a return keeps the sequence.
LEMMA LastPosted ==
    ASSUME NEW s \in Seq(PaymentState)
    PROVE  /\ [s EXCEPT ![Len(s)] = "posted"] \in Seq(PaymentState)
           /\ Len([s EXCEPT ![Len(s)] = "posted"]) = Len(s)
           /\ \A k \in 1 .. Len(s) :
                 [s EXCEPT ![Len(s)] = "posted"][k] = IF k = Len(s) THEN "posted" ELSE s[k]
<1>1. CASE Len(s) = 0
  <2>1. s = <<>> /\ 1 .. Len(s) = {} /\ DOMAIN s = {}
    BY <1>1, EmptySeq
  <2>2. [s EXCEPT ![Len(s)] = "posted"] = s
    BY <2>1
  <2> QED
    BY <2>1, <2>2
<1>2. CASE Len(s) # 0
  <2>1. PICK n \in 1 .. Len(s) : n = Len(s)
    BY <1>2, LenProperties
  <2>2. /\ [s EXCEPT ![n] = "posted"] \in Seq(PaymentState)
        /\ Len([s EXCEPT ![n] = "posted"]) = Len(s)
        /\ \A k \in 1 .. Len(s) : [s EXCEPT ![n] = "posted"][k] = IF k = n THEN "posted" ELSE s[k]
    BY ExceptSeq DEF PaymentState
  <2> QED
    BY <2>1, <2>2
<1> QED
  BY <1>1, <1>2

LEMMA TypeInit == Init => TypeInv
<1> SUFFICES ASSUME Init PROVE TypeInv
  OBVIOUS
<1>1. \A r \in Returns : <<>> \in Seq(PaymentState)
  OBVIOUS
<1> QED
  BY <1>1, EmptyTypes DEF Init, TypeInv, TypeOK

LEMMA TypeStep == TypeInv /\ [Next]_vars => TypeInv'
<1> SUFFICES ASSUME TypeInv, [Next]_vars PROVE TypeInv'
  OBVIOUS
<1>t. TypeOK
  BY DEF TypeInv
<1>tab. /\ return \in [Returns -> Return] /\ payments \in [Returns -> Seq(PaymentState)]
        /\ accrual \in [Accruals -> Accrual] /\ aborts \in Nat
  BY <1>t DEF TypeOK
<1>1. CASE ChangeRate
  BY <1>1 DEF ChangeRate, TypeInv, TypeOK, useTax
<1>2. ASSUME NEW r \in Returns, NEW period \in BOOLEAN, CreateReturn(r, period)
      PROVE  TypeInv'
  <2>1. return' \in [Returns -> Return]
    BY <1>2, <1>tab, ZenonT(40) DEF CreateReturn, Return
  <2> QED
    BY <2>1, <1>2 DEF CreateReturn, TypeInv, TypeOK, useTax
<1>3. ASSUME NEW a \in Assessments, CreateAssessment(a)
      PROVE  TypeInv'
  BY <1>3 DEF CreateAssessment, TypeInv, TypeOK
<1>4. ASSUME NEW u \in Accruals, CreateAccrual(u)
      PROVE  TypeInv'
  <2>1. accrual' \in [Accruals -> Accrual]
    BY <1>4, <1>tab DEF CreateAccrual, Accrual
  <2> QED
    BY <2>1, <1>4 DEF CreateAccrual, TypeInv, TypeOK
<1>5. ASSUME NEW w \in Workers, NEW r \in Returns,
             NEW label \in {"edit", "calculate", "file", "insert"}, Load(w, label, r)
      PROVE  TypeInv'
  <2> DEFINE q == [Idle EXCEPT !.pc = label, !.d = r, !.copy = return[r]]
  <2>1. q \in Request /\ Placed(q)
    BY <1>5, <1>tab, EmptyTypes, StartsOnDocument
    DEF Load, Request, Placed, ReturnLabels, Idle
  <2> QED
    BY <2>1, <1>5, <1>tab, LocalStep DEF Load, useTax
<1>6. ASSUME NEW w \in Workers, NEW a \in Assessments, Accrue(w, a)
      PROVE  TypeInv'
  <2> DEFINE q == [Idle EXCEPT !.pc = "accrue", !.d = a]
  <2>1. q \in Request /\ Placed(q)
    BY <1>6, EmptyTypes, StartsOnDocument DEF Accrue, Request, Placed, ReturnLabels, Idle
  <2> QED
    BY <2>1, <1>6, <1>tab, LocalStep DEF Accrue, Begin, useTax
<1>7. ASSUME NEW w \in Workers, NEW u \in Accruals, PostAccrual(w, u)
      PROVE  TypeInv'
  <2> DEFINE q == [Idle EXCEPT !.pc = "find", !.d = u]
  <2>1. q \in Request /\ Placed(q)
    BY <1>7, EmptyTypes, StartsOnDocument DEF PostAccrual, Request, Placed, ReturnLabels, Idle
  <2> QED
    BY <2>1, <1>7, <1>tab, LocalStep DEF PostAccrual, Begin, useTax
<1>8. ASSUME NEW w \in Workers, SaveChange(w)
      PROVE  TypeInv'
  <2>1. PICK row \in Written(w) : return' = [return EXCEPT ![req[w].d] = row]
    BY <1>8 DEF SaveChange
  <2>2. row \in Return
    BY <2>1, LocalTypes DEF Written, Return, At
  <2> QED
    BY <2>1, <2>2, <1>8, <1>tab, EmptyTypes, LocalStep DEF SaveChange, Finish, useTax
<1>9. ASSUME NEW w \in Workers, InsertPayment(w)
      PROVE  TypeInv'
  <2> DEFINE q == [req[w] EXCEPT !.pc = "post"]
  <2>1. q \in Request /\ Placed(q) /\ req[w].d \in Returns
    BY <1>9, LocalTypes DEF InsertPayment, At, Request, Placed, ReturnLabels
  <2>3. "recorded" \in PaymentState
    BY DEF PaymentState
  <2>2. payments' \in [Returns -> Seq(PaymentState)]
    BY <2>1, <2>3, <1>9, <1>tab DEF InsertPayment
  <2> QED
    BY <2>1, <2>2, <1>9, <1>tab, LocalStep DEF InsertPayment, useTax
<1>10. ASSUME NEW w \in Workers, PostEntry(w)
       PROVE  TypeInv'
  <2>1. [req[w] EXCEPT !.pc = "link"] \in Request /\ Placed([req[w] EXCEPT !.pc = "link"])
    BY <1>10, LocalTypes DEF PostEntry, At, Request, Placed, ReturnLabels
  <2> QED
    BY <2>1, <1>10, <1>tab, EmptyTypes, LocalStep DEF PostEntry, useTax
<1>11. ASSUME NEW w \in Workers, LinkEntry(w)
       PROVE  TypeInv'
  <2> DEFINE q == [req[w] EXCEPT !.pc = "sum"]
             r == req[w].d
  <2>1. q \in Request /\ Placed(q) /\ r \in Returns
    BY <1>11, LocalTypes DEF LinkEntry, At, Request, Placed, ReturnLabels
  <2>2. payments' = [payments EXCEPT ![r] = [payments[r] EXCEPT ![Len(payments[r])] = "posted"]]
    BY <1>11 DEF LinkEntry
  <2>3. [payments[r] EXCEPT ![Len(payments[r])] = "posted"] \in Seq(PaymentState)
    BY <2>1, <1>tab, LastPosted
  <2>4. payments' \in [Returns -> Seq(PaymentState)]
    BY <2>1, <2>2, <2>3, <1>tab
  <2> QED
    BY <2>1, <2>4, <1>11, <1>tab, LocalStep DEF LinkEntry, useTax
<1>12. ASSUME NEW w \in Workers, SumPayments(w)
       PROVE  TypeInv'
  <2> DEFINE n == Len(payments[req[w].d])
             q == [req[w] EXCEPT !.pc = "save", !.copy = [req[w].copy EXCEPT !.paid = n]]
  <2>1. req[w].d \in Returns /\ Placed(req[w]) /\ req[w].pc = "sum"
    BY <1>12, LocalTypes DEF SumPayments, At, Placed, ReturnLabels
  <2>2. n \in Nat
    BY <2>1, <1>tab
  <2>3. [req[w].copy EXCEPT !.paid = n] \in Return
    BY <2>2, LocalTypes DEF Return
  <2>4. q \in Request /\ Placed(q)
    BY <2>1, <2>3, LocalTypes DEF Request, Placed, ReturnLabels
  <2>5. req' = [req EXCEPT ![w] = q]
    BY <1>12 DEF SumPayments
  <2> QED
    BY <2>4, <2>5, <1>12, <1>tab, LocalStep DEF SumPayments, useTax
<1>13. ASSUME NEW w \in Workers, SavePaid(w)
       PROVE  TypeInv'
  <2>1. return' \in [Returns -> Return]
    BY <1>13, <1>tab, LocalTypes DEF SavePaid
  <2> QED
    BY <2>1, <1>13, <1>tab, EmptyTypes, LocalStep DEF SavePaid, Finish, useTax
<1>14. ASSUME NEW w \in Workers, FindPending(w)
       PROVE  TypeInv'
  <2> DEFINE pending == {a \in Assessments : assessment[a] = "pending"}
             q == [req[w] EXCEPT !.pc = "save_accrual", !.found = pending]
  <2>1. q \in Request /\ Placed(q)
    BY <1>14, LocalTypes DEF FindPending, At, Request, Placed, ReturnLabels
  <2>2. req' = [req EXCEPT ![w] = Idle] \/ req' = [req EXCEPT ![w] = q]
    BY <1>14 DEF FindPending
  <2> QED
    BY <2>1, <2>2, <1>14, <1>tab, EmptyTypes, LocalStep DEF FindPending, useTax
<1>15. ASSUME NEW w \in Workers, SaveAccrual(w)
       PROVE  TypeInv'
  <2> DEFINE q == [req[w] EXCEPT !.pc = "accrue"]
  <2>1. q \in Request /\ Placed(q)
    BY <1>15, LocalTypes DEF SaveAccrual, At, Request, Placed, ReturnLabels
  <2>2. [status |-> "posted", of |-> req[w].found] \in Accrual
    BY LocalTypes DEF Accrual
  <2>3. accrual' \in [Accruals -> Accrual]
    BY <2>2, <1>15, <1>tab DEF SaveAccrual
  <2> QED
    BY <2>1, <2>3, <1>15, <1>tab, LocalStep DEF SaveAccrual
<1>16. ASSUME NEW w \in Workers, FailToAccrue(w)
       PROVE  TypeInv'
  BY <1>16, <1>tab, EmptyTypes, LocalStep DEF FailToAccrue, Finish, useTax
<1>17. ASSUME NEW w \in Workers, Crash(w)
       PROVE  TypeInv'
  <2>1. /\ aborts' = aborts + 1 /\ req' = [req EXCEPT ![w] = Idle]
        /\ UNCHANGED <<return, payments, rate, assessment, accrual>>
    BY <1>17 DEF Crash, Finish, useTax
  <2>2. aborts' \in Nat
    BY <2>1, <1>tab
  <2> QED
    BY <2>1, <2>2, <1>tab, EmptyTypes, LocalStep
<1>18. CASE UNCHANGED vars
  BY <1>18 DEF vars, useTax, TypeInv, TypeOK
<1> QED
  BY <1>1, <1>2, <1>3, <1>4, <1>5, <1>6, <1>7, <1>8, <1>9, <1>10, <1>11, <1>12, <1>13, <1>14,
     <1>15, <1>16, <1>17, <1>18 DEF Next, Continue

\* Tax returns, payments, accruals and requests have their types, for any constants
\* (all of apps/tax that is modelled).
THEOREM TypeCorrect == Spec => []TypeOK
<1>1. TypeInv => TypeOK
  BY DEF TypeInv
<1> QED
  BY TypeInit, TypeStep, <1>1, PTL DEF Spec

-----------------------------------------------------------------------------
(* What a return is said to have been paid.  Every request writes back the whole   *)
(* row it loaded, so its copy of the amount must be that of the table; this needs  *)
(* that requests on one return are kept apart (Apart).  Between the entry of a     *)
(* payment and the save of the sum the amount lags behind: then the last payment   *)
(* is the posted one, and the sum of all payments is the right amount (Keeps).     *)

Apart ==
    \A v, w \in Workers : v # w /\ req[v].d # None => req[v].d # req[w].d

Counting == {"sum", "save"}

Keeps(w) ==
    LET r == req[w].d IN
    /\ req[w].pc \in {"edit", "calculate", "file"} => req[w].copy.paid = return[r].paid
    /\ req[w].pc \in {"post", "link"} => Len(payments[r]) # 0
    /\ req[w].pc \in Counting =>
          Len(payments[r]) # 0 /\ payments[r][Len(payments[r])] = "posted"
    /\ req[w].pc = "save" => req[w].copy.paid = Len(payments[r])

Settled(r) == Counted(r) \/ \E w \in Workers : req[w].d = r /\ req[w].pc \in Counting

PaidInv ==
    /\ TypeInv
    /\ Apart
    /\ aborts = 0 => (\A w \in Workers : Keeps(w)) /\ (\A r \in Returns : Settled(r))

\* A worker that keeps its document, or lets go of it, stays apart from the others.
LEMMA ApartStep ==
    ASSUME TypeInv, Apart, NEW w \in Workers, NEW q, req' = [req EXCEPT ![w] = q],
           \/ q.d = None
           \/ q.d = req[w].d
           \/ \A v \in Workers : req[v].d # q.d
    PROVE  Apart'
<1>1. \A v \in Workers : req'[v] = IF v = w THEN q ELSE req[v]
  BY DEF TypeInv, TypeOK
<1> QED
  BY <1>1 DEF Apart

\* A step of one worker that touches no return but its own changes nothing for the others.
LEMMA OthersKeep ==
    ASSUME TypeInv, Apart, NEW w \in Workers, NEW q, req' = [req EXCEPT ![w] = q],
           \A r \in Returns : r # req[w].d =>
               return'[r] = return[r] /\ payments'[r] = payments[r]
    PROVE  /\ \A v \in Workers : v # w /\ Keeps(v) => Keeps(v)'
           /\ \A r \in Returns : r # req[w].d /\ Settled(r) => Settled(r)'
<1>1. \A v \in Workers : v # w => req'[v] = req[v]
  BY DEF TypeInv, TypeOK
<1>2. ASSUME NEW v \in Workers, v # w, Keeps(v)
      PROVE  Keeps(v)'
  <2>1. req'[v] = req[v] /\ Placed(req[v])
    BY <1>1, <1>2, LocalTypes
  <2>2. CASE req[v].pc \in ReturnLabels
    <3>1. req[v].d \in Returns /\ req[v].d # req[w].d
      BY <2>1, <2>2, <1>2 DEF Placed, ReturnLabels, Apart
    <3> QED
      BY <3>1, <2>1, <1>2 DEF Keeps
  <2>3. CASE req[v].pc \notin ReturnLabels
    BY <2>1, <2>3 DEF Keeps, ReturnLabels, Counting
  <2> QED
    BY <2>2, <2>3
<1>3. ASSUME NEW r \in Returns, r # req[w].d, Settled(r)
      PROVE  Settled(r)'
  <2>1. return'[r] = return[r] /\ payments'[r] = payments[r]
    BY <1>3
  <2>2. CASE Counted(r)
    BY <2>1, <2>2 DEF Settled, Counted
  <2>3. CASE ~Counted(r)
    <3>1. PICK v \in Workers : req[v].d = r /\ req[v].pc \in Counting
      BY <2>3, <1>3 DEF Settled
    <3>2. req'[v] = req[v]
      BY <3>1, <1>1, <1>3
    <3> QED
      BY <3>1, <3>2 DEF Settled
  <2> QED
    BY <2>2, <2>3
<1> QED
  BY <1>2, <1>3

\* While a request on a return has not come to counting, nobody has, and the amount is right.
LEMMA NobodyCounts ==
    ASSUME TypeInv, Apart, NEW w \in Workers, req[w].d \in Returns, req[w].d # None,
           req[w].pc \notin Counting, Settled(req[w].d)
    PROVE  Counted(req[w].d)
  BY DEF Settled, Apart

\* A step of one worker keeps the invariant if it keeps it for the worker and its return.
LEMMA WorkerStep ==
    ASSUME PaidInv, TypeInv', NEW w \in Workers, NEW q, req' = [req EXCEPT ![w] = q],
           \A r \in Returns : r # req[w].d =>
               return'[r] = return[r] /\ payments'[r] = payments[r],
           \/ q.d = None
           \/ q.d = req[w].d
           \/ \A v \in Workers : req[v].d # q.d,
           aborts' = aborts,
           aborts = 0 => Keeps(w)',
           aborts = 0 => \A r \in Returns : r = req[w].d => Settled(r)'
    PROVE  PaidInv'
<1>1. Apart'
  BY ApartStep DEF PaidInv
<1>2. ASSUME aborts' = 0
      PROVE  (\A v \in Workers : Keeps(v)') /\ (\A r \in Returns : Settled(r)')
  BY <1>2, OthersKeep DEF PaidInv
<1> QED
  BY <1>1, <1>2 DEF PaidInv

\* A request that does not come from counting and changes no return leaves them settled.
LEMMA Unmoved ==
    ASSUME TypeInv, NEW w \in Workers, NEW q, req' = [req EXCEPT ![w] = q],
           req[w].pc \notin Counting, UNCHANGED <<return, payments>>,
           NEW r \in Returns, Settled(r)
    PROVE  Settled(r)'
<1>1. \A v \in Workers : v # w => req'[v] = req[v]
  BY DEF TypeInv, TypeOK
<1>2. Counted(r) => Counted(r)'
  BY DEF Counted
<1> QED
  BY <1>1, <1>2 DEF Settled

LEMMA PaidInit == Init => PaidInv
<1> SUFFICES ASSUME Init PROVE PaidInv
  OBVIOUS
<1>1. TypeInv
  BY TypeInit
<1>2. \A w \in Workers : req[w].pc = "idle" /\ req[w].d = None
  BY DEF Init, Idle
<1>3. ASSUME NEW r \in Returns
      PROVE  Counted(r)
  <2>1. return[r].paid = 0 /\ payments[r] = <<>>
    BY DEF Init, NoReturn
  <2>2. DOMAIN payments[r] = {}
    BY <2>1
  <2> QED
    BY <2>1, <2>2 DEF Counted
<1> QED
  BY <1>1, <1>2, <1>3 DEF PaidInv, Apart, Keeps, Counting, Settled

\* The request saves the amount it loaded, which is that of the table.
LEMMA SaveChangePaid ==
    ASSUME PaidInv, TypeInv', NEW w \in Workers, SaveChange(w)
    PROVE  PaidInv'
<1>d. PICK d : d = req[w].d
  OBVIOUS
<1>1. PICK row \in Written(w) : return' = [return EXCEPT ![d] = row]
  BY <1>d DEF SaveChange
<1>2. /\ req' = [req EXCEPT ![w] = Idle]
      /\ payments' = payments /\ aborts' = aborts
      /\ req'[w] = Idle /\ Idle.pc = "idle" /\ Idle.d = None
  BY DEF SaveChange, Finish, PaidInv, TypeInv, TypeOK, Idle
<1>3. req[w].pc \in {"edit", "calculate", "file"} /\ row.paid = req[w].copy.paid
  BY <1>1, LocalTypes DEF PaidInv, Written, At, Return
<1>4. d \in Returns /\ d # None
  BY <1>d, <1>3, LocalTypes DEF PaidInv, Placed, ReturnLabels
<1>5. return'[d] = row /\ \A r \in Returns : r # d => return'[r] = return[r]
  BY <1>1, <1>4 DEF PaidInv, TypeInv, TypeOK
<1>6. aborts = 0 => Counted(d)
  BY <1>d, <1>3, <1>4, NobodyCounts DEF PaidInv, Counting
<1>7. aborts = 0 => return'[d].paid = return[d].paid
  BY <1>d, <1>3, <1>5 DEF PaidInv, Keeps
<1>8. aborts = 0 => Settled(d)'
  BY <1>2, <1>6, <1>7 DEF Settled, Counted
<1>9. Keeps(w)'
  BY <1>2 DEF Keeps, Counting
<1> QED
  BY <1>d, <1>2, <1>5, <1>8, <1>9, WorkerStep

\* A new payment has no entry yet: it is not counted.
LEMMA InsertPaymentPaid ==
    ASSUME PaidInv, TypeInv', NEW w \in Workers, InsertPayment(w)
    PROVE  PaidInv'
<1>d. PICK d : d = req[w].d
  OBVIOUS
<1> DEFINE q == [req[w] EXCEPT !.pc = "post"]
<1>t. TypeInv /\ req[w] \in Request
  BY LocalTypes DEF PaidInv
<1>1. /\ req' = [req EXCEPT ![w] = q] /\ req'[w] = q /\ q.d = d /\ q.pc = "post"
      /\ return' = return /\ aborts' = aborts
      /\ req[w].pc = "insert"
  BY <1>d, <1>t DEF InsertPayment, At, TypeInv, TypeOK, Request
<1>2. d \in Returns /\ d # None
  BY <1>d, <1>1, <1>t, LocalTypes DEF Placed, ReturnLabels
<1>3. /\ payments'[d] = Append(payments[d], "recorded")
      /\ \A r \in Returns : r # d => payments'[r] = payments[r]
      /\ payments[d] \in Seq(PaymentState) /\ "recorded" \in PaymentState
  BY <1>d, <1>2, <1>t DEF InsertPayment, TypeInv, TypeOK, PaymentState
<1>4. /\ Len(payments'[d]) = Len(payments[d]) + 1
      /\ \A k \in 1 .. Len(payments[d]) : payments'[d][k] = payments[d][k]
      /\ payments'[d][Len(payments[d]) + 1] = "recorded"
      /\ DOMAIN payments[d] = 1 .. Len(payments[d])
      /\ DOMAIN payments'[d] = 1 .. (Len(payments[d]) + 1)
      /\ Len(payments[d]) \in Nat
  BY <1>3, AppendProperties, LenProperties
<1>5. aborts = 0 => Counted(d)
  BY <1>d, <1>1, <1>2, NobodyCounts DEF PaidInv, Counting
<1>6. {k \in DOMAIN payments'[d] : payments'[d][k] = "posted"}
        = {k \in DOMAIN payments[d] : payments[d][k] = "posted"}
  BY <1>4
<1>7. aborts = 0 => Settled(d)'
  BY <1>1, <1>5, <1>6 DEF Settled, Counted
<1>8. Keeps(w)'
  BY <1>d, <1>1, <1>4 DEF Keeps, Counting
<1> QED
  BY <1>d, <1>1, <1>3, <1>7, <1>8, WorkerStep, ZenonT(40)

\* Once its entry is linked, the last payment is a posted one, and all are to be counted.
LEMMA LinkEntryPaid ==
    ASSUME PaidInv, TypeInv', NEW w \in Workers, LinkEntry(w)
    PROVE  PaidInv'
<1>d. PICK d : d = req[w].d
  OBVIOUS
<1> DEFINE q == [req[w] EXCEPT !.pc = "sum"]
<1>t. TypeInv /\ req[w] \in Request
  BY LocalTypes DEF PaidInv
<1>1. /\ req' = [req EXCEPT ![w] = q] /\ req'[w] = q /\ q.d = d /\ q.pc = "sum"
      /\ return' = return /\ aborts' = aborts
      /\ req[w].pc = "link"
  BY <1>d, <1>t DEF LinkEntry, At, TypeInv, TypeOK, Request
<1>2. d \in Returns /\ payments[d] \in Seq(PaymentState)
  BY <1>d, <1>1, <1>t, LocalTypes DEF Placed, ReturnLabels, TypeInv, TypeOK
<1>3. payments' = [payments EXCEPT ![d] = [payments[d] EXCEPT ![Len(payments[d])] = "posted"]]
  BY <1>d DEF LinkEntry
<1>4. /\ payments'[d] = [payments[d] EXCEPT ![Len(payments[d])] = "posted"]
      /\ \A r \in Returns : r # d => payments'[r] = payments[r]
  BY <1>2, <1>3, <1>t DEF TypeInv, TypeOK
<1>5. /\ Len(payments'[d]) = Len(payments[d]) /\ Len(payments[d]) \in Nat
      /\ \A k \in 1 .. Len(payments[d]) :
            payments'[d][k] = IF k = Len(payments[d]) THEN "posted" ELSE payments[d][k]
  BY <1>2, <1>4, LastPosted, LenProperties
<1>6. aborts = 0 => Len(payments[d]) # 0
  BY <1>d, <1>1 DEF PaidInv, Keeps
<1>7. aborts = 0 => Keeps(w)'
  BY <1>1, <1>5, <1>6 DEF Keeps, Counting
<1>8. Settled(d)'
  BY <1>1 DEF Settled, Counting
<1>9. \A r \in Returns : r # req[w].d => return'[r] = return[r] /\ payments'[r] = payments[r]
  BY <1>d, <1>1, <1>4
<1> HIDE DEF q
<1> QED
  BY <1>d, <1>1, <1>7, <1>8, <1>9, WorkerStep, ZenonT(40)

LEMMA SumPaymentsPaid ==
    ASSUME PaidInv, TypeInv', NEW w \in Workers, SumPayments(w)
    PROVE  PaidInv'
<1>d. PICK d : d = req[w].d
  OBVIOUS
<1> DEFINE n == Len(payments[d])
           q == [req[w] EXCEPT !.pc = "save", !.copy = [req[w].copy EXCEPT !.paid = n]]
<1>t. TypeInv /\ req[w] \in Request /\ req[w].copy \in Return
  BY LocalTypes DEF PaidInv
<1>1. /\ req' = [req EXCEPT ![w] = q]
      /\ return' = return /\ payments' = payments /\ aborts' = aborts
      /\ req[w].pc = "sum"
  BY <1>d DEF SumPayments, At
<1>2. req'[w] = q /\ q.d = d /\ q.pc = "save" /\ q.copy.paid = n
  BY <1>d, <1>1, <1>t DEF TypeInv, TypeOK, Request, Return
<1>3. aborts = 0 => Len(payments[d]) # 0 /\ payments[d][Len(payments[d])] = "posted"
  BY <1>d, <1>1 DEF PaidInv, Keeps, Counting
<1>4. aborts = 0 => Keeps(w)'
  BY <1>1, <1>2, <1>3 DEF Keeps, Counting
<1>5. Settled(d)'
  BY <1>2 DEF Settled, Counting
<1> QED
  BY <1>d, <1>1, <1>2, <1>4, <1>5, WorkerStep

LEMMA SavePaidPaid ==
    ASSUME PaidInv, TypeInv', NEW w \in Workers, SavePaid(w)
    PROVE  PaidInv'
<1>d. PICK d : d = req[w].d
  OBVIOUS
<1>t. TypeInv
  BY DEF PaidInv
<1>1. /\ req' = [req EXCEPT ![w] = Idle]
      /\ payments' = payments /\ aborts' = aborts
      /\ req'[w] = Idle /\ Idle.pc = "idle" /\ Idle.d = None
      /\ req[w].pc = "save"
  BY <1>t DEF SavePaid, Finish, At, TypeInv, TypeOK, Idle
<1>2. d \in Returns /\ payments[d] \in Seq(PaymentState)
  BY <1>d, <1>1, <1>t, LocalTypes DEF Placed, ReturnLabels, TypeInv, TypeOK
<1>3. return'[d] = req[w].copy /\ \A r \in Returns : r # d => return'[r] = return[r]
  BY <1>d, <1>2, <1>t DEF SavePaid, TypeInv, TypeOK
<1>4. DOMAIN payments[d] = 1 .. Len(payments[d]) /\ Len(payments[d]) \in Nat
  BY <1>2, LenProperties
<1>5. aborts = 0 => /\ Len(payments[d]) # 0 /\ payments[d][Len(payments[d])] = "posted"
                    /\ return'[d].paid = Len(payments[d])
  BY <1>d, <1>1, <1>3 DEF PaidInv, Keeps, Counting
<1>6. aborts = 0 => Settled(d)'
  BY <1>1, <1>4, <1>5 DEF Settled, Counted
<1>7. Keeps(w)'
  BY <1>1 DEF Keeps, Counting
<1> QED
  BY <1>d, <1>1, <1>3, <1>6, <1>7, WorkerStep

\* A step that ends at a label at which nothing is kept, and changes no return.
LEMMA IdleStep ==
    ASSUME PaidInv, TypeInv', NEW w \in Workers, NEW q \in Request,
           req' = [req EXCEPT ![w] = q],
           UNCHANGED <<return, payments, aborts>>,
           req[w].pc \notin Counting,
           q.pc \notin {"edit", "calculate", "file", "post", "link"} \cup Counting,
           \/ q.d = None
           \/ q.d = req[w].d
           \/ \A v \in Workers : req[v].d # q.d
    PROVE  PaidInv'
<1>1. req'[w] = q
  BY DEF PaidInv, TypeInv, TypeOK
<1>2. Keeps(w)'
  BY <1>1 DEF Keeps, Counting
<1>3. aborts = 0 => \A r \in Returns : Settled(r)'
  BY Unmoved DEF PaidInv
<1> QED
  BY <1>2, <1>3, WorkerStep

LEMMA PaidStep == PaidInv /\ [Next]_vars => PaidInv'
<1> SUFFICES ASSUME PaidInv, [Next]_vars PROVE PaidInv'
  OBVIOUS
<1>t. TypeInv /\ TypeInv' /\ Apart
  BY TypeStep DEF PaidInv
<1>1. ASSUME UNCHANGED <<return, payments, req, aborts>>
      PROVE  PaidInv'
  BY <1>1, <1>t DEF PaidInv, Apart, Keeps, Settled, Counted
<1>2. ASSUME NEW r \in Returns, NEW period \in BOOLEAN, CreateReturn(r, period)
      PROVE  PaidInv'
  <2>1. UNCHANGED <<payments, req, aborts>> /\ \A s \in Returns : return'[s].paid = return[s].paid
    BY <1>2, <1>t DEF CreateReturn, TypeInv, TypeOK, Return
  <2>2. Apart'
    BY <2>1, <1>t DEF Apart
  <2>3. ASSUME NEW w \in Workers, Keeps(w)
        PROVE  Keeps(w)'
    <3>1. req[w].pc \in {"edit", "calculate", "file"} => req[w].d \in Returns
      BY <1>t, LocalTypes DEF Placed, ReturnLabels
    <3> QED
      BY <2>1, <2>3, <3>1 DEF Keeps
  <2>4. \A s \in Returns : Settled(s) => Settled(s)'
    BY <2>1 DEF Settled, Counted
  <2> QED
    BY <1>t, <2>1, <2>2, <2>3, <2>4 DEF PaidInv
<1>3. ASSUME NEW w \in Workers, NEW r \in Returns,
             NEW label \in {"edit", "calculate", "file", "insert"}, Load(w, label, r)
      PROVE  PaidInv'
  <2> DEFINE q == [Idle EXCEPT !.pc = label, !.d = r, !.copy = return[r]]
  <2>1. /\ req' = [req EXCEPT ![w] = q] /\ UNCHANGED <<return, payments, aborts>>
        /\ q.pc = label /\ q.d = r /\ q.copy = return[r] /\ req'[w] = q
    BY <1>3, <1>t DEF Load, Idle, TypeInv, TypeOK
  <2>2. req[w].pc = "idle" /\ \A v \in Workers : req[v].d # r
    BY <1>3, <1>t, StartsOnDocument DEF Load
  <2>3. Keeps(w)'
    BY <2>1 DEF Keeps, Counting
  <2>4. aborts = 0 => \A s \in Returns : Settled(s)'
    BY <2>1, <2>2, Unmoved DEF PaidInv, Counting
  <2> HIDE DEF q
  <2> QED
    BY <2>1, <2>2, <2>3, <2>4, <1>t, WorkerStep
<1>4. ASSUME NEW w \in Workers, NEW a \in Assessments, Accrue(w, a)
      PROVE  PaidInv'
  <2> DEFINE q == [Idle EXCEPT !.pc = "accrue", !.d = a]
  <2>1. q \in Request /\ q.pc = "accrue" /\ q.d = a
    BY EmptyTypes DEF Idle, Request
  <2>2. req[w].pc = "idle" /\ \A v \in Workers : req[v].d # a
    BY <1>4, <1>t, StartsOnDocument DEF Accrue
  <2> QED
    BY <2>1, <2>2, <1>4, <1>t, IdleStep DEF Accrue, Begin, useTax, Counting
<1>5. ASSUME NEW w \in Workers, NEW u \in Accruals, PostAccrual(w, u)
      PROVE  PaidInv'
  <2> DEFINE q == [Idle EXCEPT !.pc = "find", !.d = u]
  <2>1. q \in Request /\ q.pc = "find" /\ q.d = u
    BY EmptyTypes DEF Idle, Request
  <2>2. req[w].pc = "idle" /\ \A v \in Workers : req[v].d # u
    BY <1>5, <1>t, StartsOnDocument DEF PostAccrual
  <2> QED
    BY <2>1, <2>2, <1>5, <1>t, IdleStep DEF PostAccrual, Begin, useTax, Counting
<1>6. ASSUME NEW w \in Workers, PostEntry(w)
      PROVE  PaidInv'
  <2>1. /\ req[w].pc = "post" /\ req[w] \in Request
        /\ UNCHANGED <<return, payments, aborts>>
        /\ req' = [req EXCEPT ![w] = [req[w] EXCEPT !.pc = "link"]]
           \/ req' = [req EXCEPT ![w] = Idle]
    BY <1>6, <1>t, LocalTypes DEF PostEntry, At
  <2>2. CASE req' = [req EXCEPT ![w] = Idle]
    BY <2>1, <2>2, <1>t, EmptyTypes, IdleStep DEF Idle, Counting
  <2>3. CASE req' = [req EXCEPT ![w] = [req[w] EXCEPT !.pc = "link"]]
    <3> DEFINE q == [req[w] EXCEPT !.pc = "link"]
    <3>1. req'[w] = q /\ q.pc = "link" /\ q.d = req[w].d
      BY <2>1, <2>3, <1>t DEF TypeInv, TypeOK, Request
    <3>2. aborts = 0 => Len(payments[req[w].d]) # 0
      BY <2>1 DEF PaidInv, Keeps
    <3>3. aborts = 0 => Keeps(w)'
      BY <2>1, <3>1, <3>2 DEF Keeps, Counting
    <3>4. aborts = 0 => \A s \in Returns : Settled(s)'
      BY <2>1, <2>3, Unmoved DEF PaidInv, Counting
    <3> QED
      BY <2>1, <2>3, <3>1, <3>3, <3>4, <1>t, WorkerStep
  <2> QED
    BY <2>1, <2>2, <2>3
<1>7. ASSUME NEW w \in Workers, FindPending(w)
      PROVE  PaidInv'
  <2> DEFINE pending == {a \in Assessments : assessment[a] = "pending"}
             q == [req[w] EXCEPT !.pc = "save_accrual", !.found = pending]
  <2>1. /\ req[w].pc = "find" /\ UNCHANGED <<return, payments, aborts>>
        /\ req' = [req EXCEPT ![w] = Idle] \/ req' = [req EXCEPT ![w] = q]
    BY <1>7 DEF FindPending, At
  <2>2. q \in Request /\ q.pc = "save_accrual" /\ q.d = req[w].d
    BY <1>t, LocalTypes DEF Request
  <2> QED
    BY <2>1, <2>2, <1>t, EmptyTypes, IdleStep DEF Idle, Counting
<1>8. ASSUME NEW w \in Workers, SaveAccrual(w)
      PROVE  PaidInv'
  <2> DEFINE q == [req[w] EXCEPT !.pc = "accrue"]
  <2>1. q \in Request /\ q.pc = "accrue" /\ q.d = req[w].d
    BY <1>t, LocalTypes DEF Request
  <2> QED
    BY <2>1, <1>8, <1>t, IdleStep DEF SaveAccrual, At, Counting
<1>9. ASSUME NEW w \in Workers, FailToAccrue(w)
      PROVE  PaidInv'
  BY <1>9, <1>t, EmptyTypes, IdleStep DEF FailToAccrue, Finish, At, Idle, Counting, useTax
<1>10. ASSUME NEW w \in Workers, Crash(w)
       PROVE  PaidInv'
  <2>1. aborts' # 0 /\ req' = [req EXCEPT ![w] = Idle] /\ Idle.d = None
    BY <1>10, <1>t DEF Crash, Finish, Idle, TypeInv, TypeOK
  <2> QED
    BY <2>1, <1>t, ApartStep DEF PaidInv
<1>11. CASE UNCHANGED vars
  BY <1>1, <1>11 DEF vars
<1>12. CASE ChangeRate
  BY <1>1, <1>12 DEF ChangeRate
<1>13. ASSUME NEW a \in Assessments, CreateAssessment(a)
       PROVE  PaidInv'
  BY <1>1, <1>13 DEF CreateAssessment
<1>14. ASSUME NEW u \in Accruals, CreateAccrual(u)
       PROVE  PaidInv'
  BY <1>1, <1>14 DEF CreateAccrual
<1> QED
  BY <1>t, <1>2, <1>3, <1>4, <1>5, <1>6, <1>7, <1>8, <1>9, <1>10, <1>11, <1>12, <1>13, <1>14,
     SaveChangePaid, InsertPaymentPaid, LinkEntryPaid, SumPaymentsPaid, SavePaidPaid
  DEF Next, Continue

\* Unless a request died half-way, a return on which no request is under way has been paid
\* all its payments up to the last one with an entry (return_payment, post_return_payment,
\* and the edits, calculations and filings that save the row in between).
THEOREM AmountsPaid == Spec => []PaidIsPayments
<1>1. ASSUME PaidInv, aborts = 0, NEW r \in Returns, \A w \in Workers : req[w].d # r
      PROVE  Counted(r)
  BY <1>1 DEF PaidInv, Settled
<1>2. PaidInv => PaidIsPayments
  BY <1>1 DEF PaidIsPayments
<1> QED
  BY PaidInit, PaidStep, <1>2, PTL DEF Spec

LEMMA TaxesBehave == Operations => Spec
<1>1. Start => Init
  BY DEF Start
<1>2. [Step]_allVars => [Next]_vars
  <2>1. StepTaxes => Next
    BY DEF StepTaxes
  <2>2. Step => StepTaxes \/ UNCHANGED taxVars
    BY DEF Step, StepBank, StepEntities, StepStock, StepAssets, StepRecurring,
       StepPlans, StepPayroll, StepProjects, StepRecords, StepPeople
  <2>3. UNCHANGED allVars => UNCHANGED taxVars
    BY DEF allVars
  <2> QED BY <2>1, <2>2, <2>3 DEF taxVars
<1> QED BY <1>1, <1>2, PTL DEF Operations, Spec

\* The same among the other components.
THEOREM ReturnsArePaid == Operations => []PaidIsPayments
  BY TaxesBehave, AmountsPaid, PTL
===============================================================================
