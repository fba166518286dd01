----------------------------- MODULE FixedAssets ------------------------------
(***************************************************************************)
(* apps/fixed_assets: entering assets with their depreciation schedules,   *)
(* transfers between locations, and physical counts that are reconciled    *)
(* with the register.                                                      *)
(*                                                                         *)
(* Capitalizing an acquisition and processing a disposal insert a journal  *)
(* entry without its fiscal period first of all, and a depreciation run    *)
(* calls itself in place of the service, so they change nothing.           *)
(* The custodian, which a transfer moves as it does the location, is left  *)
(* out; amounts are in cents.                                              *)
(***************************************************************************)
EXTENDS Integers, Sequences

CONSTANTS
    Workers,     \* the server processes
    Assets,      \* bound: the assets that may be entered
    Locations,   \* where an asset may be
    Costs,       \* the depreciable amounts an asset may be entered with, more than 0
    Lives,       \* the useful lives, in months, it may be entered with
    Transfers,   \* bound: the transfers that may be entered
    Counts,      \* bound: the physical counts that may be made
    MaxAborts,   \* bound: how many requests may die half-way
    Offerings    \* sets of kinds of request: in a behaviour, users make those of one set

VARIABLES
    asset,      \* table Asset
    profile,    \* table DepreciationProfile: the assets that have one
    schedule,   \* table DepreciationSchedule: the rows of each asset, none of them posted
    transfer,   \* table AssetTransfer
    count,      \* table PhysicalInventory with its items
    edited,     \* history: the assets whose figures are no longer those of the schedule
    moved,      \* history: what a reconciliation did not find where the count expects it,
                \* or somebody else has moved since it began
    req, offered, aborts

register == <<asset, profile, schedule>>
history == <<edited, moved>>
vars == <<register, transfer, count, history, req, offered, aborts>>

Nowhere == "nowhere"      \* no location
Places == Locations \cup {Nowhere}

Asset == [made : BOOLEAN, loc : Places, cost : Costs \cup {0}, life : Lives \cup {0}]
NoAsset == [made |-> FALSE, loc |-> Nowhere, cost |-> 0, life |-> 0]

\* Accumulated depreciation and what the book value has above the salvage value.
Row == [acc : Int, left : Int]

Transfer == [status : {"none", "draft", "pending", "completed"},
             asset : Assets \cup {Nowhere}, to : Places]
NoTransfer == [status |-> "none", asset |-> Nowhere, to |-> Nowhere]

Item == [listed : BOOLEAN, expected : Places, is_found : BOOLEAN, found : Places]
NoItem == [listed |-> FALSE, expected |-> Nowhere, is_found |-> FALSE, found |-> Nowhere]
Count == [status : {"none", "planned", "in_progress", "reconciled"}, where : Places,
          item : [Assets -> Item]]
NoCount == [status |-> "none", where |-> Nowhere, item |-> [a \in Assets |-> NoItem]]

Request ==
    [op : {"none", "create", "edit", "transfer", "open", "reconcile"},
     pc : {"idle", "profile", "schedule", "edit", "move", "transferred", "list", "items",
           "status", "load", "relocate"},
     d : Assets \cup Transfers \cup Counts \cup {Nowhere},
     copy : Asset,                  \* what it loaded of an asset
     item : [Assets -> Item]]       \* the items it has yet to insert or to go through

Idle == [op |-> "none", pc |-> "idle", d |-> Nowhere, copy |-> NoAsset, item |-> NoCount.item]

TypeOK ==
    /\ asset \in [Assets -> Asset] /\ profile \subseteq Assets
    /\ \A a \in Assets : \A k \in DOMAIN schedule[a] : schedule[a][k] \in Row
    /\ transfer \in [Transfers -> Transfer]
    /\ count \in [Counts -> Count]
    /\ edited \subseteq Assets /\ moved \in [Counts -> SUBSET Assets]
    /\ req \in [Workers -> Request]
    /\ offered \in Offerings /\ aborts \in Nat

Init ==
    /\ asset = [a \in Assets |-> NoAsset] /\ profile = {}
    /\ schedule = [a \in Assets |-> <<>>]
    /\ transfer = [t \in Transfers |-> NoTransfer]
    /\ count = [c \in Counts |-> NoCount]
    /\ edited = {} /\ moved = [c \in Counts |-> {}]
    /\ req = [w \in Workers |-> Idle]
    /\ offered \in Offerings /\ aborts = 0

-----------------------------------------------------------------------------
At(w, label) == req[w].pc = label
Busy(w) == ~At(w, "idle")
Finish(w) == req' = [req EXCEPT ![w] = Idle]

\* Each document is worked on in one place at a time; the assets are not kept apart.
MayStart(w, op, d) == op \in offered /\ ~Busy(w) /\ \A v \in Workers : req[v].d # d

\* Worker w writes the row of an asset.  That its figures changed is remembered for its
\* schedule, that its location did for the counts, except for the one that is reconciled.
Write(w, a, row) ==
    /\ asset' = [asset EXCEPT ![a] = row]
    /\ edited' = IF row.cost = asset[a].cost /\ row.life = asset[a].life
                 THEN edited ELSE edited \cup {a}
    /\ moved' = [c \in Counts |-> IF row.loc = asset[a].loc \/ req[w].d = c
                                  THEN moved[c] ELSE moved[c] \cup {a}]

-----------------------------------------------------------------------------
(* asset_create and asset_edit. *)

CreateAsset(w, a, loc, cost, life) ==
    /\ MayStart(w, "create", a)
    /\ ~asset[a].made
    /\ LET row == [made |-> TRUE, loc |-> loc, cost |-> cost, life |-> life] IN
          /\ asset' = [asset EXCEPT ![a] = row]
          /\ req' = [req EXCEPT ![w] = [Idle EXCEPT !.op = "create", !.pc = "profile",
                                                    !.d = a, !.copy = row]]
    /\ UNCHANGED <<profile, schedule, transfer, count, history, aborts>>

SaveProfile(w) ==
    /\ At(w, "profile")
    /\ profile' = profile \cup {req[w].d}
    /\ req' = [req EXCEPT ![w].pc = "schedule"]
    /\ UNCHANGED <<asset, schedule, transfer, count, history, aborts>>

\* quantize(Decimal('0.01'), rounding=ROUND_HALF_UP)
Monthly(cost, life) == (2 * cost + life) \div (2 * life)

\* Mutant: the last period is one like the others.
EqualSchedule(cost, life) ==
    [k \in 1..life |-> [acc |-> k * Monthly(cost, life), left |-> cost - k * Monthly(cost, life)]]

\* The loop of generate_depreciation_schedule, of a new asset: nothing is accumulated yet.
Schedule(cost, life) ==
    LET acc[k \in 0..life] ==
          IF k = 0 THEN 0
          ELSE acc[k - 1] + (IF k = life THEN cost - acc[k - 1] ELSE Monthly(cost, life)) IN
    [k \in 1..life |-> [acc |-> acc[k], left |-> cost - acc[k]]]

\* bulk_create: one INSERT.  An asset with nothing to depreciate would get no rows.
SaveSchedule(w) ==
    /\ At(w, "schedule")
    /\ LET row == req[w].copy IN
          schedule' = [schedule EXCEPT ![req[w].d] = Schedule(row.cost, row.life)]
    /\ Finish(w)
    /\ UNCHANGED <<asset, profile, transfer, count, history, aborts>>

\* The page with the form, whose fields are all that is saved, and the request that
\* saves them are one request here.  The schedule stays as it is.
EditAsset(w, a) ==
    /\ MayStart(w, "edit", a)
    /\ asset[a].made
    /\ req' = [req EXCEPT ![w] = [Idle EXCEPT !.op = "edit", !.pc = "edit", !.d = a,
                                              !.copy = asset[a]]]
    /\ UNCHANGED <<register, transfer, count, history, aborts>>

SaveEdit(w) ==
    /\ At(w, "edit")
    /\ \E loc \in Places, cost \in Costs, life \in Lives :
          Write(w, req[w].d, [req[w].copy EXCEPT !.loc = loc, !.cost = cost, !.life = life])
    /\ Finish(w)
    /\ UNCHANGED <<profile, schedule, transfer, count, aborts>>

-----------------------------------------------------------------------------
(* Transfers. *)

CreateTransfer(t, a, to) ==
    /\ "transfer" \in offered
    /\ transfer[t].status = "none" /\ asset[a].made
    /\ transfer' = [transfer EXCEPT ![t] = [status |-> "draft", asset |-> a, to |-> to]]
    /\ UNCHANGED <<register, count, history, req, aborts>>

\* The view does not look at the status.
ApproveTransfer(t) ==
    /\ transfer[t].status # "none"
    /\ transfer' = [transfer EXCEPT ![t].status = "pending"]
    /\ UNCHANGED <<register, count, history, req, aborts>>

\* Nor does this view look at the status: a draft is completed, and so is a completed one.
CompleteTransfer(w, t) ==
    /\ MayStart(w, "transfer", t)
    /\ transfer[t].status # "none"
    /\ req' = [req EXCEPT ![w] = [Idle EXCEPT !.op = "transfer", !.pc = "move", !.d = t,
                                              !.copy = asset[transfer[t].asset]]]
    /\ UNCHANGED <<register, transfer, count, history, aborts>>

\* Both columns are written, also the one for which the transfer has no new value.
SaveMove(w) ==
    /\ At(w, "move")
    /\ LET t == transfer[req[w].d] IN
          Write(w, t.asset, [asset[t.asset] EXCEPT
                                !.loc = IF t.to = Nowhere THEN req[w].copy.loc ELSE t.to])
    /\ req' = [req EXCEPT ![w].pc = "transferred"]
    /\ UNCHANGED <<profile, schedule, transfer, count, aborts>>

SaveTransfer(w) ==
    /\ At(w, "transferred")
    /\ transfer' = [transfer EXCEPT ![req[w].d].status = "completed"]
    /\ Finish(w)
    /\ UNCHANGED <<register, count, history, aborts>>

-----------------------------------------------------------------------------
(* Physical counts. *)

OpenCount(w, c, where) ==
    /\ MayStart(w, "open", c)
    /\ count[c].status = "none"
    /\ count' = [count EXCEPT ![c].status = "planned", ![c].where = where]
    /\ req' = [req EXCEPT ![w] = [Idle EXCEPT !.op = "open", !.pc = "list", !.d = c]]
    /\ UNCHANGED <<register, transfer, history, aborts>>

\* The assets at the location, or all of them, with the location they have now.
ListAssets(w) ==
    /\ At(w, "list")
    /\ LET where == count[req[w].d].where IN
          req' = [req EXCEPT ![w].pc = "items", ![w].item = [a \in Assets |->
              IF asset[a].made /\ where \in {Nowhere, asset[a].loc}
              THEN [NoItem EXCEPT !.listed = TRUE, !.expected = asset[a].loc] ELSE NoItem]]
    /\ UNCHANGED <<register, transfer, count, history, aborts>>

InsertItems(w) ==
    /\ At(w, "items")
    /\ count' = [count EXCEPT ![req[w].d].item = req[w].item]
    /\ req' = [req EXCEPT ![w].pc = "status"]
    /\ UNCHANGED <<register, transfer, history, aborts>>

BeginCount(w) ==
    /\ At(w, "status")
    /\ count' = [count EXCEPT ![req[w].d].status = "in_progress"]
    /\ Finish(w)
    /\ UNCHANGED <<register, transfer, history, aborts>>

\* One UPDATE of the formset, whatever the status of the count.  What it finds is looked up
\* at the place: an asset may be anywhere, for the register may be wrong.
CountItem(c, a, found) ==
    /\ count[c].item[a].listed
    /\ \A w \in Workers : req[w].d # c
    /\ count' = [count EXCEPT ![c].item[a].is_found = TRUE, ![c].item[a].found = found]
    /\ UNCHANGED <<register, transfer, history, req, aborts>>

\* The status, which the view does not look at, is saved first: a count that was reconciled
\* may be counted and reconciled again.
Reconcile(w, c) ==
    /\ MayStart(w, "reconcile", c)
    /\ count[c].status # "none"
    /\ count' = [count EXCEPT ![c].status = "reconciled"]
    /\ moved' = [moved EXCEPT ![c] = {a \in Assets : asset[a].loc # count[c].item[a].expected}]
    /\ req' = [req EXCEPT ![w] = [Idle EXCEPT !.op = "reconcile", !.pc = "load", !.d = c]]
    /\ UNCHANGED <<register, transfer, edited, aborts>>

LoadItems(w) ==
    /\ At(w, "load")
    /\ req' = [req EXCEPT ![w].pc = "relocate", ![w].item = [a \in Assets |->
                  LET i == count[req[w].d].item[a] IN
                  IF i.is_found /\ i.found # Nowhere THEN i ELSE NoItem]]
    /\ UNCHANGED <<register, transfer, count, history, aborts>>

ToMove(w) == {a \in Assets : req[w].item[a].found # req[w].item[a].expected}

\* Mutant: the asset is put where it was expected.
RelocateToExpected(w) ==
    /\ At(w, "relocate")
    /\ \E a \in ToMove(w) :
          /\ asset' = [asset EXCEPT ![a].loc = req[w].item[a].expected]
          /\ req' = [req EXCEPT ![w].item[a] = NoItem]
    /\ UNCHANGED <<profile, schedule, transfer, count, history, aborts>>

\* One asset, of which the location alone is written; to the other counts it has moved.
Relocate(w) ==
    /\ At(w, "relocate")
    /\ \E a \in ToMove(w) :
          /\ Write(w, a, [asset[a] EXCEPT !.loc = req[w].item[a].found])
          /\ req' = [req EXCEPT ![w].item[a] = NoItem]
    /\ UNCHANGED <<profile, schedule, transfer, count, aborts>>

EndReconcile(w) ==
    /\ At(w, "relocate") /\ ToMove(w) = {}
    /\ Finish(w)
    /\ UNCHANGED <<register, transfer, count, history, aborts>>

-----------------------------------------------------------------------------
Crash(w) ==
    /\ Busy(w) /\ aborts < MaxAborts
    /\ aborts' = aborts + 1
    /\ Finish(w)
    /\ UNCHANGED <<register, transfer, count, history>>

Continue(w) ==
    \/ SaveProfile(w) \/ SaveSchedule(w) \/ SaveEdit(w)
    \/ SaveMove(w) \/ SaveTransfer(w)
    \/ ListAssets(w) \/ InsertItems(w) \/ BeginCount(w)
    \/ LoadItems(w) \/ Relocate(w) \/ EndReconcile(w)

Step ==
    \/ \E t \in Transfers : \/ ApproveTransfer(t)
                            \/ \E a \in Assets, to \in Places : CreateTransfer(t, a, to)
    \/ \E c \in Counts, a \in Assets, found \in Places : CountItem(c, a, found)
    \/ \E w \in Workers :
          \/ \E a \in Assets, l \in Places, cost \in Costs, life \in Lives :
                CreateAsset(w, a, l, cost, life)
          \/ \E a \in Assets : EditAsset(w, a)
          \/ \E t \in Transfers : CompleteTransfer(w, t)
          \/ \E c \in Counts : Reconcile(w, c) \/ \E l \in Places : OpenCount(w, c, l)
          \/ Continue(w) \/ Crash(w)

Next == Step /\ UNCHANGED offered

Spec == Init /\ [][Next]_vars

-----------------------------------------------------------------------------
(* Properties. *)

\* Unless a request died, every asset that is entered has a schedule.  Unless the asset was
\* edited since, the schedule has a row for each month of its life and the last one writes
\* off all that it may lose.  Its book value never increases but in the last month, and
\* there by no more than half a cent for each month: what rounding had taken too much.
ScheduleEndsAtSalvage ==
    \A a \in Assets :
        LET rows == schedule[a]
            n == Len(rows) IN
        /\ aborts = 0 /\ asset[a].made /\ (\A w \in Workers : req[w].d # a) => n > 0
        /\ n > 0 =>
              /\ a \notin edited => n = asset[a].life /\ rows[n].acc = asset[a].cost
              /\ rows[n].left = 0
              /\ \A k \in 2..(n - 1) : rows[k - 1].left >= rows[k].left
              /\ 2 * (rows[n].left - rows[IF n > 1 THEN n - 1 ELSE n].left) <= n

\* When a reconciliation has gone through its items, every asset that was found is where
\* it was found, except where it was not where the count expected it, or was moved since.
ReconcileFollowsCount ==
    [][\A w \in Workers :
          At(w, "relocate") /\ req'[w].pc = "idle" /\ aborts' = aborts =>
              \A a \in Assets :
                  LET i == count[req[w].d].item[a] IN
                  i.is_found /\ i.found # Nowhere /\ a \notin moved[req[w].d] =>
                      asset[a].loc = i.found]_vars
=============================================================================
