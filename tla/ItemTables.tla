----------------------------- MODULE ItemTables -----------------------------
(***************************************************************************)
(* The item, currency and retainer tables of the map server and the code   *)
(* that changes them (database.rs, runtime/quest_apply.rs, processor.rs).  *)
(*                                                                         *)
(* Every database call is one transaction on one connection, so it is one  *)
(* action.  A handler that makes several calls is several actions: the     *)
(* packet task and the ticker interleave between them, and the process may *)
(* end between them (Crash).  A kind stands for a (catalog id, quality)    *)
(* pair; bazaar and retainer slots, names and times are left out, because  *)
(* nothing reads them back.                                                *)
(***************************************************************************)
EXTENDS Integers, FiniteSetsExt

CONSTANTS
    Charas, Retainers,
    Goods,        \* kinds kept in the normal bag, in retainers and in bazaars
    KeyItems,     \* kinds kept in the key-item package
    Gil,          \* the currency kind 1000001
    Tasks,        \* the packet task and the ticker
    Amounts,      \* quantities a script may add, list or remove
    GilDeltas,    \* the amounts AddGil adds or takes
    Prices,       \* bazaar prices per unit
    MaxStack,     \* maxStack of the goods
    I32Max,       \* the largest i32, scaled down
    MaxItems      \* bound: rows server_items may ever hold

ASSUME ItemBounds ==
    /\ {MaxStack, I32Max, MaxItems} \subseteq Nat \ {0}
    /\ Amounts \subseteq Nat \ {0} /\ Prices \subseteq Nat /\ GilDeltas \subseteq Nat

VARIABLES
    items,    \* server_items: id -> [kind, qty]
    newId,    \* the next AUTOINCREMENT id: ids are never reused
    bag,      \* characters_inventory
    stored,   \* characters_retainer_inventory
    bazaar,   \* characters_retainer_bazaar
    hired,    \* characters_retainers
    task      \* what a task is in the middle of

tables == <<items, newId, bag, stored, bazaar, hired>>
vars == <<tables, task>>

Packages == {"normal", "key", "currency"}
Kinds == Goods \cup KeyItems \cup {Gil}
Idle == [op |-> "idle"]

-----------------------------------------------------------------------------
(* Queries *)

Qty(r) == items[r.id].qty

\* characters_inventory JOIN server_items, restricted to one kind.
Rows(c, pkg, k) ==
    {r \in bag : r.chara = c /\ r.pkg = pkg /\ r.id \in DOMAIN items /\ items[r.id].kind = k}

\* Fault: the next slot is the number of rows, so a hole makes it collide.
SlotByCount(c, pkg) == Cardinality({r \in bag : r.chara = c /\ r.pkg = pkg})

\* COALESCE(MAX(slot), -1) + 1 of one package.
NextSlot(c, pkg) == Max({-1} \cup {r.slot : r \in {x \in bag : x.chara = c /\ x.pkg = pkg}}) + 1

Total(rows) == SumFunction([r \in rows |-> Qty(r)])
Saturated(n) == IF n > I32Max THEN I32Max ELSE n
Fits(n) == n <= I32Max

\* The last of the rows by slot: a removal empties the bag from its end.
LastOf(rows) == CHOOSE r \in rows : \A x \in rows : x.slot <= r.slot

AddQty(id, n) == items' = [items EXCEPT ![id].qty = Saturated(@ + n)] /\ UNCHANGED newId
Insert(k, n) ==
    /\ newId <= MaxItems
    /\ newId' = newId + 1
    /\ items' = [i \in DOMAIN items \cup {newId} |->
                   IF i = newId THEN [kind |-> k, qty |-> n] ELSE items[i]]
BagRow(c, pkg, id, slot) == [chara |-> c, pkg |-> pkg, id |-> id, slot |-> slot]

\* A write to the stacks of (c, k) contests every removal that read them
\* before, but for the tasks named (history only: read by UncontestedRemovalIsExact).
Contested(c, k, but) ==
    [t \in Tasks |->
        IF t \notin but /\ task[t].op = "remove" /\ task[t].chara = c /\ task[t].kind = k
        THEN [task[t] EXCEPT !.clean = FALSE] ELSE task[t]]

-----------------------------------------------------------------------------
(* Grants *)

\* add_harvest_item: top up the partial stacks in slot order, spill the rest
\* into new stacks at the end of the bag.
AddHarvestItem(c, k, n) ==
    LET rows == Rows(c, "normal", k)
        room == [r \in rows |-> Max({0, MaxStack - Qty(r)})]
        RoomBefore(r) == SumFunctionOnSet(room, {x \in rows : x.slot < r.slot})
        take == [r \in rows |-> Max({0, Min({room[r], n - RoomBefore(r)})})]
        rest == Max({0, n - SumFunction(room)})
        spill == 1..((rest + MaxStack - 1) \div MaxStack)
    IN /\ newId' = newId + Cardinality(spill) /\ newId' <= MaxItems + 1
       /\ items' = [i \in DOMAIN items \cup {newId + j - 1 : j \in spill} |->
                      IF i \notin DOMAIN items
                      THEN [kind |-> k, qty |-> Min({MaxStack, rest - (i - newId) * MaxStack})]
                      ELSE [items[i] EXCEPT !.qty = @ + SumFunctionOnSet(take, {r \in rows : r.id = i})]]
       /\ bag' = bag \cup {BagRow(c, "normal", newId + j - 1, NextSlot(c, "normal") + j - 1) : j \in spill}
       /\ task' = Contested(c, k, {})
       /\ UNCHANGED <<stored, bazaar, hired>>

\* add_key_item: once per character.
AddKeyItem(c, k) ==
    /\ Rows(c, "key", k) = {}
    /\ Insert(k, 1)
    /\ bag' = bag \cup {BagRow(c, "key", newId, NextSlot(c, "key"))}
    /\ UNCHANGED <<stored, bazaar, hired, task>>

\* add_gil: one row per character, its new value saturated and never below 0;
\* a quantity that does not fit an i32 fails the call.
AddGil(c, d) ==
    /\ d # 0
    /\ \/ \E r \in Rows(c, "currency", Gil) :
             /\ Fits(Qty(r))
             /\ items' = [items EXCEPT ![r.id].qty = Max({0, Saturated(@ + d)})]
             /\ UNCHANGED <<newId, bag>>
       \/ /\ Rows(c, "currency", Gil) = {}
          /\ Insert(Gil, Max({0, d}))
          /\ bag' = bag \cup {BagRow(c, "currency", newId, 0)}
    /\ UNCHANGED <<stored, bazaar, hired, task>>

\* apply_add_item: routed by package; any other package is refused.
AddItem(c, pkg, k, n) ==
    \/ pkg = "currency" /\ AddGil(c, n)
    \/ pkg = "key" /\ k \in KeyItems /\ AddKeyItem(c, k)
    \/ pkg = "normal" /\ k \in Goods /\ AddHarvestItem(c, k, n)

\* add_retainer_inventory_item: merged into the first row, without a cap.
AddItemToRetainer(r, k, n) ==
    LET rows == {x \in stored : x.retainer = r /\ items[x.id].kind = k}
    IN /\ \/ \E x \in rows : AddQty(x.id, n) /\ UNCHANGED stored
          \/ /\ rows = {}
             /\ Insert(k, n)
             /\ stored' = stored \cup {[retainer |-> r, id |-> newId]}
       /\ UNCHANGED <<bag, bazaar, hired, task>>

-----------------------------------------------------------------------------
(* Retainers *)

\* add_retainer_bazaar_item: merged into a listing of the same price and kind.
AddRetainerBazaarItem(r, k, n, p) ==
    LET rows == {x \in bazaar : x.retainer = r /\ x.price = p /\ items[x.id].kind = k}
    IN /\ \/ \E x \in rows : AddQty(x.id, n) /\ UNCHANGED bazaar
          \/ /\ rows = {}
             /\ Insert(k, n)
             /\ bazaar' = bazaar \cup {[retainer |-> r, id |-> newId, price |-> p]}
       /\ UNCHANGED <<bag, stored, hired, task>>

\* INSERT OR IGNORE keyed by the pair: two characters may hire one retainer.
HireRetainer(c, r) ==
    /\ <<c, r>> \notin hired
    /\ hired' = hired \cup {<<c, r>>}
    /\ UNCHANGED <<items, newId, bag, stored, bazaar, task>>

DismissRetainer(c, r) ==
    /\ <<c, r>> \in hired
    /\ hired' = hired \ {<<c, r>>}
    /\ UNCHANGED <<items, newId, bag, stored, bazaar, task>>

TotalPrice(l) == Saturated(l.price * Qty(l))
GilRow(c) == Rows(c, "currency", Gil)

\* Fault: the sum is not restricted to the buyer.
AnyonesGil(c) == Total(UNION {GilRow(x) : x \in Charas})

\* What the buyer can spend: the sum of the gil rows, 0 when it is unreadable.
BuyerGil(c) == IF Fits(Total(GilRow(c))) THEN Total(GilRow(c)) ELSE 0

\* Fault: the item row is created without its inventory row.
MadeNowhere(rows, c, pkg, id) == {}

\* The id and the bag row of a stack to be created, or nothing when the
\* purchase merges into a row that is there.
Made(rows, c, pkg, id) == IF rows = {} THEN {BagRow(c, pkg, id, NextSlot(c, pkg))} ELSE {}

\* LIMIT 1 without an order.
FirstOf(rows) == IF rows = {} THEN {} ELSE {CHOOSE r \in rows : TRUE}

\* Where n units of a kind go: into a row that exists, else into a new one.
Credit(rows, id, n) == [i \in {IF rows = {} THEN id ELSE (CHOOSE r \in rows : TRUE).id} |-> n]

\* purchase_retainer_bazaar_item, the committed path.  The owner is the first
\* row for the retainer; the whole stack is bought; the buyer's gil row is
\* debited, the owner's credited or created; the listing and its item row are
\* deleted; the stack is added to the buyer's first stack of that kind.
Purchase(buyer, l, owner) ==
    LET price == TotalPrice(l)
        k == items[l.id].kind
        own == Rows(buyer, "normal", k)
        gilMade == IF price = 0 THEN {} ELSE Made(GilRow(owner), owner, "currency", newId)
        goodsId == newId + Cardinality(gilMade)
        goodsMade == Made(own, buyer, "normal", goodsId)
        kept == DOMAIN items \ {l.id}
        new == {r.id : r \in gilMade \cup goodsMade}
        toOwner == IF price = 0 THEN [i \in {} |-> 0] ELSE Credit(GilRow(owner), newId, price)
        toBuyer == Credit(own, goodsId, Qty(l))
        debit == {r.id : r \in FirstOf(GilRow(buyer))}
        Of(f, i) == IF i \in DOMAIN f THEN f[i] ELSE 0
    IN /\ <<owner, l.retainer>> \in hired
       /\ owner # buyer
       /\ Qty(l) > 0
       /\ BuyerGil(buyer) >= price
       /\ newId' = newId + Cardinality(new) /\ newId' <= MaxItems + 1
       /\ items' = [i \in kept \cup new |->
                      LET credit == Of(toOwner, i) + Of(toBuyer, i) IN
                      IF i \in new THEN [kind |-> IF i = goodsId /\ goodsMade # {} THEN k ELSE Gil, qty |-> credit]
                      ELSE [items[i] EXCEPT !.qty = @ + credit - (IF i \in debit THEN price ELSE 0)]]
       /\ bag' = bag \cup gilMade \cup goodsMade
       /\ bazaar' = bazaar \ {l}
       /\ task' = Contested(buyer, k, {})
       /\ UNCHANGED <<stored, hired>>

-----------------------------------------------------------------------------
(* apply_remove_item: one query, then one call per row, the last slot first *)

RemoveRead(t, c, k, n) ==
    LET rows == Rows(c, "normal", k)
    IN /\ task[t] = Idle
       /\ task' = [task EXCEPT ![t] =
             [op |-> "remove", chara |-> c, kind |-> k, left |-> n, clean |-> TRUE,
              rows |-> {[id |-> r.id, slot |-> r.slot, qty |-> Qty(r)] : r \in rows},
              due |-> Max({0, Total(rows) - n})]]
       /\ UNCHANGED tables

\* Fault: a removed stack is not counted.
RemoveRowUncounted(t) ==
    /\ task[t].op = "remove"
    /\ task[t].left > 0
    /\ task[t].rows # {}
    /\ LET r == LastOf(task[t].rows)
       IN \/ /\ r.qty > task[t].left
             /\ items' = [items EXCEPT ![r.id].qty = r.qty - task[t].left]
             /\ task' = [task EXCEPT ![t].left = 0, ![t].rows = @ \ {r}]
             /\ UNCHANGED bag
          \/ /\ r.qty <= task[t].left
             /\ bag' = {x \in bag : ~(x.chara = task[t].chara /\ x.id = r.id)}
             /\ task' = [task EXCEPT ![t].rows = @ \ {r}]
             /\ UNCHANGED items
    /\ UNCHANGED <<newId, stored, bazaar, hired>>

\* set_quantity writes the quantity computed from what was read; remove_item
\* deletes the inventory row only.
RemoveRow(t) ==
    /\ task[t].op = "remove"
    /\ task[t].left > 0
    /\ task[t].rows # {}
    /\ LET r == LastOf(task[t].rows)
           c == task[t].chara
           rest == Contested(c, task[t].kind, {t})
       IN \/ /\ r.qty > task[t].left
             /\ items' = IF r.id \in DOMAIN items THEN [items EXCEPT ![r.id].qty = r.qty - task[t].left] ELSE items
             /\ task' = [rest EXCEPT ![t].left = 0, ![t].rows = @ \ {r}]
             /\ UNCHANGED bag
          \/ /\ r.qty <= task[t].left
             /\ bag' = {x \in bag : ~(x.chara = c /\ x.id = r.id)}
             /\ task' = [rest EXCEPT ![t].left = @ - r.qty, ![t].rows = @ \ {r}]
             /\ UNCHANGED items
    /\ UNCHANGED <<newId, stored, bazaar, hired>>

RemoveEnds(t) == task[t].op = "remove" /\ (task[t].left = 0 \/ task[t].rows = {})

RemoveDone(t) ==
    /\ RemoveEnds(t)
    /\ task' = [task EXCEPT ![t] = Idle]
    /\ UNCHANGED tables

-----------------------------------------------------------------------------
\* The process ends between two calls: the tables are what is left.
Crash ==
    /\ \E t \in Tasks : task[t] # Idle
    /\ task' = [t \in Tasks |-> Idle]
    /\ UNCHANGED tables

Init ==
    /\ items = <<>> /\ newId = 1
    /\ bag = {} /\ stored = {} /\ bazaar = {} /\ hired = {}
    /\ task = [t \in Tasks |-> Idle]

Grant ==
    \E c \in Charas :
        \/ \E pkg \in Packages, k \in Goods \cup KeyItems, n \in Amounts : AddItem(c, pkg, k, n)
        \/ \E d \in GilDeltas : AddGil(c, d) \/ AddGil(c, -d)

Trade ==
    \/ \E r \in Retainers, k \in Goods, n \in Amounts :
          AddItemToRetainer(r, k, n) \/ \E p \in Prices : AddRetainerBazaarItem(r, k, n, p)
    \/ \E c \in Charas, r \in Retainers : HireRetainer(c, r) \/ DismissRetainer(c, r)
    \/ \E c, o \in Charas, l \in bazaar : Purchase(c, l, o)

TaskStep(t) ==
    \/ \E c \in Charas, k \in Goods, n \in Amounts : RemoveRead(t, c, k, n)
    \/ RemoveRow(t) \/ RemoveDone(t)

Next ==
    \/ Grant \/ Trade
    \/ \E t \in Tasks : TaskStep(t)
    \/ Crash

Spec == Init /\ [][Next]_vars

-----------------------------------------------------------------------------
(* Properties *)

Containers == bag \cup stored \cup bazaar
Held(k) == {i \in DOMAIN items : items[i].kind = k /\ \E x \in Containers : x.id = i}
Count(k) == SumFunction([i \in Held(k) |-> items[i].qty])

\* An item row has one home, and a home has its row: whatever is bought, listed,
\* stored, granted and removed, no two container rows of any character, retainer
\* or bazaar refer to the same server_items row, or one to a deleted row (a
\* purchase deletes the listing's row and makes its own,
\* database.rs purchase_retainer_bazaar_item), and no slot of a bag is used twice.
OneHome ==
    /\ \A x \in Containers : x.id \in DOMAIN items
    /\ \A x, y \in Containers : x.id = y.id => x = y
    /\ \A x, y \in bag : x.chara = y.chara /\ x.pkg = y.pkg /\ x.slot = y.slot => x = y

\* No debt: the unclamped debit of a purchase never takes a gil row, nor any
\* other quantity a container holds, below zero.
NoDebt == \A x \in Containers : Qty(x) >= 0

\* A sale conserves: the step that takes a listing out of a bazaar neither
\* creates nor destroys gil or goods, whoever owns the retainer by then.
SaleConserves == [][bazaar \ bazaar' # {} => \A k \in Kinds : Count(k)' = Count(k)]_vars

\* A removal that no other task disturbed took exactly the asked quantity, or
\* all there was, however the quantity is spread over stacks.  (A disturbed
\* one writes back a stale quantity: what was added in between is lost.)
UncontestedRemovalIsExact ==
    \A t \in Tasks :
        RemoveEnds(t) /\ task[t].clean => Total(Rows(task[t].chara, "normal", task[t].kind)) = task[t].due
=============================================================================
