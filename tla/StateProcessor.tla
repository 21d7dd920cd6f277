--------------------------- MODULE StateProcessor ---------------------------
(***************************************************************************)
(* WarehouseStateProcessor (consumer_service/state_processor.py): what one *)
(* call of process() reads, computes and writes. A loop iteration is a step*)
(* of its own; every read and the final batch may fail, and the batch may  *)
(* be applied although its answer is lost. Events come in any order and    *)
(* any number of times: Kafka redelivers, and orders and products have     *)
(* different keys, hence different partitions.                             *)
(***************************************************************************)
EXTENDS WarehouseEvents

CONSTANT MaxInt   \* the largest value of a Cassandra int

ASSUME MaxIntAssumption == MaxInt \in Nat

VARIABLES
    (* the tables of cassandra/init.cql; a row never written reads as EmptyRow *)
    inventory,    \* inventory_by_product_zone
    byZone,       \* inventory_by_zone
    totals,       \* inventory_by_product
    versions,     \* entity_versions: last_event_timestamp, Never if no row
    processed,    \* processed_events: status by event_id, "NONE" if no row
    history,      \* event_history_by_product
    orders,       \* orders_by_id: status by order_id, "NONE" if no row
    items,        \* order_items_by_order: quantity by order and key, 0 if no row
    (* the call in progress *)
    pc,           \* "idle" or the part of process() that runs
    ev,           \* the event it was given
    changes,      \* the list of InventoryChange
    booked,       \* item_quantities of the order being created
    next,         \* index of the loop that runs (items, changes, rows)
    row,          \* index of _allocate_product's loop over rows
    remaining,    \* what _allocate_product has still to reserve
    rows,         \* new inventory rows by key
    deltas,       \* product_deltas
    status,       \* what the batch will record: "PROCESSED", "STALE", ...
    verdict       \* how the last call ended

tables == <<inventory, byZone, totals, versions, processed, history, orders, items>>
plan == <<changes, booked>>
vars == <<inventory, byZone, totals, versions, processed, history, orders, items,
          pc, ev, changes, booked, next, row, remaining, rows, deltas, status, verdict>>

Never == -1
NoRows == [k \in {} |-> EmptyRow]
NoItems == [k \in Keys |-> 0]
NoDeltas == [p \in Products |-> [available |-> 0, reserved |-> 0]]

Working ==
    {"dedupe", "dispatch", "items", "allocate", "collect", "stale", "apply", "write"}
Recorded == {"PROCESSED", "STALE", "ORDER_ALREADY_COMPLETED"}
Verdicts == Recorded \union {"NONE", "DUPLICATE", "REFUSED", "STORE_ERROR"}

OrderKey(o) == <<"order", o>>
ProductKey(p) == <<"product", p>>
InventoryKey(k) == <<"inventory", k>>
EntityKeys ==
    {OrderKey(o) : o \in Orders} \union {ProductKey(p) : p \in Products}
        \union {InventoryKey(k) : k \in Keys}

Init ==
    /\ inventory = [k \in Keys |-> EmptyRow]
    /\ byZone = [k \in Keys |-> EmptyRow]
    /\ totals = [p \in Products |-> EmptyRow]
    /\ versions = [k \in EntityKeys |-> Never]
    /\ processed = [r \in RawIds |-> "NONE"]
    /\ history = {}
    /\ orders = [o \in Orders |-> "NONE"]
    /\ items = [o \in Orders |-> NoItems]
    /\ pc = "idle"
    /\ ev = None
    /\ changes = << >>
    /\ booked = NoItems
    /\ next = 1
    /\ row = 1
    /\ remaining = 0
    /\ rows = NoRows
    /\ deltas = NoDeltas
    /\ status = "PROCESSED"
    /\ verdict = "NONE"

-----------------------------------------------------------------------------
(* Calls and returns.                                                      *)

\* The call ends with result v (or an exception) and its locals are gone.
Return(v) ==
    /\ pc' = "idle"
    /\ ev' = None
    /\ changes' = << >>
    /\ booked' = NoItems
    /\ next' = 1
    /\ row' = 1
    /\ remaining' = 0
    /\ rows' = NoRows
    /\ deltas' = NoDeltas
    /\ status' = "PROCESSED"
    /\ verdict' = v

\* A ProcessingError, or any other exception that sends the event to the DLQ.
Refuse == Return("REFUSED") /\ UNCHANGED tables

Goto(target) ==
    /\ pc' = target
    /\ UNCHANGED <<tables, ev, rows, deltas, status, verdict>>

Receive(e) ==
    /\ pc = "idle"
    /\ pc' = "dedupe"
    /\ ev' = e
    /\ UNCHANGED <<tables, plan, next, row, remaining, rows, deltas, status, verdict>>

\* Any read may raise StateReadError. Where a part reads only at its first step,
\* a failure at a later one has the same effect.
ReadFails ==
    /\ pc \in Working \ {"items", "write"}
    /\ Return("STORE_ERROR")
    /\ UNCHANGED tables

\* _record_processed_only: the batch will hold the event and its history only.
RecordOnly(s) ==
    /\ pc' = "write"
    /\ status' = s
    /\ UNCHANGED <<tables, ev, plan, next, row, remaining, rows, deltas, verdict>>

-----------------------------------------------------------------------------
(* process: identity, duplicates, dispatch.                                *)

RejectIdentity ==
    /\ pc = "dedupe"
    /\ ~HasIdentity(ev)
    /\ Refuse

NeverProcessed(r) == FALSE   \* mutant: no look-up

\* The id is looked up without the blanks at its ends.
IsProcessed(r) == processed[Trim[r]] # "NONE"

SkipDuplicate ==
    /\ pc = "dedupe"
    /\ HasIdentity(ev)
    /\ IsProcessed(ev.id)
    /\ Return("DUPLICATE")
    /\ UNCHANGED tables

Dispatch ==
    /\ pc = "dedupe"
    /\ HasIdentity(ev)
    /\ ~IsProcessed(ev.id)
    /\ Goto("dispatch")
    /\ UNCHANGED <<plan, next, row, remaining>>

RejectType ==
    /\ pc = "dispatch"
    /\ ev.type \notin InventoryTypes \union OrderTypes
    /\ Refuse

AllStale(entities, t) == \A k \in entities : t <= versions[k]   \* mutant
Older(entities, t) == \E k \in entities : t < versions[k]      \* mutant

\* _find_stale_entity: some entity has seen this moment or a later one.
IsStale(entities, t) == \E k \in entities : t <= versions[k]

-----------------------------------------------------------------------------
(* The six inventory handlers.                                             *)

PlanInventory ==
    /\ pc = "dispatch"
    /\ ev.type \in InventoryTypes
    /\ WellFormed(ev)
    /\ changes' = ChangesOf(ev, inventory)
    /\ Goto("stale")
    /\ UNCHANGED <<booked, next, row, remaining>>

RejectInventory ==
    /\ pc = "dispatch"
    /\ ev.type \in InventoryTypes
    /\ ~WellFormed(ev)
    /\ Refuse

-----------------------------------------------------------------------------
(* _order_created: explicit zones are booked as asked, the others by       *)
(* _allocate_product, zone after zone.                                     *)

RejectOrder ==
    /\ pc = "dispatch"
    /\ ev.type \in OrderTypes
    /\ ev.order = None
    /\ Refuse

OrderIsStale ==
    /\ pc = "dispatch"
    /\ ev.type \in OrderTypes
    /\ ev.order # None
    /\ IsStale({OrderKey(ev.order)}, ev.timestamp)
    /\ RecordOnly("STALE")

\* Both handlers go on when the order's version is older than the event.
OrderIsFresh(type) ==
    /\ pc = "dispatch"
    /\ ev.type = type
    /\ ev.order # None
    /\ ~IsStale({OrderKey(ev.order)}, ev.timestamp)

AnyOrder(o) == ev.items # << >>   \* mutant: the order may exist

CanCreate(o) == orders[o] = "NONE" /\ ev.items # << >>

BeginOrder ==
    /\ OrderIsFresh("ORDER_CREATED")
    /\ CanCreate(ev.order)
    /\ Goto("items")
    /\ UNCHANGED <<plan, next, row, remaining>>

RejectNewOrder ==
    /\ OrderIsFresh("ORDER_CREATED")
    /\ ~CanCreate(ev.order)
    /\ Refuse

\* mutant: a zone's second booking replaces its first
BookAnew(k, quantity) ==
    /\ changes' = Append(changes, Delta(k, -quantity, quantity))
    /\ booked' = [booked EXCEPT ![k] = quantity]

\* quantity units of key k are reserved for the order.
Book(k, quantity) ==
    /\ changes' = Append(changes, Delta(k, -quantity, quantity))
    /\ booked' = [booked EXCEPT ![k] = @ + quantity]

ItemInHand == pc = "items" /\ next <= Len(ev.items)

RejectItem ==
    /\ ItemInHand
    /\ ~ItemWellFormed(ev.items[next])
    /\ Refuse

BookItem ==
    /\ ItemInHand
    /\ LET item == ev.items[next] IN
       /\ ItemWellFormed(item)
       /\ item.zone # None
       /\ Book(<<item.product, item.zone>>, item.quantity)
    /\ next' = next + 1
    /\ Goto("items")
    /\ UNCHANGED <<row, remaining>>

BeginAllocation ==
    /\ ItemInHand
    /\ ItemWellFormed(ev.items[next])
    /\ ev.items[next].zone = None
    /\ remaining' = ev.items[next].quantity
    /\ row' = 1
    /\ Goto("allocate")
    /\ UNCHANGED <<plan, next>>

InStock(k) == inventory[k].available   \* mutant: pending changes forgotten

\* What a row has left after what this order took from it: every pending change
\* is a booking, so pending_delta is the negated sum of them.
Unbooked(k) == inventory[k].available - booked[k]

Allocating == pc = "allocate" /\ row <= Len(RowOrder)
Allocates(k) == k[1] = ev.items[next].product /\ Unbooked(k) > 0
WholeRow(a, b) == a   \* mutant: no minimum
Least(a, b) == IF a <= b THEN a ELSE b

SkipRow ==
    /\ Allocating
    /\ ~Allocates(RowOrder[row])
    /\ row' = row + 1
    /\ Goto("allocate")
    /\ UNCHANGED <<plan, next, remaining>>

TakeFromRow ==
    /\ Allocating
    /\ Allocates(RowOrder[row])
    /\ LET taken == Least(Unbooked(RowOrder[row]), remaining) IN
       /\ Book(RowOrder[row], taken)
       /\ remaining' = remaining - taken
       /\ IF taken = remaining THEN next' = next + 1 /\ Goto("items")
                               ELSE next' = next /\ Goto("allocate")
    /\ row' = row + 1

OutOfStock ==
    /\ pc = "allocate"
    /\ row > Len(RowOrder)
    /\ Refuse

OrderBooked ==
    /\ pc = "items"
    /\ next > Len(ev.items)
    /\ Goto("stale")
    /\ UNCHANGED <<plan, next, row, remaining>>

-----------------------------------------------------------------------------
(* _order_completed: what the order reserved leaves the warehouse.         *)

HasItems(o) == items[o] # NoItems   \* mutant: whatever its status

CanComplete(o) == orders[o] = "CREATED" /\ items[o] # NoItems

RejectCompletion ==
    /\ OrderIsFresh("ORDER_COMPLETED")
    /\ orders[ev.order] # "COMPLETED"
    /\ ~CanComplete(ev.order)
    /\ Refuse

CompletedAlready ==
    /\ OrderIsFresh("ORDER_COMPLETED")
    /\ orders[ev.order] = "COMPLETED"
    /\ RecordOnly("ORDER_ALREADY_COMPLETED")

BeginCompletion ==
    /\ OrderIsFresh("ORDER_COMPLETED")
    /\ CanComplete(ev.order)
    /\ Goto("collect")
    /\ UNCHANGED <<plan, next, row, remaining>>

PutBack(k, quantity) == Delta(k, quantity, -quantity)   \* mutant: a release

Consume(k, quantity) == Delta(k, 0, -quantity)

CollectItem ==
    /\ pc = "collect"
    /\ row <= Len(RowOrder)
    /\ LET k == RowOrder[row]
           quantity == items[ev.order][k] IN
       changes' = IF quantity > 0 THEN Append(changes, Consume(k, quantity))
                                  ELSE changes
    /\ row' = row + 1
    /\ Goto("collect")
    /\ UNCHANGED <<booked, next, remaining>>

ItemsCollected ==
    /\ pc = "collect"
    /\ row > Len(RowOrder)
    /\ Goto("stale")
    /\ UNCHANGED <<plan, next, row, remaining>>

-----------------------------------------------------------------------------
(* _apply_inventory_changes.                                               *)

ChangedKeys == {changes[n].key : n \in 1 .. Len(changes)}
ChangedProducts == {k[1] : k \in ChangedKeys}

EntitiesOfPlan ==
    (IF ev.type \in OrderTypes THEN {OrderKey(ev.order)} ELSE {})
        \union {ProductKey(p) : p \in ChangedProducts}
        \union {InventoryKey(k) : k \in ChangedKeys}

PlanIsStale ==
    /\ pc = "stale"
    /\ IsStale(EntitiesOfPlan, ev.timestamp)
    /\ RecordOnly("STALE")

PlanIsFresh ==
    /\ pc = "stale"
    /\ ~IsStale(EntitiesOfPlan, ev.timestamp)
    /\ next' = 1
    /\ Goto("apply")
    /\ UNCHANGED <<plan, row, remaining>>

CurrentRow(k) == IF k \in DOMAIN rows THEN rows[k] ELSE inventory[k]
CountAsDelta(change) ==   \* mutant
    CurrentRow(change.key).available
        + (IF change.count # None THEN change.count ELSE change.available)

NewAvailable(change) ==
    IF change.count # None THEN change.count
    ELSE CurrentRow(change.key).available + change.available
NewReserved(change) == CurrentRow(change.key).reserved + change.reserved
ReserveSuffices(change) == NewReserved(change) >= 0   \* mutant: stock unchecked
Suffices(change) == NewAvailable(change) >= 0 /\ NewReserved(change) >= 0

DeltaAsked(change) == change.available   \* mutant: a count's delta is 0

\* What a change does to the aggregate of its product.
AvailableMoved(change) == NewAvailable(change) - CurrentRow(change.key).available
ReservedMoved(change) == NewReserved(change) - CurrentRow(change.key).reserved

ApplyChange ==
    /\ pc = "apply"
    /\ next <= Len(changes)
    /\ Suffices(changes[next])
    /\ LET change == changes[next]
           new == [available |-> NewAvailable(change),
                   reserved |-> NewReserved(change),
                   supplier |-> IF change.overwrite THEN change.supplier
                                                    ELSE CurrentRow(change.key).supplier]
       IN /\ rows' = [k \in DOMAIN rows \union {change.key} |->
                        IF k = change.key THEN new ELSE rows[k]]
          /\ deltas' = [deltas EXCEPT
                ![change.key[1]].available = @ + AvailableMoved(change),
                ![change.key[1]].reserved = @ + ReservedMoved(change)]
    /\ next' = next + 1
    /\ UNCHANGED <<tables, pc, ev, plan, row, remaining, status, verdict>>

\* The aggregate row of a product takes the supplier of its first changed row.
FirstKeyOf(p) ==
    LET first == CHOOSE n \in 1 .. Len(changes) :
                    /\ changes[n].key[1] = p
                    /\ \A m \in 1 .. n - 1 : changes[m].key[1] # p
    IN changes[first].key

\* mutant: the aggregate is not read
DeltasAsTotal(p) ==
    [available |-> deltas[p].available, reserved |-> deltas[p].reserved, supplier |-> None]

NewTotal(p) ==
    [available |-> totals[p].available + deltas[p].available,
     reserved |-> totals[p].reserved + deltas[p].reserved,
     supplier |-> rows[FirstKeyOf(p)].supplier]

TotalSuffices(p) == NewTotal(p).available >= 0 /\ NewTotal(p).reserved >= 0

\* The plan is refused when a row does not suffice for its change, or at the
\* end, when a product's aggregate would become negative.
RejectPlan ==
    /\ pc = "apply"
    /\ IF next <= Len(changes) THEN ~Suffices(changes[next])
                               ELSE \E p \in ChangedProducts : ~TotalSuffices(p)
    /\ Refuse

BatchReady ==
    /\ pc = "apply"
    /\ next > Len(changes)
    /\ \A p \in ChangedProducts : TotalSuffices(p)
    /\ Goto("write")
    /\ UNCHANGED <<plan, next, row, remaining>>

-----------------------------------------------------------------------------
(* The LOGGED batch.                                                       *)

\* The subjects of an event's history: its products, or else its order.
Subjects(e) ==
    LET products == ({e.product} \union {e.items[n].product : n \in 1 .. Len(e.items)})
                        \ {None}
    IN IF products # {} THEN products ELSE {e.order} \ {None}

HistoryRows ==
    {[subject |-> s, timestamp |-> Stored(ev.timestamp), id |-> ev.id, status |-> status] :
        s \in Subjects(ev)}

SamePrimaryKey(h, g) ==
    h.subject = g.subject /\ h.timestamp = g.timestamp /\ h.id = g.id

RecordEvent ==
    /\ processed' = [processed EXCEPT ![ev.id] = status]
    /\ history' = {h \in history : \A g \in HistoryRows : ~SamePrimaryKey(h, g)}
                    \union HistoryRows

\* Changed rows, both projections and the aggregate, versions and the order.
WriteInventory ==
    /\ inventory' = [k \in Keys |-> CurrentRow(k)]
    /\ byZone' = [k \in Keys |-> IF k \in DOMAIN rows THEN rows[k] ELSE byZone[k]]
    /\ totals' = [p \in Products |->
                    IF p \in ChangedProducts THEN NewTotal(p) ELSE totals[p]]
    /\ versions' = [k \in EntityKeys |->
                      IF k \in EntitiesOfPlan THEN Stored(ev.timestamp) ELSE versions[k]]

WriteOrder ==
    CASE ev.type = "ORDER_CREATED" ->
           /\ orders' = [orders EXCEPT ![ev.order] = "CREATED"]
           /\ items' = [items EXCEPT ![ev.order] =
                          [k \in Keys |-> IF booked[k] > 0 THEN booked[k] ELSE @[k]]]
      [] ev.type = "ORDER_COMPLETED" ->
           orders' = [orders EXCEPT ![ev.order] = "COMPLETED"] /\ UNCHANGED items
      [] OTHER -> UNCHANGED <<orders, items>>

\* Cassandra refuses a batch with a value that is no int.
BatchFits ==
    /\ \A k \in DOMAIN rows : rows[k].available <= MaxInt /\ rows[k].reserved <= MaxInt
    /\ status = "PROCESSED" =>
          \A p \in ChangedProducts :
              NewTotal(p).available <= MaxInt /\ NewTotal(p).reserved <= MaxInt

\* The batch is applied as a whole. Its answer may be lost: the call then ends
\* in a StateWriteError all the same.
Write ==
    /\ pc = "write"
    /\ BatchFits
    /\ RecordEvent
    /\ IF status = "PROCESSED"
         THEN WriteInventory /\ WriteOrder
         ELSE UNCHANGED <<inventory, byZone, totals, versions, orders, items>>
    /\ Return(status) \/ Return("STORE_ERROR")

\* mutant: a batch that is not atomic
WriteHalf ==
    /\ pc = "write"
    /\ status = "PROCESSED"
    /\ WriteInventory
    /\ Return("STORE_ERROR")
    /\ UNCHANGED <<processed, history, orders, items>>

WriteFails ==
    /\ pc = "write"
    /\ Return("STORE_ERROR")
    /\ UNCHANGED tables

-----------------------------------------------------------------------------
Step ==
    \/ RejectIdentity \/ SkipDuplicate \/ Dispatch \/ RejectType \/ ReadFails
    \/ PlanInventory \/ RejectInventory
    \/ RejectOrder \/ OrderIsStale \/ BeginOrder \/ RejectNewOrder
    \/ RejectItem \/ BookItem \/ BeginAllocation
    \/ SkipRow \/ TakeFromRow \/ OutOfStock \/ OrderBooked
    \/ RejectCompletion \/ CompletedAlready \/ BeginCompletion
    \/ CollectItem \/ ItemsCollected
    \/ PlanIsStale \/ PlanIsFresh \/ ApplyChange \/ RejectPlan
    \/ BatchReady \/ Write \/ WriteFails

Next == Step \/ \E e \in Events : Receive(e)

Spec == Init /\ [][Next]_vars

-----------------------------------------------------------------------------
(* Properties.                                                             *)

RowType == [available : Int, reserved : Int, supplier : Suppliers \union {None}]

\* The variables keep their types.
TypeOK ==
    /\ inventory \in [Keys -> RowType]
    /\ byZone \in [Keys -> RowType]
    /\ totals \in [Products -> RowType]
    /\ versions \in [EntityKeys -> Nat \union {Never}]
    /\ processed \in [RawIds -> Recorded \union {"NONE"}]
    /\ \A h \in history : h.id \in RawIds /\ h.status \in Recorded
    /\ orders \in [Orders -> {"NONE", "CREATED", "COMPLETED"}]
    /\ items \in [Orders -> [Keys -> Nat]]
    /\ pc \in Working \union {"idle"}
    /\ ev \in Events \union {None}
    /\ changes \in Seq(Change)
    /\ booked \in [Keys -> Nat]
    /\ next \in Nat \ {0} /\ row \in Nat \ {0} /\ remaining \in Nat
    /\ DOMAIN rows \subseteq Keys
    /\ \A k \in DOMAIN rows : rows[k] \in RowType
    /\ deltas \in [Products -> [available : Int, reserved : Int]]
    /\ status \in Recorded
    /\ verdict \in Verdicts

\* Neither a row nor an aggregate is ever negative, whatever the events ask.
StockNonNegative ==
    /\ \A k \in Keys : inventory[k].available >= 0 /\ inventory[k].reserved >= 0
    /\ \A p \in Products : totals[p].available >= 0 /\ totals[p].reserved >= 0

\* The projections agree: both tables of rows hold the same, and a product's
\* aggregate, which is only ever moved by deltas, is the sum of its rows.
ProjectionsAgree ==
    /\ byZone = inventory
    /\ \A p \in Products :
          /\ totals[p].available = SumOver(KeysOf(p), LAMBDA k : inventory[k].available)
          /\ totals[p].reserved = SumOver(KeysOf(p), LAMBDA k : inventory[k].reserved)

\* Hence the test for a negative aggregate refuses nothing the rows allowed.
TotalsNeverRefuse ==
    pc = "apply" /\ next > Len(changes) => \A p \in ChangedProducts : TotalSuffices(p)

Applied == {e \in Events : processed[e.id] = "PROCESSED"}
AppliedAt(k, type) == {e \in Applied : e.type = type /\ e.product = k[1] /\ e.zone = k[2]}
OpenOrders == {o \in Orders : orders[o] = "CREATED"}

\* What a row holds in reserve is explained by the events recorded PROCESSED:
\* each reservation and release once, each order from its creation to its
\* completion, nothing for events that were refused, stale or retried.
ReservedIsExplained ==
    \A k \in Keys :
        inventory[k].reserved =
            SumOver(AppliedAt(k, "PRODUCT_RESERVED"), LAMBDA e : e.quantity)
          - SumOver(AppliedAt(k, "PRODUCT_RELEASED"), LAMBDA e : e.quantity)
          + SumOver(OpenOrders, LAMBDA o : items[o][k])

\* An order that was created has booked exactly what its items ask for, over
\* explicit zones and allocated ones.
OrdersFullyBooked ==
    \A e \in Applied : e.type = "ORDER_CREATED" =>
        \A p \in Products :
            SumOver(KeysOf(p), LAMBDA k : items[e.order][k]) = Requested(e, p)

\* What _allocate_product found, the apply loop can take: an order without
\* explicit zones is refused for want of stock before its plan, or not at all.
AllocationHolds ==
    /\ pc = "apply"
    /\ ev.type = "ORDER_CREATED"
    /\ next <= Len(changes)
    /\ \A n \in 1 .. Len(ev.items) : ev.items[n].zone = None
    => Suffices(changes[next])

\* As long as no event releases stock, what an open order holds in reserve is
\* there when it completes.
OpenOrdersCompletable ==
    pc = "apply" /\ ev.type = "ORDER_COMPLETED" /\ next <= Len(changes)
        => Suffices(changes[next])

\* The version of an entity never goes back in time.
VersionsNeverRegress == [][\A k \in EntityKeys : versions'[k] >= versions[k]]_vars

\* Products an event changes; those of a completion are its order's.
TouchedProducts(e) ==
    CASE e.type \in InventoryTypes -> {e.product}
      [] e.type = "ORDER_CREATED" -> {e.items[n].product : n \in 1 .. Len(e.items)}
      [] e.type = "ORDER_COMPLETED" ->
           {k[1] : k \in {j \in Keys : items[e.order][j] > 0}}

EarlierOnSame(e) ==
    {f \in Applied : TouchedProducts(e) \intersect TouchedProducts(f) # {}}

\* An event is applied only if it is newer than every event applied to one of
\* its products before, to the millisecond that entity_versions keeps of them.
NewestWins ==
    [][\A e \in Events :
          processed[e.id] = "NONE" /\ processed'[e.id] = "PROCESSED" =>
             \A f \in EarlierOnSame(e) : Stored(f.timestamp) < e.timestamp]_vars

\* What wms_service/main.py says of an older event: it is recorded as STALE. Within
\* a millisecond the code does not keep to this.
OlderIsStale ==
    [][\A e \in Events :
          processed[e.id] = "NONE" /\ processed'[e.id] = "PROCESSED" =>
             \A f \in EarlierOnSame(e) : f.timestamp < e.timestamp]_vars

\* A redelivered event changes nothing: once an outcome is recorded under its
\* event_id, no step of a call for it touches a table.
DuplicatesHarmless ==
    [][\A e \in Events : ev = e /\ processed[e.id] # "NONE" => UNCHANGED tables]_vars

\* An order is created once and completed once, and its items stay.
OrderLifecycle ==
    [][\A o \in Orders :
          /\ orders[o] = "CREATED" => orders'[o] # "NONE"
          /\ orders[o] = "COMPLETED" => orders'[o] = "COMPLETED"
          /\ orders[o] # "NONE" => items'[o] = items[o]]_vars

\* What these need to be inductive: what the call in progress has established
\* about its event, the tables it read and its plan, and still may rely on.
Planning == pc \in {"items", "allocate", "collect", "stale", "apply"}
Applying == pc = "apply" \/ (pc = "write" /\ status = "PROCESSED")

EventInHand ==
    /\ pc = "idle" \/ ev \in Events
    /\ pc \notin {"idle", "dedupe"} => HasIdentity(ev) /\ ~IsProcessed(ev.id)

OrderInHand ==
    /\ pc \in {"items", "allocate"} => ev.type = "ORDER_CREATED"
    /\ pc = "collect" => ev.type = "ORDER_COMPLETED"
    /\ Planning \/ Applying =>
          /\ ev.type \in InventoryTypes \union OrderTypes
          /\ ev.type \in OrderTypes => ev.order \in Orders
          /\ ev.type = "ORDER_CREATED" => orders[ev.order] = "NONE"
          /\ ev.type = "ORDER_COMPLETED" => orders[ev.order] = "CREATED"

PlanInHand ==
    /\ \A k \in DOMAIN rows : rows[k].available >= 0 /\ rows[k].reserved >= 0
    /\ pc = "apply" => \A n \in 1 .. Len(changes) : n < next => changes[n].key \in DOMAIN rows
    /\ Applying => ~IsStale(EntitiesOfPlan, ev.timestamp)
    /\ pc = "write" /\ status = "PROCESSED" =>
          /\ ChangedKeys \subseteq DOMAIN rows
          /\ \A p \in ChangedProducts : TotalSuffices(p)

VersionsStored == \A k \in EntityKeys : versions[k] # Never => Stored(versions[k]) = versions[k]

IInv ==
    /\ TypeOK
    /\ StockNonNegative
    /\ EventInHand
    /\ OrderInHand
    /\ PlanInHand
    /\ VersionsStored

\* For NewestWins: a plan leaves out no product of its event, and what was applied
\* before is in the versions.
PlanCovers ==
    /\ pc \in {"idle", "dedupe", "dispatch"} => next = 1 /\ row = 1
    /\ pc = "allocate" => next <= Len(ev.items)
    /\ pc \in {"items", "allocate"} =>
          \A n \in 1 .. Len(ev.items) : n < next => ev.items[n].product \in ChangedProducts
    /\ pc = "collect" =>
          \A n \in 1 .. Len(RowOrder) :
              n < row /\ items[ev.order][RowOrder[n]] > 0 => RowOrder[n] \in ChangedKeys
    /\ pc = "stale" \/ Applying => TouchedProducts(ev) \subseteq ChangedProducts

AppliedSeen ==
    \A f \in Applied :
        /\ f.timestamp # None
        /\ f.type \in InventoryTypes \union OrderTypes
        /\ f.type \in OrderTypes => f.order \in Orders /\ orders[f.order] # "NONE"
        /\ \A p \in TouchedProducts(f) :
              p \in Products /\ Stored(f.timestamp) <= versions[ProductKey(p)]

Precedence == PlanCovers /\ AppliedSeen

\* Each event takes effect in one step, once, as Ledger promises.
Promise == INSTANCE Ledger
ImplementsLedger == Promise!Spec
=============================================================================
