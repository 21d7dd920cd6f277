------------------------------- MODULE Ledger -------------------------------
(***************************************************************************)
(* What the consumer promises about the state of the warehouse, without    *)
(* reads, loops, aggregates and failures: every event takes effect in one  *)
(* step, at most once, or is only noted; an order books exactly what it    *)
(* asks for and its completion consumes exactly what it booked.            *)
(* StateProcessor is shown to implement this module.                       *)
(***************************************************************************)
EXTENDS WarehouseEvents

VARIABLES
    inventory,    \* stock by product and zone
    processed,    \* outcome by event_id, "NONE" if there is none
    orders,       \* status by order_id, "NONE" if there is none
    items         \* what each order booked

vars == <<inventory, processed, orders, items>>

Init ==
    /\ inventory = [k \in Keys |-> EmptyRow]
    /\ processed = [r \in RawIds |-> "NONE"]
    /\ orders = [o \in Orders |-> "NONE"]
    /\ items = [o \in Orders |-> [k \in Keys |-> 0]]

Outcome(e, status) ==
    /\ processed[Trim[e.id]] = "NONE"
    /\ processed' = [processed EXCEPT ![e.id] = status]

\* The event is recorded as STALE or as a second completion.
Note(e) ==
    /\ \E s \in {"STALE", "ORDER_ALREADY_COMPLETED"} : Outcome(e, s)
    /\ UNCHANGED <<inventory, orders, items>>

After(r, change) ==
    [available |-> IF change.count # None THEN change.count
                   ELSE r.available + change.available,
     reserved |-> r.reserved + change.reserved,
     supplier |-> IF change.overwrite THEN change.supplier ELSE r.supplier]

Stocked(stock) == \A k \in Keys : stock[k].available >= 0 /\ stock[k].reserved >= 0

\* The changes of an inventory event, which are at different keys, together.
ChangeStock(e) ==
    /\ e.type \in InventoryTypes
    /\ WellFormed(e)
    /\ Outcome(e, "PROCESSED")
    /\ LET changes == ChangesOf(e, inventory)
           ChangesAt(k) == {changes[n] : n \in {m \in 1 .. Len(changes) : changes[m].key = k}}
       IN inventory' = [k \in Keys |->
                          IF ChangesAt(k) = {} THEN inventory[k]
                          ELSE After(inventory[k], CHOOSE c \in ChangesAt(k) : TRUE)]
    /\ Stocked(inventory')
    /\ UNCHANGED <<orders, items>>

Bookings(e) ==
    {b \in [Keys -> 0 .. SumOver(1 .. Len(e.items), LAMBDA n : e.items[n].quantity)] :
        \A p \in Products : SumOver(KeysOf(p), LAMBDA k : b[k]) = Requested(e, p)}

\* An order is booked in full, wherever there is stock.
CreateOrder(e) ==
    /\ e.type = "ORDER_CREATED"
    /\ e.order # None
    /\ orders[e.order] = "NONE"
    /\ \A n \in 1 .. Len(e.items) : ItemWellFormed(e.items[n])
    /\ Outcome(e, "PROCESSED")
    /\ \E booking \in Bookings(e) :
          /\ inventory' = [k \in Keys |->
                After(inventory[k], Delta(k, -booking[k], booking[k]))]
          /\ items' = [items EXCEPT ![e.order] = booking]
    /\ Stocked(inventory')
    /\ orders' = [orders EXCEPT ![e.order] = "CREATED"]

CompleteOrder(e) ==
    /\ e.type = "ORDER_COMPLETED"
    /\ e.order # None
    /\ orders[e.order] = "CREATED"
    /\ Outcome(e, "PROCESSED")
    /\ inventory' = [k \in Keys |->
          After(inventory[k], Delta(k, 0, -items[e.order][k]))]
    /\ Stocked(inventory')
    /\ orders' = [orders EXCEPT ![e.order] = "COMPLETED"]
    /\ UNCHANGED items

Next ==
    \E e \in Events :
        \/ Note(e)
        \/ ChangeStock(e)
        \/ CreateOrder(e)
        \/ CompleteOrder(e)

Spec == Init /\ [][Next]_vars
=============================================================================
