--------------------------- MODULE WarehouseEvents ---------------------------
(***************************************************************************)
(* Warehouse events and what they ask of the inventory: the data that      *)
(* StateProcessor and Ledger share. An event is a record with every field  *)
(* of schemas/warehouse_event_v2.avsc that the consumer reads, None where  *)
(* it is absent or blank. An item's zone is None where it is absent or     *)
(* empty: one of blanks only is kept as it is, a zone like any other.      *)
(***************************************************************************)
EXTENDS Integers, Sequences, FiniteSets, Functions

CONSTANTS
    Products, Zones, Orders,   \* product_ids, zone_ids, order_ids
    Suppliers,                 \* supplier_ids
    RowOrder,                  \* inventory keys in clustering order
    RawIds,                    \* event_ids as they are sent, None among them
    Trim,                      \* Trim[r]: r without blanks at its ends
    Events,                    \* the events that may arrive
    None,                      \* a missing value
    Resolution                 \* clock ticks per millisecond

Keys == Products \X Zones
InventoryTypes == {"PRODUCT_RECEIVED", "PRODUCT_SHIPPED", "PRODUCT_MOVED",
                   "PRODUCT_RESERVED", "PRODUCT_RELEASED", "INVENTORY_COUNTED"}
OrderTypes == {"ORDER_CREATED", "ORDER_COMPLETED"}

Items == [product : Products \union {None}, zone : Zones \union {None},
          quantity : Int \union {None}]
EventType ==
    [id : RawIds, type : InventoryTypes \union OrderTypes \union {"UNKNOWN", None},
     timestamp : Nat \union {None}, version : {1, 2}, supplier : Suppliers \union {None},
     product : Products \union {None}, zone : Zones \union {None},
     from : Zones \union {None}, to : Zones \union {None},
     quantity : Int \union {None}, counted : Int \union {None},
     order : Orders \union {None}, items : Seq(Items)]

ASSUME EventsAssumption ==
    /\ IsFiniteSet(Products) /\ IsFiniteSet(Zones)
    /\ RowOrder \in Seq(Products \X Zones)
    /\ \A k \in Products \X Zones : \E n \in 1 .. Len(RowOrder) : RowOrder[n] = k
    /\ \A m, n \in 1 .. Len(RowOrder) : RowOrder[m] = RowOrder[n] => m = n
    /\ Trim \in [RawIds -> RawIds]
    /\ \A r \in RawIds : Trim[Trim[r]] = Trim[r]
    /\ Events \subseteq EventType
    /\ None \notin Int /\ None \notin Orders
    /\ Resolution \in Nat \ {0}

-----------------------------------------------------------------------------
(* Time. Cassandra's timestamp type has milliseconds, an event any digits. *)

Stored(t) == t - (t % Resolution)

-----------------------------------------------------------------------------
(* Validation (_require_text, _require_quantity, _require_counted_quantity)*)

IsQuantity(q) == q # None /\ q > 0
CountedQuantity(e) == IF e.counted # None THEN e.counted ELSE e.quantity
IsCount(q) == q # None /\ q >= 0

HasIdentity(e) == e.id # None /\ e.type # None /\ e.timestamp # None

WellFormed(e) ==
    /\ e.product # None
    /\ IF e.type = "INVENTORY_COUNTED" THEN IsCount(CountedQuantity(e))
                                       ELSE IsQuantity(e.quantity)
    /\ IF e.type = "PRODUCT_MOVED"
         THEN e.from # None /\ e.to # None /\ e.from # e.to
         ELSE e.zone # None

ItemWellFormed(i) == i.product # None /\ IsQuantity(i.quantity)

-----------------------------------------------------------------------------
(* Inventory rows and the changes an event makes to them.                  *)

Row == [available : Nat, reserved : Nat, supplier : Suppliers \union {None}]
EmptyRow == [available |-> 0, reserved |-> 0, supplier |-> None]

Change == [key : Keys, available : Int, reserved : Int, count : Nat \union {None},
           supplier : Suppliers \union {None}, overwrite : BOOLEAN]

Delta(k, available, reserved) ==
    [key |-> k, available |-> available, reserved |-> reserved, count |-> None,
     supplier |-> None, overwrite |-> FALSE]

Recount(k, counted) == [Delta(k, 0, 0) EXCEPT !.count = counted]
WithSupplier(change, s) == [change EXCEPT !.supplier = s, !.overwrite = TRUE]

\* The changes of the six inventory events; a move reads the row it moves from.
ChangesOf(e, inventory) ==
    LET here == <<e.product, e.zone>>
        source == <<e.product, e.from>>
        target == <<e.product, e.to>>
        q == e.quantity
    IN CASE e.type = "PRODUCT_RECEIVED" ->
              <<WithSupplier(Delta(here, q, 0),
                             IF e.version >= 2 THEN e.supplier ELSE None)>>
         [] e.type = "PRODUCT_SHIPPED"  -> <<Delta(here, -q, 0)>>
         [] e.type = "PRODUCT_RESERVED" -> <<Delta(here, -q, q)>>
         [] e.type = "PRODUCT_RELEASED" -> <<Delta(here, q, -q)>>
         [] e.type = "INVENTORY_COUNTED" ->
              <<Recount(here, CountedQuantity(e))>>
         [] e.type = "PRODUCT_MOVED" ->
              <<Delta(source, -q, 0),
                IF inventory[source].supplier = None THEN Delta(target, q, 0)
                ELSE WithSupplier(Delta(target, q, 0), inventory[source].supplier)>>

-----------------------------------------------------------------------------
(* Totals.                                                                 *)

SumOver(S, f(_)) == SumFunction([x \in S |-> f(x)])

KeysOf(p) == {p} \X Zones

\* How much of product p the order event e asks for, over all its items.
Requested(e, p) ==
    SumOver({n \in 1 .. Len(e.items) : e.items[n].product = p},
            LAMBDA n : e.items[n].quantity)
=============================================================================
