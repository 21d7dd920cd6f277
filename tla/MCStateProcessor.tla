-------------------------- MODULE MCStateProcessor --------------------------
(* Instances of StateProcessor for TLC. *)
EXTENDS StateProcessor

OneKey == <<<<"p", "z1">>>>
OneProduct == <<<<"p", "z1">>, <<"p", "z2">>>>
WithBlankZone == <<<<"p", " ">>>> \o OneProduct \o
                 <<<<"q", " ">>, <<"q", "z1">>, <<"q", "z2">>>>
Unpadded == [r \in RawIds |-> r]
Padded == [r \in RawIds |-> IF r = "a " THEN "a" ELSE r]

Blank == [id |-> "", type |-> None, timestamp |-> None, version |-> 2,
          supplier |-> None, product |-> None, zone |-> None, from |-> None,
          to |-> None, quantity |-> None, counted |-> None, order |-> None,
          items |-> << >>]

At(r, type, t) == [Blank EXCEPT !.id = r, !.type = type, !.timestamp = t]
Stock(r, type, t, p, z, q) ==
    [At(r, type, t) EXCEPT !.product = p, !.zone = z, !.quantity = q]
Move(r, t, source, target, q) ==
    [At(r, "PRODUCT_MOVED", t) EXCEPT !.product = "p", !.from = source, !.to = target,
                                      !.quantity = q]
Count(r, t, z, q) ==
    [At(r, "INVENTORY_COUNTED", t) EXCEPT !.product = "p", !.zone = z, !.counted = q]
OrderEvent(r, type, t, o, list) ==
    [At(r, type, t) EXCEPT !.order = o, !.items = list]
Item(p, z, q) == [product |-> p, zone |-> z, quantity |-> q]

\* Every inventory event, one order, and events that are malformed or late. With
\* three ticks to a millisecond, a, b and j share one, as do c, d, e and g, and f, h
\* and k: some are applied although a newer one was.
StockEvents == {
    [Stock("a", "PRODUCT_RECEIVED", 1, "p", "z1", 3) EXCEPT !.supplier = "s"],
    Move("b", 2, "z1", "z2", 2),
    Stock("c", "PRODUCT_RESERVED", 3, "p", "z1", 1),
    Stock("d", "PRODUCT_RELEASED", 4, "p", "z1", 1),
    Count("e", 5, "z1", 2),
    Stock("f", "PRODUCT_SHIPPED", 6, "p", "z2", 1),
    OrderEvent("g", "ORDER_CREATED", 4, "o1", <<Item("p", "z1", 1)>>),
    OrderEvent("h", "ORDER_COMPLETED", 7, "o1", << >>),
    Stock("i", "PRODUCT_SHIPPED", None, "p", "z2", 1),
    Stock("j", "PRODUCT_RECEIVED", 1, "p", "z2", 0),
    Stock("l", "UNKNOWN", 1, "p", "z2", 1),
    Stock(None, "PRODUCT_RECEIVED", 1, "p", "z2", 1),
    Stock("k", "PRODUCT_RECEIVED", 8, "p", "z1", 2)}
StockIds == {e.id : e \in StockEvents}

\* Orders over the same stock of two products, with explicit and allocated
\* zones, created and completed out of order and more than once.
OrderEvents == {
    Stock("a", "PRODUCT_RECEIVED", 1, "p", "z1", 2),
    Stock("b", "PRODUCT_RECEIVED", 2, "p", "z2", 2),
    Stock("c", "PRODUCT_RECEIVED", 1, "q", "z1", 1),
    OrderEvent("d", "ORDER_CREATED", 3, "o1", <<Item("p", None, 1), Item("p", None, 2)>>),
    OrderEvent("e", "ORDER_CREATED", 4, "o2",
               <<Item("p", "z2", 1), Item("q", None, 1), Item("p", None, 1)>>),
    OrderEvent("f", "ORDER_COMPLETED", 5, "o1", << >>),
    OrderEvent("g", "ORDER_COMPLETED", 6, "o2", << >>),
    OrderEvent("h", "ORDER_COMPLETED", 7, "o1", << >>),
    OrderEvent("i", "ORDER_CREATED", 8, "o1", <<Item("p", None, 1)>>),
    OrderEvent("j", "ORDER_CREATED", 8, "o3", <<Item("p", "z1", None)>>),
    OrderEvent("m", "ORDER_CREATED", 8, "o3", <<Item("p", " ", 1)>>),
    OrderEvent("k", "ORDER_CREATED", 8, None, <<Item("p", "z1", 1)>>),
    Count("l", 4, "z2", 0)}
OrderIds == {e.id : e \in OrderEvents}

\* Three events of one product, the first two in the same millisecond.
MicroEvents == {
    Stock("a", "PRODUCT_RECEIVED", 3, "p", "z1", 1),
    Stock("b", "PRODUCT_RECEIVED", 2, "p", "z1", 1),
    Stock("c", "PRODUCT_SHIPPED", 6, "p", "z1", 1)}
MicroIds == {e.id : e \in MicroEvents}

PaddedEvents == {
    Stock("a ", "PRODUCT_RECEIVED", 3, "p", "z1", 1),
    Stock("c", "PRODUCT_SHIPPED", 6, "p", "z1", 1)}
PaddedIds == {"a", "a ", "c"}
=============================================================================
