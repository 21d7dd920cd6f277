---------------------------- MODULE MCLateBatches ----------------------------
(* Instances of LateBatches for TLC. *)
EXTENDS LateBatches, MCStateProcessor

\* Events that write the same rows, and an order from its creation to its end.
LateEvents == {
    Stock("a", "PRODUCT_RECEIVED", 1, "p", "z1", 2),
    Move("b", 2, "z1", "z2", 1),
    OrderEvent("c", "ORDER_CREATED", 3, "o1", <<Item("p", None, 1)>>),
    Stock("d", "PRODUCT_SHIPPED", 4, "p", "z1", 1),
    OrderEvent("e", "ORDER_COMPLETED", 5, "o1", << >>)}
LateIds == {e.id : e \in LateEvents}

OneReceipt == {Stock("a", "PRODUCT_RECEIVED", 1, "p", "z1", 2)}
ReceiptId == {"a"}
=============================================================================
