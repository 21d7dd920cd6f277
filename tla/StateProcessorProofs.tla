------------------------ MODULE StateProcessorProofs ------------------------
(***************************************************************************)
(* Theorems about StateProcessor, for any products, zones, orders, events  *)
(* and tables, in any order of arrival.                                    *)
(***************************************************************************)
EXTENDS LateBatches, TLAPS, WellFoundedInduction

-----------------------------------------------------------------------------
(* Numbers.                                                                *)

\* The quotient and the remainder of a division.
LEMMA DivisionWithRemainder ==
    ASSUME NEW R \in Nat \ {0}, NEW t \in Nat
    PROVE  /\ t \div R \in Nat
           /\ t % R \in Nat
           /\ t % R < R
           /\ t = R * (t \div R) + (t % R)
OBVIOUS

\* What is stored of a timestamp is not later than it, and storing it again
\* changes nothing.
LEMMA StoredTime ==
    ASSUME NEW t \in Nat
    PROVE  Stored(t) \in Nat /\ Stored(t) <= t /\ Stored(Stored(t)) = Stored(t)
<1>1. Resolution \in Nat \ {0}
  BY EventsAssumption
<1>2. Stored(t) = Resolution * (t \div Resolution) /\ t \div Resolution \in Nat
  BY <1>1, DivisionWithRemainder DEF Stored
<1>3. (Resolution * (t \div Resolution)) % Resolution = 0
  BY <1>1, <1>2
<1>4. Stored(t) \in Nat /\ Stored(t) <= t
  BY <1>1, DivisionWithRemainder DEF Stored
<1>5. Stored(Stored(t)) = Stored(t) - (Stored(t) % Resolution)
  BY DEF Stored
<1> QED
  BY <1>2, <1>3, <1>4, <1>5

\* Rounding down does not go below a stored moment.
LEMMA StoredMonotonic ==
    ASSUME NEW v \in Nat, NEW t \in Nat, Stored(v) = v, v <= t
    PROVE  v <= Stored(t)
<1> DEFINE R == Resolution
           a == v \div R
           b == t \div R
<1>1. R \in Nat \ {0}
  BY EventsAssumption
<1>2. /\ a \in Nat /\ b \in Nat
      /\ v = R * a /\ t = R * b + (t % R) /\ t % R < R /\ Stored(t) = R * b
      /\ t % R \in Nat
  BY <1>1, DivisionWithRemainder DEF Stored
<1> HIDE DEF a, b, R
<1>3. CASE a <= b
  <2>1. R * a <= R * b
    BY <1>1, <1>2, <1>3
  <2> QED
    BY <2>1, <1>2
<1>4. CASE b + 1 <= a
  <2>1. R * (b + 1) <= R * a
    BY <1>1, <1>2, <1>4
  <2>2. R * (b + 1) = R * b + R
    BY <1>1, <1>2
  <2> QED
    BY <2>1, <2>2, <1>1, <1>2
<1> QED
  BY <1>2, <1>3, <1>4

\* A nonempty set of natural numbers has a least element.
LEMMA LeastElement ==
    ASSUME NEW S \in SUBSET Nat, S # {}
    PROVE  \E m \in S : \A n \in S : m <= n
<1> DEFINE Below == OpToRel(<, Nat)
<1>1. IsWellFoundedOn(Below, Nat)
  BY NatLessThanWellFounded
<1>2. \A x, y \in Nat : <<y, x>> \in Below <=> y < x
  BY DEF OpToRel
<1> HIDE DEF Below
<1>3. PICK m \in S : \A y \in S : ~(<<y, m>> \in Below)
  BY <1>1, WFMin
<1>4. ASSUME NEW n \in S PROVE m <= n
  <2>1. m \in Nat /\ n \in Nat
    OBVIOUS
  <2>2. ~(n < m)
    BY <1>2, <1>3, <2>1
  <2> QED
    BY <2>1, <2>2
<1> QED
  BY <1>4

-----------------------------------------------------------------------------
(* Events and the plans made of them.                                      *)

\* What the fields of an event may hold.
LEMMA EventFields ==
    ASSUME NEW e \in Events
    PROVE  /\ e.id \in RawIds
           /\ e.timestamp \in Nat \union {None}
           /\ e.supplier \in Suppliers \union {None}
           /\ e.product \in Products \union {None}
           /\ e.zone \in Zones \union {None}
           /\ e.from \in Zones \union {None}
           /\ e.to \in Zones \union {None}
           /\ e.quantity \in Int \union {None}
           /\ e.counted \in Int \union {None}
           /\ e.order \in Orders \union {None}
           /\ e.items \in Seq(Items)
<1>1. e \in EventType
  BY EventsAssumption
<1> QED
  BY <1>1 DEF EventType

\* What the fields of an order's item may hold.
LEMMA ItemFields ==
    ASSUME NEW e \in Events, NEW n \in 1 .. Len(e.items)
    PROVE  /\ e.items[n].product \in Products \union {None}
           /\ e.items[n].zone \in Zones \union {None}
           /\ e.items[n].quantity \in Int \union {None}
<1>1. e.items \in Seq(Items)
  BY EventFields
<1>2. e.items[n] \in Items
  BY <1>1
<1> QED
  BY <1>2 DEF Items

\* A change stays one when it is given a supplier.
LEMMA SupplierChange ==
    ASSUME NEW c \in Change, NEW s \in Suppliers \union {None}
    PROVE  WithSupplier(c, s) \in Change /\ WithSupplier(c, s).key = c.key
<1> DEFINE d == [c EXCEPT !.supplier = s]
<1>1. d \in Change /\ d.key = c.key
  BY DEF Change
<1>2. WithSupplier(c, s) = [d EXCEPT !.overwrite = TRUE]
  BY DEF WithSupplier
<1> HIDE DEF d
<1> QED
  BY <1>1, <1>2 DEF Change

\* The three ways to make a change of row k.
LEMMA DeltaIsChange ==
    ASSUME NEW k \in Keys, NEW a \in Int, NEW r \in Int
    PROVE  /\ Delta(k, a, r) \in Change
           /\ Delta(k, a, r).key = k
           /\ \A s \in Suppliers \union {None} :
                 /\ WithSupplier(Delta(k, a, r), s) \in Change
                 /\ WithSupplier(Delta(k, a, r), s).key = k
           /\ \A c \in Nat : Recount(k, c) \in Change /\ Recount(k, c).key = k
<1>1. Delta(k, a, r) \in Change /\ Delta(k, a, r).key = k
  BY DEF Delta, Change
<1>2. ASSUME NEW c \in Nat PROVE Recount(k, c) \in Change /\ Recount(k, c).key = k
  <2> DEFINE d == Delta(k, 0, 0)
  <2>1. d \in Change /\ d.key = k
    BY DEF Delta, Change
  <2>2. Recount(k, c) = [d EXCEPT !.count = c]
    BY DEF Recount
  <2> HIDE DEF d
  <2> QED
    BY <2>1, <2>2 DEF Change
<1> QED
  BY <1>1, <1>2, SupplierChange

\* The changes of an inventory event are changes of its product.
LEMMA InventoryPlan ==
    ASSUME NEW e \in Events, e.type \in InventoryTypes, WellFormed(e),
           inventory \in [Keys -> RowType]
    PROVE  /\ ChangesOf(e, inventory) \in Seq(Change)
           /\ Len(ChangesOf(e, inventory)) >= 1
           /\ \A n \in 1 .. Len(ChangesOf(e, inventory)) :
                  ChangesOf(e, inventory)[n].key[1] = e.product
<1> DEFINE here == <<e.product, e.zone>>
           source == <<e.product, e.from>>
           target == <<e.product, e.to>>
<1>1. /\ e.product \in Products
      /\ e.supplier \in Suppliers \union {None}
      /\ e.type # "PRODUCT_MOVED" => here \in Keys
      /\ e.type = "PRODUCT_MOVED" => source \in Keys /\ target \in Keys
      /\ e.type # "INVENTORY_COUNTED" => e.quantity \in Int
      /\ e.type = "INVENTORY_COUNTED" => CountedQuantity(e) \in Nat
  BY EventFields DEF WellFormed, Keys, IsQuantity, IsCount, CountedQuantity
<1>2. here[1] = e.product /\ source[1] = e.product /\ target[1] = e.product
  OBVIOUS
<1>3. CASE e.type = "PRODUCT_RECEIVED"
  <2> DEFINE s == IF e.version >= 2 THEN e.supplier ELSE None
  <2>1. ChangesOf(e, inventory) = <<WithSupplier(Delta(here, e.quantity, 0), s)>>
    BY <1>3 DEF ChangesOf
  <2>2. /\ WithSupplier(Delta(here, e.quantity, 0), s) \in Change
        /\ WithSupplier(Delta(here, e.quantity, 0), s).key = here
    BY <1>1, <1>3, DeltaIsChange
  <2> QED
    BY <1>2, <2>1, <2>2
<1>4. CASE e.type = "INVENTORY_COUNTED"
  <2> DEFINE c == Recount(here, CountedQuantity(e))
  <2>1. ChangesOf(e, inventory) = <<c>>
    BY <1>4 DEF ChangesOf
  <2>2. c \in Change /\ c.key = here
    BY <1>1, <1>4, DeltaIsChange
  <2> HIDE DEF c
  <2> QED
    BY <1>2, <2>1, <2>2
<1>5. CASE e.type = "PRODUCT_MOVED"
  <2> DEFINE s == inventory[source].supplier
             c == IF s = None THEN Delta(target, e.quantity, 0)
                              ELSE WithSupplier(Delta(target, e.quantity, 0), s)
             d == Delta(source, -e.quantity, 0)
  <2>1. ChangesOf(e, inventory) = <<d, c>>
    BY <1>5 DEF ChangesOf
  <2>2. s \in Suppliers \union {None}
    BY <1>1, <1>5 DEF RowType
  <2>3. c \in Change /\ c.key = target
    BY <1>1, <1>5, <2>2, DeltaIsChange
  <2>4. d \in Change /\ d.key = source
    BY <1>1, <1>5, DeltaIsChange
  <2> HIDE DEF c, d
  <2> QED
    BY <1>2, <2>1, <2>3, <2>4
<1>6. CASE e.type \in {"PRODUCT_SHIPPED", "PRODUCT_RESERVED", "PRODUCT_RELEASED"}
  <2>1. /\ e.type = "PRODUCT_SHIPPED" =>
              ChangesOf(e, inventory) = <<Delta(here, -e.quantity, 0)>>
        /\ e.type = "PRODUCT_RESERVED" =>
              ChangesOf(e, inventory) = <<Delta(here, -e.quantity, e.quantity)>>
        /\ e.type = "PRODUCT_RELEASED" =>
              ChangesOf(e, inventory) = <<Delta(here, e.quantity, -e.quantity)>>
    BY DEF ChangesOf
  <2>2. e.quantity \in Int /\ -e.quantity \in Int /\ here \in Keys
    BY <1>1, <1>6
  <2>3. PICK a \in Int, r \in Int : ChangesOf(e, inventory) = <<Delta(here, a, r)>>
    BY <1>6, <2>1, <2>2
  <2>4. Delta(here, a, r) \in Change /\ Delta(here, a, r).key = here
    BY <2>2, DeltaIsChange
  <2> HIDE DEF here
  <2> QED
    BY <1>2, <2>3, <2>4
<1> QED
  BY <1>3, <1>4, <1>5, <1>6 DEF InventoryTypes

\* What the fields of a planned change may hold.
LEMMA ChangeFields ==
    ASSUME changes \in Seq(Change), NEW n \in 1 .. Len(changes)
    PROVE  /\ changes[n].key \in Keys
           /\ changes[n].key[1] \in Products
           /\ changes[n].available \in Int
           /\ changes[n].reserved \in Int
           /\ changes[n].count \in Nat \union {None}
           /\ changes[n].supplier \in Suppliers \union {None}
<1>1. changes[n] \in Change
  OBVIOUS
<1> QED
  BY <1>1 DEF Change, Keys

\* The aggregate of a changed product has a first changed row.
LEMMA FirstKey ==
    ASSUME changes \in Seq(Change), NEW p \in ChangedProducts
    PROVE  FirstKeyOf(p) \in ChangedKeys
<1> DEFINE S == {n \in 1 .. Len(changes) : changes[n].key[1] = p}
<1>1. S \in SUBSET Nat /\ S # {}
  BY DEF ChangedProducts, ChangedKeys
<1>2. PICK first \in S : \A n \in S : first <= n
  BY <1>1, LeastElement
<1>3. \A m \in 1 .. first - 1 : changes[m].key[1] # p
  BY <1>2
<1>4. \E n \in 1 .. Len(changes) :
         changes[n].key[1] = p /\ \A m \in 1 .. n - 1 : changes[m].key[1] # p
  BY <1>2, <1>3
<1> QED
  BY <1>4 DEF FirstKeyOf, ChangedKeys
-----------------------------------------------------------------------------
(* The steps that only end a call, and those that only decide to record it.*)

\* TypeOK, in two parts: the tables and the call in progress.
TablesTyped ==
    /\ inventory \in [Keys -> RowType]
    /\ byZone \in [Keys -> RowType]
    /\ totals \in [Products -> RowType]
    /\ versions \in [EntityKeys -> Nat \union {Never}]
    /\ processed \in [RawIds -> Recorded \union {"NONE"}]
    /\ \A h \in history : h.id \in RawIds /\ h.status \in Recorded
    /\ orders \in [Orders -> {"NONE", "CREATED", "COMPLETED"}]
    /\ items \in [Orders -> [Keys -> Nat]]

CallTyped ==
    /\ pc \in Working \union {"idle"}
    /\ ev \in Events \union {None}
    /\ changes \in Seq(Change)
    /\ booked \in [Keys -> Nat]
    /\ next \in Nat \ {0} /\ row \in Nat \ {0} /\ remaining \in Nat
    /\ DOMAIN rows \subseteq Keys
    /\ \A k \in DOMAIN rows : rows[k] \in RowType
    /\ deltas \in [Products -> [available : Int, reserved : Int]]
    /\ status \in Recorded
    /\ verdict \in Verdicts

\* The call ends without a batch, or will record its event only.
Ends == UNCHANGED tables /\ \E v \in Verdicts : Return(v)
Records ==
    /\ pc \in {"dispatch", "stale"}
    /\ \E s \in {"STALE", "ORDER_ALREADY_COMPLETED"} : RecordOnly(s)

\* The two parts are TypeOK.
LEMMA TypeParts == TypeOK <=> TablesTyped /\ CallTyped
BY DEF TypeOK, TablesTyped, CallTyped

\* Rejections, duplicates and failures end the call.
LEMMA EndingSteps ==
    ASSUME RejectIdentity \/ SkipDuplicate \/ RejectType \/ ReadFails \/ RejectInventory
             \/ RejectOrder \/ RejectNewOrder \/ RejectItem \/ OutOfStock
             \/ RejectCompletion \/ RejectPlan \/ WriteFails
    PROVE  Ends
<1> USE DEF Ends, Refuse, Verdicts
<1>1. CASE RejectIdentity
  BY <1>1 DEF RejectIdentity
<1>2. CASE SkipDuplicate
  BY <1>2 DEF SkipDuplicate
<1>3. CASE RejectType
  BY <1>3 DEF RejectType
<1>4. CASE ReadFails
  BY <1>4 DEF ReadFails
<1>5. CASE RejectInventory
  BY <1>5 DEF RejectInventory
<1>6. CASE RejectOrder
  BY <1>6 DEF RejectOrder
<1>7. CASE RejectNewOrder
  BY <1>7 DEF RejectNewOrder
<1>8. CASE RejectItem
  BY <1>8 DEF RejectItem
<1>9. CASE OutOfStock
  BY <1>9 DEF OutOfStock
<1>10. CASE RejectCompletion
  BY <1>10 DEF RejectCompletion
<1>11. CASE RejectPlan
  BY <1>11 DEF RejectPlan
<1>12. CASE WriteFails
  BY <1>12 DEF WriteFails
<1> QED
  BY <1>1, <1>2, <1>3, <1>4, <1>5, <1>6, <1>7, <1>8, <1>9, <1>10, <1>11, <1>12

\* Stale events and second completions are only recorded.
LEMMA RecordingSteps ==
    ASSUME OrderIsStale \/ CompletedAlready \/ PlanIsStale
    PROVE  Records
BY DEF OrderIsStale, CompletedAlready, PlanIsStale, OrderIsFresh, Records

\* Every other step of a call advances it or applies its batch.
LEMMA StepKinds ==
    ASSUME Step
    PROVE  \/ Ends \/ Records
           \/ Dispatch \/ PlanInventory \/ BeginOrder
           \/ BookItem \/ BeginAllocation \/ SkipRow \/ TakeFromRow \/ OrderBooked
           \/ BeginCompletion \/ CollectItem \/ ItemsCollected
           \/ PlanIsFresh \/ ApplyChange \/ BatchReady \/ Write
BY EndingSteps, RecordingSteps DEF Step

\* After a return the locals are as at the start.
LEMMA Returned ==
    ASSUME NEW v \in Verdicts, Return(v)
    PROVE  /\ CallTyped'
           /\ pc' = "idle" /\ ev' = None /\ changes' = << >> /\ DOMAIN rows' = {}
           /\ booked' = NoItems
<1>1. /\ pc' = "idle" /\ ev' = None /\ changes' = << >> /\ booked' = NoItems
      /\ next' = 1 /\ row' = 1 /\ remaining' = 0 /\ rows' = NoRows
      /\ deltas' = NoDeltas /\ status' = "PROCESSED" /\ verdict' = v
  BY DEF Return
<1>2. << >> \in Seq(Change) /\ NoItems \in [Keys -> Nat] /\ DOMAIN NoRows = {}
  BY DEF NoItems, NoRows
<1>3. NoDeltas \in [Products -> [available : Int, reserved : Int]]
  BY DEF NoDeltas
<1> QED
  BY <1>1, <1>2, <1>3 DEF CallTyped, Recorded

-----------------------------------------------------------------------------
(* Types.                                                                  *)

\* A booking keeps the plan well formed.
LEMMA BookTyped ==
    ASSUME CallTyped, NEW k \in Keys, NEW q \in Nat, Book(k, q)
    PROVE  changes' \in Seq(Change) /\ booked' \in [Keys -> Nat]
<1>1. Delta(k, -q, q) \in Change
  BY DeltaIsChange
<1> QED
  BY <1>1 DEF CallTyped, Book

\* The clustering order lists keys.
LEMMA RowOrderKeys ==
    ASSUME NEW n \in 1 .. Len(RowOrder)
    PROVE  RowOrder[n] \in Keys
BY EventsAssumption DEF Keys

\* The row and the delta a change leads to.
LEMMA ChangeApplied ==
    ASSUME TypeOK, next <= Len(changes)
    PROVE  LET change == changes[next] IN
           /\ change.key \in Keys /\ change.key[1] \in Products
           /\ CurrentRow(change.key) \in RowType
           /\ NewAvailable(change) \in Int /\ NewReserved(change) \in Int
           /\ AvailableMoved(change) \in Int /\ ReservedMoved(change) \in Int
           /\ (IF change.overwrite THEN change.supplier
                                   ELSE CurrentRow(change.key).supplier)
                  \in Suppliers \union {None}
<1> DEFINE change == changes[next]
<1>1. /\ change.key \in Keys /\ change.key[1] \in Products
      /\ change.available \in Int /\ change.reserved \in Int
      /\ change.count \in Nat \union {None}
      /\ change.supplier \in Suppliers \union {None}
  BY ChangeFields DEF TypeOK
<1> HIDE DEF change
<1>2. CurrentRow(change.key) \in RowType
  BY <1>1 DEF CurrentRow, TypeOK
<1>3. /\ CurrentRow(change.key).available \in Int
      /\ CurrentRow(change.key).reserved \in Int
      /\ CurrentRow(change.key).supplier \in Suppliers \union {None}
  BY <1>2 DEF RowType
<1>4. NewAvailable(change) \in Int /\ NewReserved(change) \in Int
  BY <1>1, <1>3 DEF NewAvailable, NewReserved
<1>5. AvailableMoved(change) \in Int /\ ReservedMoved(change) \in Int
  BY <1>3, <1>4 DEF AvailableMoved, ReservedMoved
<1> QED
  BY <1>1, <1>2, <1>3, <1>4, <1>5 DEF change

\* The aggregate row of a changed product.
LEMMA TotalTyped ==
    ASSUME TypeOK, ChangedKeys \subseteq DOMAIN rows, NEW p \in ChangedProducts
    PROVE  /\ p \in Products
           /\ NewTotal(p) \in RowType
<1>1. p \in Products
  BY ChangeFields DEF ChangedProducts, ChangedKeys, TypeOK
<1>2. rows[FirstKeyOf(p)] \in RowType
  BY FirstKey DEF TypeOK
<1>3. totals[p] \in RowType /\ deltas[p] \in [available : Int, reserved : Int]
  BY <1>1 DEF TypeOK
<1> QED
  BY <1>1, <1>2, <1>3 DEF NewTotal, RowType

\* The steps of a call that keep its event and every table.
LEMMA PlanStepsTyped ==
    ASSUME TypeOK, EventInHand, OrderInHand,
           \/ Dispatch \/ PlanInventory \/ BeginOrder
           \/ BookItem \/ BeginAllocation \/ SkipRow \/ TakeFromRow \/ OrderBooked
           \/ BeginCompletion \/ CollectItem \/ ItemsCollected
           \/ PlanIsFresh \/ BatchReady
    PROVE  TypeOK'
<1>1. TablesTyped /\ CallTyped
  BY TypeParts
<1> USE DEF Goto
<1>2. (ev \in Events /\ ev.items \in Seq(Items)) \/ pc = "idle"
  BY EventFields DEF EventInHand
<1>3. UNCHANGED <<tables, ev, rows, deltas, status, verdict>> /\ pc' \in Working
  BY DEF Dispatch, PlanInventory, BeginOrder, BookItem, BeginAllocation, SkipRow,
         TakeFromRow, OrderBooked, BeginCompletion, CollectItem, ItemsCollected,
         PlanIsFresh, BatchReady, Working
<1>4. TablesTyped'
  BY <1>1, <1>3 DEF TablesTyped, tables
<1>5. /\ changes' \in Seq(Change) /\ booked' \in [Keys -> Nat]
      /\ next' \in Nat \ {0} /\ row' \in Nat \ {0} /\ remaining' \in Nat
  <2>1. CASE Dispatch \/ BeginOrder \/ OrderBooked \/ BeginCompletion \/ ItemsCollected
               \/ BatchReady
    BY <1>1, <2>1 DEF CallTyped, plan, Dispatch, BeginOrder, OrderBooked, BeginCompletion,
                      ItemsCollected, BatchReady
  <2>2. CASE PlanInventory
    <3>1. changes' \in Seq(Change)
      BY <1>1, <1>2, <2>2, InventoryPlan DEF PlanInventory, TablesTyped
    <3> QED
      BY <1>1, <2>2, <3>1 DEF CallTyped, PlanInventory
  <2>3. CASE BookItem
    <3> DEFINE item == ev.items[next]
    <3>1. item.product \in Products /\ item.zone \in Zones /\ item.quantity \in Nat
      BY <1>1, <1>2, <2>3, ItemFields
         DEF BookItem, ItemInHand, ItemWellFormed, IsQuantity, CallTyped
    <3>2. Book(<<item.product, item.zone>>, item.quantity)
      BY <2>3 DEF BookItem
    <3>3. <<item.product, item.zone>> \in Keys
      BY <3>1 DEF Keys
    <3> HIDE DEF item
    <3>4. changes' \in Seq(Change) /\ booked' \in [Keys -> Nat]
      BY <1>1, <3>1, <3>2, <3>3, BookTyped
    <3> QED
      BY <1>1, <2>3, <3>4 DEF CallTyped, BookItem
  <2>4. CASE BeginAllocation
    <3>1. ev.items[next].quantity \in Nat
      BY <1>1, <1>2, <2>4, ItemFields
         DEF BeginAllocation, ItemInHand, ItemWellFormed, IsQuantity, CallTyped
    <3> QED
      BY <1>1, <2>4, <3>1 DEF CallTyped, BeginAllocation, plan
  <2>5. CASE SkipRow
    BY <1>1, <2>5 DEF CallTyped, SkipRow, plan
  <2>6. CASE TakeFromRow
    <3> DEFINE k == RowOrder[row]
               taken == Least(Unbooked(k), remaining)
    <3>1. k \in Keys
      BY <1>1, <2>6, RowOrderKeys, EventsAssumption DEF TakeFromRow, Allocating, CallTyped
    <3>2. inventory[k].available \in Int /\ booked[k] \in Nat
      BY <1>1, <3>1 DEF TablesTyped, CallTyped, RowType
    <3>3. Unbooked(k) \in Int /\ Unbooked(k) > 0
      BY <3>2, <2>6 DEF Unbooked, TakeFromRow, Allocates
    <3>4. taken \in Nat /\ taken <= remaining
      BY <1>1, <3>3 DEF Least, CallTyped
    <3>5. /\ Book(k, taken) /\ remaining' = remaining - taken
          /\ next' = next + 1 \/ next' = next
          /\ row' = row + 1
      BY <2>6 DEF TakeFromRow
    <3> HIDE DEF k, taken
    <3>6. changes' \in Seq(Change) /\ booked' \in [Keys -> Nat]
      BY <1>1, <3>1, <3>4, <3>5, BookTyped
    <3> QED
      BY <1>1, <3>4, <3>5, <3>6 DEF CallTyped
  <2>7. CASE CollectItem
    <3> DEFINE k == RowOrder[row]
               quantity == items[ev.order][k]
    <3>1. k \in Keys
      BY <1>1, <2>7, RowOrderKeys, EventsAssumption DEF CollectItem, CallTyped
    <3>2. ev.order \in Orders
      BY <2>7 DEF CollectItem, OrderInHand, Planning, OrderTypes
    <3>3. quantity \in Nat
      BY <1>1, <3>1, <3>2 DEF TablesTyped
    <3>4. Consume(k, quantity) \in Change
      BY <3>1, <3>3, DeltaIsChange DEF Consume
    <3>5. changes' = IF quantity > 0 THEN Append(changes, Consume(k, quantity)) ELSE changes
      BY <2>7 DEF CollectItem
    <3> HIDE DEF k, quantity
    <3>6. changes' \in Seq(Change)
      BY <1>1, <3>4, <3>5 DEF CallTyped
    <3> QED
      BY <1>1, <2>7, <3>6 DEF CallTyped, CollectItem
  <2>8. CASE PlanIsFresh
    BY <1>1, <2>8 DEF CallTyped, PlanIsFresh, plan
  <2> QED
    BY <2>1, <2>2, <2>3, <2>4, <2>5, <2>6, <2>7, <2>8
<1>6. CallTyped'
  BY <1>1, <1>3, <1>5 DEF CallTyped, tables
<1> QED
  BY <1>4, <1>6, TypeParts DEF TypeOK, TablesTyped, CallTyped

\* A turn of the apply loop keeps the types.
LEMMA ApplyTyped ==
    ASSUME TypeOK, ApplyChange
    PROVE  TypeOK'
<1> DEFINE change == changes[next]
           k == change.key
           new == [available |-> NewAvailable(change), reserved |-> NewReserved(change),
                   supplier |-> IF change.overwrite THEN change.supplier
                                                    ELSE CurrentRow(change.key).supplier]
<1>1. /\ k \in Keys /\ k[1] \in Products
      /\ AvailableMoved(change) \in Int /\ ReservedMoved(change) \in Int
      /\ new \in RowType
  BY ChangeApplied DEF ApplyChange, RowType
<1>2. rows' = [j \in DOMAIN rows \union {k} |-> IF j = k THEN new ELSE rows[j]]
  BY DEF ApplyChange
<1>3. deltas' = [deltas EXCEPT ![k[1]].available = @ + AvailableMoved(change),
                               ![k[1]].reserved = @ + ReservedMoved(change)]
  BY DEF ApplyChange
<1>4. /\ UNCHANGED <<tables, pc, ev, plan, row, remaining, status, verdict>>
      /\ next' = next + 1
  BY DEF ApplyChange
<1> HIDE DEF new, k, change
<1>5. DOMAIN rows' \subseteq Keys /\ \A j \in DOMAIN rows' : rows'[j] \in RowType
  BY <1>1, <1>2 DEF TypeOK
<1>6. deltas' \in [Products -> [available : Int, reserved : Int]]
  BY <1>1, <1>3 DEF TypeOK
<1> QED
  BY <1>4, <1>5, <1>6 DEF TypeOK, tables, plan

\* What the batch does to the orders, by type of event.
LEMMA OrderWritten ==
    ASSUME WriteOrder
    PROVE  /\ ev.type = "ORDER_CREATED" =>
                /\ orders' = [orders EXCEPT ![ev.order] = "CREATED"]
                /\ items' = [items EXCEPT ![ev.order] =
                               [k \in Keys |-> IF booked[k] > 0 THEN booked[k] ELSE @[k]]]
           /\ ev.type = "ORDER_COMPLETED" =>
                orders' = [orders EXCEPT ![ev.order] = "COMPLETED"] /\ items' = items
           /\ ev.type \in InventoryTypes => orders' = orders /\ items' = items
<1>1. CASE ev.type = "ORDER_CREATED"
  BY <1>1 DEF WriteOrder, InventoryTypes
<1>2. CASE ev.type = "ORDER_COMPLETED"
  BY <1>2 DEF WriteOrder, InventoryTypes
<1>3. CASE ev.type \notin {"ORDER_CREATED", "ORDER_COMPLETED"}
  BY <1>3 DEF WriteOrder, InventoryTypes
<1> QED
  BY <1>1, <1>2, <1>3

\* The batch keeps the types.
LEMMA WriteTyped ==
    ASSUME TypeOK, EventInHand, OrderInHand, PlanInHand, Write
    PROVE  TypeOK'
<1>1. ev \in Events /\ HasIdentity(ev) /\ pc = "write"
  BY DEF Write, EventInHand
<1>2. ev.id \in RawIds /\ ev.timestamp \in Nat
  BY <1>1, EventFields DEF HasIdentity
<1>3. CallTyped'
  <2>1. Return(status) \/ Return("STORE_ERROR")
    BY DEF Write
  <2>2. status \in Verdicts /\ "STORE_ERROR" \in Verdicts
    BY DEF TypeOK, Verdicts
  <2> QED
    BY <2>1, <2>2, Returned
<1>4. /\ processed' \in [RawIds -> Recorded \union {"NONE"}]
      /\ \A h \in history' : h.id \in RawIds /\ h.status \in Recorded
  BY <1>2 DEF Write, RecordEvent, HistoryRows, TypeOK
<1>5. /\ inventory' \in [Keys -> RowType] /\ byZone' \in [Keys -> RowType]
      /\ totals' \in [Products -> RowType]
      /\ versions' \in [EntityKeys -> Nat \union {Never}]
      /\ orders' \in [Orders -> {"NONE", "CREATED", "COMPLETED"}]
      /\ items' \in [Orders -> [Keys -> Nat]]
  <2>1. CASE status = "PROCESSED"
    <3>1. WriteInventory /\ WriteOrder
      BY <2>1 DEF Write
    <3>2. ChangedKeys \subseteq DOMAIN rows
      BY <1>1, <2>1 DEF PlanInHand
    <3>3. inventory' \in [Keys -> RowType] /\ byZone' \in [Keys -> RowType]
      BY <3>1 DEF WriteInventory, CurrentRow, TypeOK
    <3>4. totals' \in [Products -> RowType]
      BY <3>1, <3>2, TotalTyped DEF WriteInventory, TypeOK
    <3>5. Stored(ev.timestamp) \in Nat
      BY <1>2, StoredTime
    <3>6. versions' \in [EntityKeys -> Nat \union {Never}]
      BY <3>1, <3>5 DEF WriteInventory, TypeOK
    <3>7. /\ orders' \in [Orders -> {"NONE", "CREATED", "COMPLETED"}]
          /\ items' \in [Orders -> [Keys -> Nat]]
      <4>1. CASE ev.type = "ORDER_CREATED"
        <5>1. ev.order \in Orders
          BY <1>1, <2>1, <4>1 DEF OrderInHand, Applying, OrderTypes
        <5>2. [k \in Keys |-> IF booked[k] > 0 THEN booked[k] ELSE items[ev.order][k]]
                \in [Keys -> Nat]
          BY <5>1 DEF TypeOK
        <5> QED
          BY <3>1, <4>1, <5>1, <5>2, OrderWritten DEF TypeOK
      <4>2. CASE ev.type = "ORDER_COMPLETED"
        BY <1>1, <2>1, <3>1, <4>2, OrderWritten DEF OrderInHand, Applying, OrderTypes, TypeOK
      <4>3. CASE ev.type \in InventoryTypes
        BY <3>1, <4>3, OrderWritten DEF TypeOK
      <4> QED
        BY <1>1, <2>1, <4>1, <4>2, <4>3 DEF OrderInHand, Applying, OrderTypes
    <3> QED
      BY <3>3, <3>4, <3>6, <3>7
  <2>2. CASE status # "PROCESSED"
    BY <2>2 DEF Write, TypeOK
  <2> QED
    BY <2>1, <2>2
<1> QED
  BY <1>3, <1>4, <1>5, TypeParts DEF TypeOK, TablesTyped, CallTyped

\* Every step keeps the types.
LEMMA TypePreserved ==
    ASSUME IInv, [Next]_vars
    PROVE  TypeOK'
<1>1. TablesTyped /\ CallTyped
  BY TypeParts DEF IInv
<1>2. CASE Ends
  <2>1. CallTyped'
    BY <1>2, Returned DEF Ends
  <2>2. TablesTyped'
    BY <1>1, <1>2 DEF Ends, tables, TablesTyped
  <2> QED
    BY <2>1, <2>2, TypeParts DEF TypeOK, TablesTyped, CallTyped
<1>3. CASE Records
  BY <1>3 DEF Records, RecordOnly, IInv, TypeOK, tables, plan, Working, Recorded
<1>4. CASE \/ Dispatch \/ PlanInventory \/ BeginOrder
           \/ BookItem \/ BeginAllocation \/ SkipRow \/ TakeFromRow \/ OrderBooked
           \/ BeginCompletion \/ CollectItem \/ ItemsCollected
           \/ PlanIsFresh \/ BatchReady
  BY <1>4, PlanStepsTyped DEF IInv
<1>5. CASE ApplyChange
  BY <1>5, ApplyTyped DEF IInv
<1>6. CASE Write
  BY <1>6, WriteTyped DEF IInv
<1>7. CASE \E e \in Events : Receive(e)
  BY <1>7 DEF Receive, IInv, TypeOK, tables, plan, Working
<1>8. CASE UNCHANGED vars
  BY <1>8 DEF vars, IInv, TypeOK
<1> QED
  BY <1>2, <1>3, <1>4, <1>5, <1>6, <1>7, <1>8, StepKinds DEF Next

-----------------------------------------------------------------------------
(* What each kind of step leaves alone.                                    *)

\* The steps that take a call further.
Advances ==
    \/ Dispatch \/ PlanInventory \/ BeginOrder
    \/ BookItem \/ BeginAllocation \/ SkipRow \/ TakeFromRow \/ OrderBooked
    \/ BeginCompletion \/ CollectItem \/ ItemsCollected
    \/ PlanIsFresh \/ ApplyChange \/ BatchReady

\* A call advances without a change to a table, to its event or to its verdict.
LEMMA AdvanceFrame ==
    ASSUME Advances
    PROVE  UNCHANGED <<tables, ev, status, verdict>>
BY DEF Advances, Goto, Dispatch, PlanInventory, BeginOrder, BookItem, BeginAllocation,
       SkipRow, TakeFromRow, OrderBooked, BeginCompletion, CollectItem, ItemsCollected,
       PlanIsFresh, ApplyChange, BatchReady

\* The kinds of steps that the lemmas below distinguish.
LEMMA NextKinds ==
    ASSUME [Next]_vars
    PROVE  \/ Ends \/ Records \/ Advances \/ Write
           \/ \E e \in Events : Receive(e)
           \/ UNCHANGED vars
BY StepKinds DEF Next, Advances

\* Only the batch writes the tables.
LEMMA OnlyWriteWrites ==
    ASSUME [Next]_vars, ~Write
    PROVE  UNCHANGED tables
BY NextKinds, AdvanceFrame DEF Ends, Records, RecordOnly, Receive, vars, tables

\* A batch with status s other than PROCESSED records the event and no more.
LEMMA WriteFrame ==
    ASSUME Write
    PROVE  /\ pc = "write" /\ RecordEvent
           /\ status = "PROCESSED" => WriteInventory /\ WriteOrder
           /\ status # "PROCESSED" =>
                UNCHANGED <<inventory, byZone, totals, versions, orders, items>>
           /\ \E v \in {status, "STORE_ERROR"} : Return(v)
BY DEF Write

\* When a call is over, nothing of it is left.
LEMMA CallOver ==
    ASSUME TypeOK, Ends \/ Write
    PROVE  /\ pc' = "idle" /\ ev' = None /\ changes' = << >> /\ DOMAIN rows' = {}
           /\ booked' = NoItems
<1>1. status \in Verdicts /\ "STORE_ERROR" \in Verdicts
  BY DEF TypeOK, Verdicts
<1> QED
  BY <1>1, Returned, WriteFrame DEF Ends

-----------------------------------------------------------------------------
(* The other parts of the invariant.                                       *)

\* The batch writes what the apply loop and the last test let through.
LEMMA StockPreserved ==
    ASSUME IInv, [Next]_vars
    PROVE  StockNonNegative'
<1>1. CASE ~Write
  BY <1>1, OnlyWriteWrites DEF IInv, StockNonNegative, tables
<1>2. CASE Write /\ status # "PROCESSED"
  BY <1>2, WriteFrame DEF IInv, StockNonNegative
<1>3. CASE Write /\ status = "PROCESSED"
  <2>1. WriteInventory /\ pc = "write"
    BY <1>3, WriteFrame
  <2>2. \A k \in Keys : inventory'[k] = CurrentRow(k)
    BY <2>1 DEF WriteInventory
  <2>3. \A k \in Keys : inventory'[k].available >= 0 /\ inventory'[k].reserved >= 0
    BY <2>2 DEF CurrentRow, IInv, StockNonNegative, PlanInHand
  <2>4. \A p \in Products :
           totals'[p] = IF p \in ChangedProducts THEN NewTotal(p) ELSE totals[p]
    BY <2>1 DEF WriteInventory
  <2>5. \A p \in ChangedProducts : NewTotal(p).available >= 0 /\ NewTotal(p).reserved >= 0
    BY <1>3, <2>1 DEF IInv, PlanInHand, TotalSuffices
  <2>6. \A p \in Products : totals'[p].available >= 0 /\ totals'[p].reserved >= 0
    BY <2>4, <2>5 DEF IInv, StockNonNegative
  <2> QED
    BY <2>3, <2>6 DEF StockNonNegative
<1> QED
  BY <1>1, <1>2, <1>3

\* The event in hand has an identity and, once looked up, no outcome.
LEMMA EventKept ==
    ASSUME IInv, [Next]_vars
    PROVE  EventInHand'
<1>1. CASE Ends \/ Write
  BY <1>1, CallOver DEF IInv, EventInHand
<1>2. CASE Records
  BY <1>2 DEF Records, RecordOnly, IInv, EventInHand, tables, IsProcessed
<1>3. CASE Dispatch
  BY <1>3 DEF Dispatch, Goto, IInv, EventInHand, tables, IsProcessed
<1>4. CASE Advances /\ ~Dispatch
  <2>1. pc \notin {"idle", "dedupe"}
    BY <1>4 DEF Advances, PlanInventory, BeginOrder, OrderIsFresh, BookItem, BeginAllocation,
                ItemInHand, SkipRow, TakeFromRow, Allocating, OrderBooked, BeginCompletion,
                CollectItem, ItemsCollected, PlanIsFresh, ApplyChange, BatchReady
  <2>2. UNCHANGED <<ev, processed>>
    BY <1>4, AdvanceFrame DEF tables
  <2> QED
    BY <2>1, <2>2 DEF IInv, EventInHand, IsProcessed
<1>5. CASE \E e \in Events : Receive(e)
  BY <1>5 DEF Receive, EventInHand
<1>6. CASE UNCHANGED vars
  BY <1>6 DEF vars, IInv, EventInHand, IsProcessed
<1> QED
  BY <1>1, <1>2, <1>3, <1>4, <1>5, <1>6, NextKinds

\* The order in hand keeps the status its handler asked for.
LEMMA OrderKept ==
    ASSUME IInv, [Next]_vars
    PROVE  OrderInHand'
<1>1. CASE Ends \/ Write
  BY <1>1, CallOver DEF IInv, OrderInHand, Planning, Applying
<1>2. CASE Records
  BY <1>2 DEF Records, RecordOnly, OrderInHand, Planning, Applying
<1>3. CASE Dispatch
  BY <1>3 DEF Dispatch, Goto, OrderInHand, Planning, Applying
<1>4. CASE PlanInventory
  BY <1>4 DEF PlanInventory, Goto, OrderInHand, Planning, Applying, OrderTypes, InventoryTypes
<1>5. CASE BeginOrder \/ BeginCompletion
  <2>1. ev \in Events /\ ev.order # None
    BY <1>5 DEF BeginOrder, BeginCompletion, OrderIsFresh, IInv, EventInHand
  <2>2. ev.order \in Orders
    BY <2>1, EventFields
  <2> QED
    BY <1>5, <2>2 DEF BeginOrder, BeginCompletion, OrderIsFresh, CanCreate, CanComplete, Goto,
                      OrderInHand, Planning, Applying, OrderTypes, InventoryTypes, tables
<1>6. CASE \/ BookItem \/ BeginAllocation \/ SkipRow \/ TakeFromRow \/ OrderBooked
           \/ CollectItem \/ ItemsCollected \/ PlanIsFresh \/ ApplyChange \/ BatchReady
  <2>1. Planning /\ UNCHANGED <<ev, orders>>
    BY <1>6, AdvanceFrame
       DEF Advances, BookItem, BeginAllocation, ItemInHand, SkipRow, TakeFromRow, Allocating,
           OrderBooked, CollectItem, ItemsCollected, PlanIsFresh, ApplyChange, BatchReady,
           Planning, tables
  <2>2. /\ pc' \in {"items", "allocate"} => pc \in {"items", "allocate"}
        /\ pc' = "collect" => pc = "collect"
    BY <1>6
       DEF BookItem, BeginAllocation, ItemInHand, SkipRow, TakeFromRow, Allocating, Goto,
           OrderBooked, CollectItem, ItemsCollected, PlanIsFresh, ApplyChange, BatchReady
  <2> QED
    BY <2>1, <2>2 DEF IInv, OrderInHand
<1>7. CASE \E e \in Events : Receive(e)
  BY <1>7 DEF Receive, OrderInHand, Planning, Applying
<1>8. CASE UNCHANGED vars
  BY <1>8 DEF vars, IInv, OrderInHand, Planning, Applying
<1> QED
  BY <1>1, <1>2, <1>3, <1>4, <1>5, <1>6, <1>7, <1>8, NextKinds DEF Advances

\* Versions are moments the tables can hold.
LEMMA VersionsStayStored ==
    ASSUME IInv, [Next]_vars
    PROVE  VersionsStored'
<1>1. CASE ~Write
  BY <1>1, OnlyWriteWrites DEF IInv, VersionsStored, tables
<1>2. CASE Write /\ status # "PROCESSED"
  BY <1>2, WriteFrame DEF IInv, VersionsStored
<1>3. CASE Write /\ status = "PROCESSED"
  <2>1. WriteInventory /\ ev \in Events /\ HasIdentity(ev)
    BY <1>3, WriteFrame DEF IInv, EventInHand
  <2>2. ev.timestamp \in Nat
    BY <2>1, EventFields DEF HasIdentity
  <2>3. Stored(Stored(ev.timestamp)) = Stored(ev.timestamp)
    BY <2>2, StoredTime
  <2> QED
    BY <2>1, <2>3 DEF WriteInventory, IInv, VersionsStored
<1> QED
  BY <1>1, <1>2, <1>3

\* The products and keys of a plan are there to be looked up.
LEMMA PlanKeys ==
    ASSUME TypeOK
    PROVE  /\ ChangedKeys \subseteq Keys
           /\ ChangedProducts \subseteq Products
           /\ \A n \in 1 .. Len(changes) : changes[n].key \in ChangedKeys
BY ChangeFields DEF TypeOK, ChangedKeys, ChangedProducts

\* A turn of the apply loop plans a row that is not negative.
LEMMA ApplyKept ==
    ASSUME IInv, ApplyChange
    PROVE  PlanInHand'
<1> DEFINE change == changes[next]
           k == change.key
<1>1. /\ pc = "apply" /\ pc' = "apply" /\ next <= Len(changes) /\ next' = next + 1
      /\ UNCHANGED <<tables, ev, changes, status>>
  BY DEF ApplyChange, plan
<1>2. NewAvailable(change) >= 0 /\ NewReserved(change) >= 0
  BY DEF ApplyChange, Suffices
<1>3. /\ DOMAIN rows' = DOMAIN rows \union {k}
      /\ rows'[k].available = NewAvailable(change)
      /\ rows'[k].reserved = NewReserved(change)
      /\ \A j \in DOMAIN rows : j # k => rows'[j] = rows[j]
  BY DEF ApplyChange
<1>4. \A j \in DOMAIN rows' : rows'[j].available >= 0 /\ rows'[j].reserved >= 0
  BY <1>2, <1>3 DEF IInv, PlanInHand
<1>5. \A n \in 1 .. Len(changes) : n < next + 1 => changes[n].key \in DOMAIN rows'
  <2>1. ASSUME NEW n \in 1 .. Len(changes), n < next + 1
        PROVE  changes[n].key \in DOMAIN rows'
    <3>1. n < next \/ n = next
      BY <2>1 DEF IInv, TypeOK
    <3> QED
      BY <1>1, <1>3, <2>1, <3>1 DEF IInv, PlanInHand
  <2> QED
    BY <2>1
<1>6. ~IsStale(EntitiesOfPlan, ev.timestamp)'
  BY <1>1 DEF IInv, PlanInHand, Applying, IsStale, EntitiesOfPlan, ChangedProducts,
              ChangedKeys, tables
<1> HIDE DEF k, change
<1> QED
  BY <1>1, <1>4, <1>5, <1>6 DEF PlanInHand, Applying

\* The plan in hand stays newer than the tables and not negative.
LEMMA PlanKept ==
    ASSUME IInv, [Next]_vars
    PROVE  PlanInHand'
<1>1. CASE Ends \/ Write
  BY <1>1, CallOver DEF IInv, PlanInHand, Applying
<1>2. CASE Records
  <2>1. pc' = "write" /\ status' # "PROCESSED" /\ rows' = rows
    BY <1>2 DEF Records, RecordOnly
  <2> QED
    BY <2>1 DEF IInv, PlanInHand, Applying
<1>3. CASE ApplyChange
  BY <1>3, ApplyKept
<1>4. CASE PlanIsFresh
  <2>1. /\ ~IsStale(EntitiesOfPlan, ev.timestamp)
        /\ next' = 1 /\ pc' = "apply" /\ UNCHANGED <<changes, ev, rows, tables>>
    BY <1>4 DEF PlanIsFresh, Goto, plan
  <2>2. ~IsStale(EntitiesOfPlan, ev.timestamp)'
    BY <2>1 DEF IsStale, EntitiesOfPlan, ChangedProducts, ChangedKeys, tables
  <2> QED
    BY <2>1, <2>2 DEF IInv, PlanInHand, Applying
<1>5. CASE BatchReady
  <2>1. /\ pc = "apply" /\ next > Len(changes) /\ pc' = "write"
        /\ \A p \in ChangedProducts : TotalSuffices(p)
        /\ UNCHANGED <<changes, ev, rows, deltas, status, tables>>
    BY <1>5 DEF BatchReady, Goto, plan
  <2>2. ~IsStale(EntitiesOfPlan, ev.timestamp)'
    BY <2>1 DEF IInv, PlanInHand, Applying,
                IsStale, EntitiesOfPlan, ChangedProducts, ChangedKeys, tables
  <2>3. ChangedKeys \subseteq DOMAIN rows
    <3>1. \A n \in 1 .. Len(changes) : n < next
      BY <2>1 DEF IInv, TypeOK
    <3> QED
      BY <2>1, <3>1 DEF IInv, PlanInHand, ChangedKeys
  <2>4. ChangedKeys' = ChangedKeys /\ ChangedProducts' = ChangedProducts
    BY <2>1 DEF ChangedKeys, ChangedProducts
  <2>5. \A p \in ChangedProducts : TotalSuffices(p)'
    BY <2>1 DEF TotalSuffices, NewTotal, FirstKeyOf, tables
  <2> QED
    BY <2>1, <2>2, <2>3, <2>4, <2>5 DEF IInv, PlanInHand, Applying
<1>6. CASE Advances /\ ~(ApplyChange \/ PlanIsFresh \/ BatchReady)
  <2>1. pc' \notin {"apply", "write"} /\ rows' = rows
    BY <1>6 DEF Advances, Dispatch, PlanInventory, BeginOrder, BookItem, BeginAllocation,
                SkipRow, TakeFromRow, OrderBooked, BeginCompletion, CollectItem,
                ItemsCollected, Goto
  <2> QED
    BY <2>1 DEF IInv, PlanInHand, Applying
<1>7. CASE \E e \in Events : Receive(e)
  BY <1>7 DEF Receive, IInv, PlanInHand, Applying
<1>8. CASE UNCHANGED vars
  <2>1. UNCHANGED <<changes, ev, rows, deltas, status, tables, pc, next>>
    BY <1>8 DEF vars, tables
  <2>2. EntitiesOfPlan' = EntitiesOfPlan /\ ChangedKeys' = ChangedKeys
          /\ ChangedProducts' = ChangedProducts
    BY <2>1 DEF EntitiesOfPlan, ChangedKeys, ChangedProducts
  <2>3. \A p \in ChangedProducts : TotalSuffices(p)' <=> TotalSuffices(p)
    BY <2>1 DEF TotalSuffices, NewTotal, FirstKeyOf, tables
  <2>4. IsStale(EntitiesOfPlan, ev.timestamp)' <=> IsStale(EntitiesOfPlan, ev.timestamp)
    BY <2>1, <2>2 DEF IsStale, tables
  <2> QED
    BY <2>1, <2>2, <2>3, <2>4 DEF IInv, PlanInHand, Applying
<1> QED
  BY <1>1, <1>2, <1>3, <1>4, <1>5, <1>6, <1>7, <1>8, NextKinds

\* The invariant holds at the start.
LEMMA InitialState ==
    ASSUME Init
    PROVE  IInv
<1>1. TypeOK
  <2>1. EmptyRow \in RowType
    BY DEF EmptyRow, RowType
  <2>2. /\ NoItems \in [Keys -> Nat] /\ DOMAIN NoRows = {}
        /\ NoDeltas \in [Products -> [available : Int, reserved : Int]]
    BY DEF NoItems, NoRows, NoDeltas
  <2> QED
    BY <2>1, <2>2 DEF Init, TypeOK, Recorded, Verdicts
<1>2. StockNonNegative
  BY DEF Init, StockNonNegative, EmptyRow
<1>3. EventInHand /\ OrderInHand
  BY DEF Init, EventInHand, OrderInHand, Planning, Applying
<1>4. PlanInHand
  <2>1. DOMAIN NoRows = {}
    BY DEF NoRows
  <2> QED
    BY <2>1 DEF Init, PlanInHand, Applying
<1>5. VersionsStored
  BY DEF Init, VersionsStored
<1> QED
  BY <1>1, <1>2, <1>3, <1>4, <1>5 DEF IInv

\* The invariant that the theorems below rest on.
THEOREM Invariance == Spec => []IInv
<1>1. Init => IInv
  BY InitialState
<1>2. IInv /\ [Next]_vars => IInv'
  BY TypePreserved, StockPreserved, EventKept, OrderKept, PlanKept, VersionsStayStored DEF IInv
<1> QED
  BY <1>1, <1>2, PTL DEF Spec

\* Every variable keeps its type.
THEOREM TypeCorrect == Spec => []TypeOK
<1>1. IInv => TypeOK
  BY DEF IInv
<1> QED
  BY <1>1, Invariance, PTL

\* No row and no aggregate ever becomes negative, however events arrive, repeat
\* and fail.
THEOREM NeverNegative == Spec => []StockNonNegative
<1>1. IInv => StockNonNegative
  BY DEF IInv
<1> QED
  BY <1>1, Invariance, PTL

-----------------------------------------------------------------------------
(* What a step may never do.                                               *)

\* A plan that is written is newer than all it writes.
LEMMA VersionsRise ==
    ASSUME IInv, Write, status = "PROCESSED", NEW k \in EntityKeys
    PROVE  versions'[k] >= versions[k]
<1>1. WriteInventory /\ pc = "write" /\ ev \in Events /\ HasIdentity(ev)
  BY WriteFrame DEF IInv, EventInHand
<1>2. ev.timestamp \in Nat
  BY <1>1, EventFields DEF HasIdentity
<1>3. versions'[k] = IF k \in EntitiesOfPlan THEN Stored(ev.timestamp) ELSE versions[k]
  BY <1>1 DEF WriteInventory
<1>4. versions[k] \in Nat \/ versions[k] = -1
  BY DEF IInv, TypeOK, Never
<1>5. k \in EntitiesOfPlan => ~(ev.timestamp <= versions[k])
  BY <1>1 DEF IInv, PlanInHand, Applying, IsStale
<1>6. CASE k \in EntitiesOfPlan /\ versions[k] \in Nat
  <2>1. Stored(versions[k]) = versions[k]
    BY <1>6 DEF IInv, VersionsStored, Never
  <2>2. versions[k] <= ev.timestamp
    BY <1>2, <1>5, <1>6
  <2> QED
    BY <1>2, <1>3, <1>6, <2>1, <2>2, StoredMonotonic, StoredTime
<1>7. CASE k \in EntitiesOfPlan /\ versions[k] = -1
  BY <1>2, <1>3, <1>7, StoredTime
<1>8. CASE k \notin EntitiesOfPlan
  BY <1>3, <1>4, <1>8
<1> QED
  BY <1>4, <1>6, <1>7, <1>8

\* No step lowers a version.
LEMMA VersionStep ==
    ASSUME IInv, [Next]_vars, NEW k \in EntityKeys
    PROVE  versions'[k] >= versions[k]
<1>1. versions[k] \in Int
  BY DEF IInv, TypeOK, Never
<1>2. versions'[k] = versions[k] \/ (Write /\ status = "PROCESSED")
  BY OnlyWriteWrites, WriteFrame DEF tables
<1> QED
  BY <1>1, <1>2, VersionsRise

\* The version of an entity never goes back in time.
THEOREM VersionsOnlyRise == Spec => VersionsNeverRegress
<1>1. IInv /\ [Next]_vars => [\A k \in EntityKeys : versions'[k] >= versions[k]]_vars
  BY VersionStep
<1> QED
  BY <1>1, Invariance, PTL DEF Spec, VersionsNeverRegress

\* Provided that ids come without blanks at their ends, a redelivered event
\* touches no table.
THEOREM RedeliveryHarmless ==
    ASSUME \A r \in RawIds : Trim[r] = r
    PROVE  Spec => DuplicatesHarmless
<1>1. ASSUME IInv, [Next]_vars, NEW e \in Events, ev = e, processed[e.id] # "NONE"
      PROVE  UNCHANGED tables
  <2>1. e.id \in RawIds /\ Trim[e.id] = e.id
    BY EventFields
  <2>2. pc # "write"
    BY <1>1, <2>1 DEF IInv, EventInHand, IsProcessed
  <2>3. ~Write
    BY <2>2 DEF Write
  <2> QED
    BY <1>1, <2>3, OnlyWriteWrites
<1>2. IInv /\ [Next]_vars =>
        [\A e \in Events : ev = e /\ processed[e.id] # "NONE" => UNCHANGED tables]_vars
  BY <1>1
<1> QED
  BY <1>2, Invariance, PTL DEF Spec, DuplicatesHarmless

\* No step undoes an order's status or changes its items.
LEMMA OrderStep ==
    ASSUME IInv, [Next]_vars, NEW o \in Orders
    PROVE  /\ orders[o] = "CREATED" => orders'[o] # "NONE"
           /\ orders[o] = "COMPLETED" => orders'[o] = "COMPLETED"
           /\ orders[o] # "NONE" => items'[o] = items[o]
<1>1. CASE orders' = orders /\ items' = items
  BY <1>1
<1>2. CASE Write /\ status = "PROCESSED"
  <2>1. WriteOrder /\ pc = "write"
    BY <1>2, WriteFrame
  <2>2. /\ ev.type \in InventoryTypes \union OrderTypes
        /\ ev.type \in OrderTypes => ev.order \in Orders
        /\ ev.type = "ORDER_CREATED" => orders[ev.order] = "NONE"
        /\ ev.type = "ORDER_COMPLETED" => orders[ev.order] = "CREATED"
    BY <1>2, <2>1 DEF IInv, OrderInHand, Applying
  <2>3. CASE ev.type = "ORDER_CREATED"
    BY <2>1, <2>2, <2>3, OrderWritten DEF IInv, TypeOK, OrderTypes
  <2>4. CASE ev.type = "ORDER_COMPLETED"
    BY <2>1, <2>2, <2>4, OrderWritten DEF IInv, TypeOK, OrderTypes
  <2>5. CASE ev.type \in InventoryTypes
    BY <2>1, <2>5, OrderWritten
  <2> QED
    BY <2>2, <2>3, <2>4, <2>5 DEF OrderTypes
<1> QED
  BY <1>1, <1>2, OnlyWriteWrites, WriteFrame DEF tables

\* An order is created once and completed once, and its items stay.
THEOREM OrdersAdvance == Spec => OrderLifecycle
<1>1. IInv /\ [Next]_vars =>
        [\A o \in Orders :
            /\ orders[o] = "CREATED" => orders'[o] # "NONE"
            /\ orders[o] = "COMPLETED" => orders'[o] = "COMPLETED"
            /\ orders[o] # "NONE" => items'[o] = items[o]]_vars
  BY OrderStep
<1> QED
  BY <1>1, Invariance, PTL DEF Spec, OrderLifecycle

-----------------------------------------------------------------------------
(* The newest event wins.                                                  *)

\* The hypothesis of NewestEventWins.
DistinctIds == \A e, f \in Events : e.id = f.id => e = f

\* The products an event touches, by type of event.
LEMMA Touched ==
    ASSUME NEW e
    PROVE  /\ e.type \in InventoryTypes => TouchedProducts(e) = {e.product}
           /\ e.type = "ORDER_CREATED" =>
                TouchedProducts(e) = {e.items[n].product : n \in 1 .. Len(e.items)}
           /\ e.type = "ORDER_COMPLETED" =>
                TouchedProducts(e) = {k[1] : k \in {j \in Keys : items[e.order][j] > 0}}
<1>1. CASE e.type \in InventoryTypes
  BY <1>1 DEF TouchedProducts, InventoryTypes
<1>2. CASE e.type = "ORDER_CREATED"
  BY <1>2 DEF TouchedProducts, InventoryTypes
<1>3. CASE e.type = "ORDER_COMPLETED"
  BY <1>3 DEF TouchedProducts, InventoryTypes
<1> QED
  BY <1>1, <1>2, <1>3

\* The products an event touches stay the same while its order keeps its items.
LEMMA TouchedStays ==
    ASSUME NEW e, e.type \in InventoryTypes \union OrderTypes,
           e.type = "ORDER_COMPLETED" => items'[e.order] = items[e.order]
    PROVE  TouchedProducts(e)' = TouchedProducts(e)
<1>1. CASE e.type \in InventoryTypes
  BY <1>1 DEF TouchedProducts
<1>2. CASE e.type = "ORDER_CREATED"
  BY <1>2 DEF TouchedProducts
<1>3. CASE e.type = "ORDER_COMPLETED"
  BY <1>3 DEF TouchedProducts
<1> QED
  BY <1>1, <1>2, <1>3 DEF OrderTypes

\* A change appended to the plan adds its key and its product.
LEMMA AppendedKey ==
    ASSUME changes \in Seq(Change), NEW c, changes' = Append(changes, c)
    PROVE  /\ ChangedKeys' = ChangedKeys \union {c.key}
           /\ ChangedProducts' = ChangedProducts \union {c.key[1]}
<1>1. /\ Len(changes') = Len(changes) + 1 /\ Len(changes) \in Nat
      /\ changes'[Len(changes) + 1] = c
      /\ \A n \in 1 .. Len(changes) : changes'[n] = changes[n]
  OBVIOUS
<1>2. ChangedKeys' = ChangedKeys \union {c.key}
  BY <1>1 DEF ChangedKeys
<1> QED
  BY <1>2 DEF ChangedProducts

\* Steps within a plan keep it complete.
LEMMA PlanStaysCovering ==
    ASSUME IInv, PlanCovers, [Next]_vars
    PROVE  PlanCovers'
<1> USE DEF PlanCovers, Applying
<1>1. /\ changes \in Seq(Change) /\ next \in Nat \ {0} /\ row \in Nat \ {0}
      /\ pc # "idle" => ev \in Events /\ Len(ev.items) \in Nat
      /\ Len(RowOrder) \in Nat /\ Len(changes) \in Nat
  BY EventFields, EventsAssumption DEF IInv, TypeOK, EventInHand
<1>2. CASE Ends \/ Write
  <2>1. next' = 1 /\ row' = 1 /\ pc' = "idle"
    BY <1>2, WriteFrame DEF Ends, Return
  <2> QED
    BY <2>1
<1>3. CASE Records
  BY <1>3 DEF Records, RecordOnly
<1>4. CASE Dispatch
  BY <1>4 DEF Dispatch, Goto
<1>5. CASE PlanInventory
  <2>1. /\ changes' = ChangesOf(ev, inventory) /\ pc' = "stale" /\ ev' = ev
        /\ ev.type \in InventoryTypes /\ WellFormed(ev) /\ ev \in Events
    BY <1>1, <1>5 DEF PlanInventory, Goto
  <2>2. /\ 1 \in 1 .. Len(changes') /\ changes'[1].key[1] = ev.product
    <3>1. inventory \in [Keys -> RowType]
      BY DEF IInv, TypeOK
    <3>2. /\ changes' \in Seq(Change) /\ Len(changes') >= 1
          /\ \A n \in 1 .. Len(changes') : changes'[n].key[1] = ev.product
      BY <2>1, <3>1, InventoryPlan
    <3> QED
      BY <3>2
  <2>3. ev.product \in ChangedProducts'
    BY <2>2 DEF ChangedProducts, ChangedKeys
  <2>4. TouchedProducts(ev)' = {ev.product}
    BY <2>1, Touched DEF TouchedProducts, InventoryTypes
  <2> QED
    BY <2>1, <2>3, <2>4
<1>6. CASE BeginOrder \/ BeginCompletion
  <2>1. /\ next' = 1 /\ row' = 1 /\ pc' \in {"items", "collect"}
    BY <1>6 DEF BeginOrder, BeginCompletion, OrderIsFresh, Goto
  <2> QED
    BY <2>1
<1>7. CASE BookItem
  <2> DEFINE item == ev.items[next]
  <2>1. /\ pc = "items" /\ pc' = "items" /\ next \in 1 .. Len(ev.items)
        /\ next' = next + 1 /\ ev' = ev
        /\ Book(<<item.product, item.zone>>, item.quantity)
    BY <1>1, <1>7 DEF BookItem, ItemInHand, Goto
  <2>2. PICK c : changes' = Append(changes, c) /\ c.key = <<item.product, item.zone>>
    BY <2>1 DEF Book, Delta
  <2>3. c.key[1] = item.product
    BY <2>2
  <2>4. ChangedProducts' = ChangedProducts \union {item.product}
    BY <1>1, <2>2, <2>3, AppendedKey
  <2>5. \A n \in 1 .. Len(ev.items) : n < next + 1 => n < next \/ n = next
    BY <1>1
  <2> QED
    BY <2>1, <2>4, <2>5
<1>8. CASE BeginAllocation \/ SkipRow
  <2>1. /\ pc \in {"items", "allocate"} /\ pc' = "allocate" /\ next' = next
        /\ ev' = ev /\ changes' = changes /\ next <= Len(ev.items)
    BY <1>8 DEF BeginAllocation, SkipRow, ItemInHand, Allocating, Goto, plan
  <2>2. ChangedProducts' = ChangedProducts
    BY <2>1 DEF ChangedProducts, ChangedKeys
  <2> QED
    BY <2>1, <2>2
<1>9. CASE TakeFromRow
  <2> DEFINE k == RowOrder[row]
  <2>1. /\ pc = "allocate" /\ next \in 1 .. Len(ev.items) /\ ev' = ev
        /\ k[1] = ev.items[next].product
        /\ \E q : Book(k, q)
        /\ \/ next' = next + 1 /\ pc' = "items"
           \/ next' = next /\ pc' = "allocate"
    BY <1>1, <1>9 DEF TakeFromRow, Allocating, Allocates, Goto
  <2>2. PICK c : changes' = Append(changes, c) /\ c.key = k
    BY <2>1 DEF Book, Delta
  <2>3. ChangedProducts' = ChangedProducts \union {ev.items[next].product}
    BY <1>1, <2>1, <2>2, AppendedKey
  <2>4. \A n \in 1 .. Len(ev.items) : n < next + 1 => n < next \/ n = next
    BY <1>1
  <2> HIDE DEF k
  <2> QED
    BY <2>1, <2>3, <2>4
<1>10. CASE OrderBooked
  <2>1. /\ pc = "items" /\ next > Len(ev.items) /\ pc' = "stale"
        /\ ev' = ev /\ changes' = changes /\ ev.type = "ORDER_CREATED"
    BY <1>10 DEF OrderBooked, Goto, plan, IInv, OrderInHand
  <2>2. \A n \in 1 .. Len(ev.items) : ev.items[n].product \in ChangedProducts
    BY <1>1, <2>1
  <2>3. TouchedProducts(ev)' = {ev.items[n].product : n \in 1 .. Len(ev.items)}
    BY <2>1 DEF TouchedProducts, InventoryTypes
  <2>4. ChangedProducts' = ChangedProducts
    BY <2>1 DEF ChangedProducts, ChangedKeys
  <2> QED
    BY <2>1, <2>2, <2>3, <2>4
<1>11. CASE CollectItem
  <2> DEFINE k == RowOrder[row]
  <2>1. /\ pc = "collect" /\ pc' = "collect" /\ row' = row + 1 /\ row \in 1 .. Len(RowOrder)
        /\ UNCHANGED <<ev, items>>
        /\ changes' = IF items[ev.order][k] > 0
                        THEN Append(changes, Consume(k, items[ev.order][k])) ELSE changes
    BY <1>1, <1>11 DEF CollectItem, Goto, tables
  <2>2. /\ ChangedKeys \subseteq ChangedKeys'
        /\ items[ev.order][k] > 0 => k \in ChangedKeys'
    <3>1. Consume(k, items[ev.order][k]).key = k
      BY DEF Consume, Delta
    <3>2. CASE items[ev.order][k] > 0
      BY <1>1, <2>1, <3>1, <3>2, AppendedKey
    <3>3. CASE ~(items[ev.order][k] > 0)
      BY <2>1, <3>3 DEF ChangedKeys
    <3> QED
      BY <3>2, <3>3
  <2>3. \A n \in 1 .. Len(RowOrder) : n < row + 1 => n < row \/ n = row
    BY <1>1
  <2> QED
    BY <2>1, <2>2, <2>3
<1>12. CASE ItemsCollected
  <2>1. /\ pc = "collect" /\ row > Len(RowOrder) /\ pc' = "stale"
        /\ UNCHANGED <<ev, items, changes>> /\ ev.type = "ORDER_COMPLETED"
    BY <1>12 DEF ItemsCollected, Goto, plan, tables, IInv, OrderInHand
  <2>2. ASSUME NEW k \in Keys, items[ev.order][k] > 0
        PROVE  k \in ChangedKeys
    <3>1. PICK n \in 1 .. Len(RowOrder) : RowOrder[n] = k
      BY EventsAssumption DEF Keys
    <3>2. n < row
      BY <1>1, <2>1
    <3> QED
      BY <2>1, <2>2, <3>1, <3>2
  <2>3. TouchedProducts(ev)' = {k[1] : k \in {j \in Keys : items[ev.order][j] > 0}}
    BY <2>1 DEF TouchedProducts, InventoryTypes
  <2>4. ChangedProducts' = ChangedProducts
    BY <2>1 DEF ChangedProducts, ChangedKeys
  <2> QED
    BY <2>1, <2>2, <2>3, <2>4 DEF ChangedProducts
<1>13. CASE PlanIsFresh \/ ApplyChange \/ BatchReady
  <2>1. /\ pc \in {"stale", "apply"} /\ pc' \in {"apply", "write"}
        /\ UNCHANGED <<ev, items, changes>>
    BY <1>13 DEF PlanIsFresh, ApplyChange, BatchReady, Goto, plan, tables
  <2>2. TouchedProducts(ev)' = TouchedProducts(ev) /\ ChangedProducts' = ChangedProducts
    BY <2>1 DEF TouchedProducts, ChangedProducts, ChangedKeys
  <2> QED
    BY <2>1, <2>2
<1>14. CASE \E e \in Events : Receive(e)
  BY <1>14 DEF Receive
<1>15. CASE UNCHANGED vars
  <2>1. UNCHANGED <<pc, ev, items, changes, next, row, status>>
    BY <1>15 DEF vars
  <2>2. /\ TouchedProducts(ev)' = TouchedProducts(ev)
        /\ ChangedProducts' = ChangedProducts /\ ChangedKeys' = ChangedKeys
    BY <2>1 DEF TouchedProducts, ChangedProducts, ChangedKeys
  <2> QED
    BY <2>1, <2>2
<1> QED
  BY <1>2, <1>3, <1>4, <1>5, <1>6, <1>7, <1>8, <1>9, <1>10, <1>11, <1>12, <1>13, <1>14,
     <1>15, NextKinds DEF Advances

\* What the batch of a plan leaves behind for its event.
LEMMA WriteSeen ==
    ASSUME IInv, PlanCovers, Write, status = "PROCESSED"
    PROVE  /\ ev \in Events /\ ev.timestamp # None
           /\ ev.type \in InventoryTypes \union OrderTypes
           /\ ev.type \in OrderTypes => ev.order \in Orders /\ orders'[ev.order] # "NONE"
           /\ ev.type = "ORDER_COMPLETED" => items'[ev.order] = items[ev.order]
           /\ \A p \in TouchedProducts(ev) :
                 /\ p \in Products
                 /\ versions'[ProductKey(p)] = Stored(ev.timestamp)
                 /\ ~(ev.timestamp <= versions[ProductKey(p)])
<1>1. /\ pc = "write" /\ WriteInventory /\ WriteOrder
      /\ ev \in Events /\ HasIdentity(ev)
  BY WriteFrame DEF IInv, EventInHand
<1>2. /\ ev.type \in InventoryTypes \union OrderTypes
      /\ ev.type \in OrderTypes => ev.order \in Orders
  BY <1>1 DEF IInv, OrderInHand, Applying
<1>3. /\ ev.type \in OrderTypes => orders'[ev.order] # "NONE"
      /\ ev.type = "ORDER_COMPLETED" => items'[ev.order] = items[ev.order]
  BY <1>1, <1>2, OrderWritten DEF OrderTypes, IInv, TypeOK
<1>4. ASSUME NEW p \in TouchedProducts(ev)
      PROVE  /\ p \in Products
             /\ versions'[ProductKey(p)] = Stored(ev.timestamp)
             /\ ~(ev.timestamp <= versions[ProductKey(p)])
  <2>1. p \in ChangedProducts
    BY <1>1, <1>4 DEF PlanCovers, Applying
  <2>2. p \in Products
    BY <2>1, PlanKeys DEF IInv
  <2>3. ProductKey(p) \in EntitiesOfPlan /\ ProductKey(p) \in EntityKeys
    BY <2>1, <2>2 DEF EntitiesOfPlan, EntityKeys
  <2>4. ~IsStale(EntitiesOfPlan, ev.timestamp)
    BY <1>1 DEF IInv, PlanInHand, Applying
  <2> QED
    BY <1>1, <2>2, <2>3, <2>4 DEF WriteInventory, IsStale
<1> QED
  BY <1>1, <1>2, <1>3, <1>4 DEF HasIdentity

\* One step of a call adds its own event to those applied, and no other.
LEMMA AppliedGrows ==
    ASSUME IInv, DistinctIds, [Next]_vars, NEW f \in Applied'
    PROVE  f \in Applied \/ (Write /\ status = "PROCESSED" /\ f = ev)
<1>1. f \in Events /\ processed'[f.id] = "PROCESSED" /\ f.id \in RawIds
  BY EventFields DEF Applied
<1>2. CASE ~Write
  BY <1>1, <1>2, OnlyWriteWrites DEF Applied, tables
<1>3. CASE Write
  <2>1. ev \in Events /\ ev.id \in RawIds
    BY <1>3, WriteFrame, EventFields DEF IInv, EventInHand
  <2>2. processed' = [processed EXCEPT ![ev.id] = status]
    BY <1>3, WriteFrame DEF RecordEvent
  <2>3. CASE f.id = ev.id
    BY <1>1, <1>3, <2>1, <2>2, <2>3 DEF DistinctIds, IInv, TypeOK
  <2>4. CASE f.id # ev.id
    BY <1>1, <2>1, <2>2, <2>4 DEF Applied, IInv, TypeOK
  <2> QED
    BY <2>3, <2>4
<1> QED
  BY <1>2, <1>3

\* Versions stay at or above the events applied to their products.
LEMMA SeenKept ==
    ASSUME IInv, Precedence, DistinctIds, [Next]_vars
    PROVE  AppliedSeen'
<1> DEFINE Seen(f) ==
             /\ f.timestamp # None
             /\ f.type \in InventoryTypes \union OrderTypes
             /\ f.type \in OrderTypes => f.order \in Orders /\ orders'[f.order] # "NONE"
             /\ \A p \in TouchedProducts(f)' :
                   p \in Products /\ Stored(f.timestamp) <= versions'[ProductKey(p)]
<1>1. ASSUME NEW f \in Applied', f \in Applied
      PROVE  Seen(f)
  <2>1. /\ f \in Events /\ f.timestamp # None
        /\ f.type \in InventoryTypes \union OrderTypes
        /\ f.type \in OrderTypes => f.order \in Orders /\ orders[f.order] # "NONE"
        /\ \A p \in TouchedProducts(f) :
              p \in Products /\ Stored(f.timestamp) <= versions[ProductKey(p)]
    BY <1>1 DEF Precedence, AppliedSeen, Applied
  <2>2. /\ f.type \in OrderTypes => orders'[f.order] # "NONE"
        /\ f.type = "ORDER_COMPLETED" => items'[f.order] = items[f.order]
    BY <2>1, OrderStep DEF OrderTypes, IInv, TypeOK
  <2>3. TouchedProducts(f)' = TouchedProducts(f)
    BY <2>1, <2>2, TouchedStays
  <2>4. ASSUME NEW p \in TouchedProducts(f)
        PROVE  p \in Products /\ Stored(f.timestamp) <= versions'[ProductKey(p)]
    <3>1. p \in Products /\ Stored(f.timestamp) <= versions[ProductKey(p)]
      BY <2>1
    <3>2. ProductKey(p) \in EntityKeys
      BY <3>1 DEF EntityKeys
    <3>3. /\ versions'[ProductKey(p)] >= versions[ProductKey(p)]
          /\ versions[ProductKey(p)] \in Int /\ versions'[ProductKey(p)] \in Int
      BY <3>2, VersionStep, TypePreserved DEF IInv, TypeOK, Never
    <3>4. Stored(f.timestamp) \in Nat
      BY <2>1, EventFields, StoredTime
    <3> QED
      BY <3>1, <3>3, <3>4
  <2> QED
    BY <2>1, <2>2, <2>3, <2>4
<1>2. ASSUME NEW f \in Applied', Write, status = "PROCESSED", f = ev
      PROVE  Seen(f)
  <2>1. /\ ev \in Events /\ ev.timestamp # None
        /\ ev.type \in InventoryTypes \union OrderTypes
        /\ ev.type \in OrderTypes => ev.order \in Orders /\ orders'[ev.order] # "NONE"
        /\ ev.type = "ORDER_COMPLETED" => items'[ev.order] = items[ev.order]
        /\ \A p \in TouchedProducts(ev) :
              p \in Products /\ versions'[ProductKey(p)] = Stored(ev.timestamp)
    BY <1>2, WriteSeen DEF Precedence
  <2>2. TouchedProducts(f) = TouchedProducts(ev)
    BY <1>2
  <2>3. TouchedProducts(f)' = TouchedProducts(f)
    BY <1>2, <2>1, TouchedStays
  <2>4. Stored(ev.timestamp) \in Nat
    BY <2>1, EventFields, StoredTime
  <2> QED
    BY <1>2, <2>1, <2>2, <2>3, <2>4
<1>3. \A f \in Applied' : Seen(f)
  BY <1>1, <1>2, AppliedGrows
<1> QED
  BY <1>3 DEF AppliedSeen

\* If no two events share an event_id, an event is applied only if it is newer than
\* every event applied before to one of its products, as far as entity_versions
\* tells: an older event is applied after a newer one within a millisecond only.
THEOREM NewestEventWins ==
    ASSUME DistinctIds
    PROVE  Spec => NewestWins
<1>1. Init => Precedence
  <2>1. Init => PlanCovers
    BY DEF Init, PlanCovers, Applying
  <2>2. Init => Applied = {}
    BY EventFields DEF Init, Applied
  <2> QED
    BY <2>1, <2>2 DEF Precedence, AppliedSeen
<1>2. IInv /\ Precedence /\ [Next]_vars => Precedence'
  BY PlanStaysCovering, SeenKept DEF Precedence
<1>3. ASSUME IInv, Precedence, [Next]_vars, NEW e \in Events, NEW f \in Applied,
             processed[e.id] = "NONE", processed'[e.id] = "PROCESSED",
             TouchedProducts(e) \intersect TouchedProducts(f) # {}
      PROVE  Stored(f.timestamp) < e.timestamp
  <2>1. Write /\ status = "PROCESSED" /\ e = ev
    BY <1>3, AppliedGrows DEF Applied
  <2>2. PICK p : p \in TouchedProducts(e) /\ p \in TouchedProducts(f)
    BY <1>3
  <2>3. /\ p \in Products /\ ev.timestamp # None
        /\ ~(ev.timestamp <= versions[ProductKey(p)])
    BY <1>3, <2>1, <2>2, WriteSeen DEF Precedence
  <2>4. f \in Events /\ f.timestamp # None /\ Stored(f.timestamp) <= versions[ProductKey(p)]
    BY <1>3, <2>2 DEF Precedence, AppliedSeen, Applied
  <2>5. f.timestamp \in Nat /\ e.timestamp \in Nat
    BY <1>3, <2>1, <2>3, <2>4, EventFields
  <2>6. Stored(f.timestamp) \in Nat
    BY <2>5, StoredTime
  <2>7. versions[ProductKey(p)] \in Int
    <3>1. ProductKey(p) \in EntityKeys
      BY <2>3 DEF EntityKeys
    <3> QED
      BY <1>3, <3>1 DEF IInv, TypeOK, Never
  <2> QED
    BY <2>1, <2>3, <2>4, <2>5, <2>6, <2>7
<1>4. IInv /\ Precedence /\ [Next]_vars =>
        [\A e \in Events :
            processed[e.id] = "NONE" /\ processed'[e.id] = "PROCESSED" =>
               \A f \in EarlierOnSame(e) : Stored(f.timestamp) < e.timestamp]_vars
  BY <1>3 DEF EarlierOnSame
<1> QED
  BY <1>1, <1>2, <1>4, Invariance, PTL DEF Spec, NewestWins

-----------------------------------------------------------------------------
(* LateBatches. However late the batches, for any events: no row and no     *)
(* aggregate is ever negative, and no order reopens. Most of what precedes *)
(* is lost here, as a landing batch changes the tables under the call in   *)
(* progress; what is left is that every value written was tested, and that *)
(* what a batch holds does not change on its way.                          *)

Positive(r) == r.available >= 0 /\ r.reserved >= 0

\* The plan's rows, its aggregates from the test to the batch, and a late batch.
PlanPositive ==
    /\ \A k \in DOMAIN rows : Positive(rows[k])
    /\ pc = "write" => \A p \in Planned(ChangedProducts) : TotalSuffices(p)

BatchPositive ==
    /\ \A k \in DOMAIN late["inventory"] : Positive(late["inventory"][k])
    /\ \A p \in DOMAIN late["totals"] : Positive(late["totals"][p])

LateInv == StockNonNegative /\ PlanPositive /\ BatchPositive

\* Nothing is under way.
LEMMA LateInitHolds == LateInit => LateInv
<1> SUFFICES ASSUME LateInit PROVE LateInv
  OBVIOUS
<1> USE DEF LateInit, Init, EmptyRow, NoRows, NoBatch, NoCells, Tables
<1>1. StockNonNegative
  BY DEF StockNonNegative, Keys
<1>2. PlanPositive
  BY DEF PlanPositive
<1>3. BatchPositive
  BY DEF BatchPositive
<1> QED
  BY <1>1, <1>2, <1>3 DEF LateInv

\* A call that ends leaves an empty plan.
LEMMA PlanEmptied ==
    ASSUME NEW v, Return(v)
    PROVE  PlanPositive'
BY DEF Return, PlanPositive, NoRows

\* A row enters the plan once its values are tested.
LEMMA RowTested ==
    ASSUME PlanPositive, ApplyChange
    PROVE  PlanPositive'
<1> DEFINE change == changes[next]
           k == change.key
<1>1. pc' = "apply"
  BY DEF ApplyChange
<1>2. NewAvailable(change) >= 0 /\ NewReserved(change) >= 0
  BY DEF ApplyChange, Suffices
<1>3. /\ DOMAIN rows' = DOMAIN rows \union {k}
      /\ rows'[k].available = NewAvailable(change)
      /\ rows'[k].reserved = NewReserved(change)
      /\ \A j \in DOMAIN rows : j # k => rows'[j] = rows[j]
  BY DEF ApplyChange
<1>4. \A j \in DOMAIN rows' : Positive(rows'[j])
  BY <1>2, <1>3 DEF PlanPositive, Positive
<1> HIDE DEF k, change
<1> QED
  BY <1>1, <1>4 DEF PlanPositive

\* No step of a call disturbs the plan; the last one tests its aggregates.
LEMMA PlanStaysPositive ==
    ASSUME PlanPositive, [Next]_vars
    PROVE  PlanPositive'
<1>1. CASE Ends \/ Write
  BY <1>1, PlanEmptied, WriteFrame DEF Ends
<1>2. CASE Records
  <2>1. status' # "PROCESSED" /\ rows' = rows
    BY <1>2 DEF Records, RecordOnly
  <2> QED
    BY <2>1 DEF PlanPositive, Planned
<1>3. CASE ApplyChange
  BY <1>3, RowTested
<1>4. CASE BatchReady
  <2>1. /\ \A p \in ChangedProducts : TotalSuffices(p)
        /\ UNCHANGED <<changes, rows, deltas, status, totals>>
    BY <1>4 DEF BatchReady, Goto, plan, tables
  <2>2. ChangedProducts' = ChangedProducts
    BY <2>1 DEF ChangedKeys, ChangedProducts
  <2>3. \A p \in ChangedProducts : TotalSuffices(p)'
    BY <2>1 DEF TotalSuffices, NewTotal, FirstKeyOf
  <2> QED
    BY <2>1, <2>2, <2>3 DEF PlanPositive, Planned
<1>5. CASE Advances /\ ~(ApplyChange \/ BatchReady)
  <2>1. pc' # "write" /\ rows' = rows
    BY <1>5 DEF Advances, Dispatch, PlanInventory, BeginOrder, BookItem, BeginAllocation,
                SkipRow, TakeFromRow, OrderBooked, BeginCompletion, CollectItem,
                ItemsCollected, PlanIsFresh, Goto
  <2> QED
    BY <2>1 DEF PlanPositive
<1>6. CASE \E e \in Events : Receive(e)
  BY <1>6 DEF Receive, PlanPositive
<1>7. CASE UNCHANGED vars
  <2>1. UNCHANGED <<changes, rows, deltas, status, totals, pc>>
    BY <1>7 DEF vars
  <2>2. Planned(ChangedProducts)' = Planned(ChangedProducts)
    BY <2>1 DEF ChangedKeys, ChangedProducts, Planned
  <2>3. \A p \in ChangedProducts : TotalSuffices(p)' <=> TotalSuffices(p)
    BY <2>1 DEF TotalSuffices, NewTotal, FirstKeyOf
  <2> QED
    BY <2>1, <2>2, <2>3 DEF PlanPositive, Planned
<1> QED
  BY <1>1, <1>2, <1>3, <1>4, <1>5, <1>6, <1>7, NextKinds

\* A batch applied in time writes what was tested.
LEMMA WrittenNonNegative ==
    ASSUME StockNonNegative, PlanPositive, Write
    PROVE  StockNonNegative'
<1>1. CASE status # "PROCESSED"
  BY <1>1, WriteFrame DEF StockNonNegative
<1>2. CASE status = "PROCESSED"
  <2>1. WriteInventory /\ pc = "write"
    BY <1>2, WriteFrame
  <2>2. \A k \in Keys : inventory'[k].available >= 0 /\ inventory'[k].reserved >= 0
    BY <2>1 DEF WriteInventory, CurrentRow, StockNonNegative, PlanPositive, Positive
  <2>3. \A p \in Products :
           totals'[p] = IF p \in ChangedProducts THEN NewTotal(p) ELSE totals[p]
    BY <2>1 DEF WriteInventory
  <2>4. \A p \in ChangedProducts : NewTotal(p).available >= 0 /\ NewTotal(p).reserved >= 0
    BY <1>2, <2>1 DEF PlanPositive, Planned, TotalSuffices
  <2>5. \A p \in Products : totals'[p].available >= 0 /\ totals'[p].reserved >= 0
    BY <2>3, <2>4 DEF StockNonNegative
  <2> QED
    BY <2>2, <2>5 DEF StockNonNegative
<1> QED
  BY <1>1, <1>2

\* Every step keeps stock, plan and late batch from being negative.
LEMMA LateStepHolds == LateInv /\ [LateNext]_allVars => LateInv'
<1> SUFFICES ASSUME StockNonNegative, PlanPositive, BatchPositive, [LateNext]_allVars
             PROVE  LateInv'
  BY DEF LateInv
<1>1. CASE Works \/ WriteLost
  <2>1. Next /\ UNCHANGED late
    BY <1>1 DEF Works, WriteLost, Next, Step, lateVars
  <2>2. UNCHANGED tables
    <3>1. CASE Works
      <4>1. ~Write
        BY <3>1 DEF Works, Write
      <4> QED
        BY <2>1, <4>1, OnlyWriteWrites
    <3>2. CASE WriteLost
      BY <3>2 DEF WriteLost, WriteFails
    <3> QED
      BY <1>1, <3>1, <3>2
  <2>3. PlanPositive'
    BY <2>1, PlanStaysPositive
  <2> QED
    BY <2>1, <2>2, <2>3 DEF LateInv, StockNonNegative, BatchPositive, tables
<1>2. CASE WriteNow
  <2>1. Write /\ UNCHANGED late
    BY <1>2 DEF WriteNow
  <2>2. PlanPositive'
    BY <2>1, WriteFrame, PlanEmptied
  <2> QED
    BY <2>1, <2>2, WrittenNonNegative DEF LateInv, BatchPositive
<1>3. CASE WriteTimesOut
  <2>1. pc = "write" /\ late' = Batch /\ UNCHANGED tables /\ Return("STORE_ERROR")
    BY <1>3 DEF WriteTimesOut
  <2>2. PlanPositive'
    BY <2>1, PlanEmptied
  <2>3. \A k \in DOMAIN Batch["inventory"] : Positive(Batch["inventory"][k])
    BY DEF Batch, PlanPositive, Planned
  <2>4. \A p \in DOMAIN Batch["totals"] : Positive(Batch["totals"][p])
    BY <2>1 DEF Batch, PlanPositive, TotalSuffices, Positive
  <2>5. BatchPositive'
    BY <2>1, <2>3, <2>4 DEF BatchPositive
  <2> QED
    BY <2>1, <2>2, <2>5 DEF LateInv, StockNonNegative, tables
<1>4. CASE Land
  <2>1. /\ \A k \in Keys : inventory'[k] = Winner("inventory", k, inventory[k])
        /\ \A p \in Products : totals'[p] = Winner("totals", p, totals[p])
        /\ late' = NoBatch /\ pc # "write" /\ pc' = pc /\ rows' = rows
    BY <1>4 DEF Land
  <2>2. StockNonNegative'
    BY <2>1 DEF Winner, StockNonNegative, BatchPositive, Positive
  <2>3. PlanPositive'
    BY <2>1 DEF PlanPositive
  <2>4. BatchPositive'
    BY <2>1 DEF BatchPositive, NoBatch, NoCells, Tables
  <2> QED
    BY <2>2, <2>3, <2>4 DEF LateInv
<1>5. CASE UNCHANGED allVars
  <2>1. UNCHANGED vars /\ UNCHANGED late
    BY <1>5 DEF allVars, lateVars
  <2>2. PlanPositive'
    BY <2>1, PlanStaysPositive
  <2> QED
    BY <2>1, <2>2 DEF LateInv, vars, StockNonNegative, BatchPositive
<1> QED
  BY <1>1, <1>2, <1>3, <1>4, <1>5 DEF LateNext

\* No row and no aggregate is negative, however late a batch is applied.
THEOREM NeverNegativeHoweverLate == LateSpec => []StockNonNegative
<1>1. LateInv => StockNonNegative
  BY DEF LateInv
<1> QED
  BY <1>1, LateInitHolds, LateStepHolds, PTL DEF LateSpec

-----------------------------------------------------------------------------
(* The orders.                                                             *)

LateHolds(o, s) == o \in DOMAIN late["orders"] /\ late["orders"][o] = s

\* A call that creates an order found none, and no completion of it is under way;
\* a call that completes an order found it. No batch takes either back.
LateOrderInHand ==
    /\ pc = "idle" \/ ev \in Events
    /\ pc \in {"items", "allocate"} => ev.type = "ORDER_CREATED"
    /\ pc = "collect" => ev.type = "ORDER_COMPLETED"
    /\ Planning \/ Applying =>
          /\ ev.type \in InventoryTypes \union OrderTypes
          /\ ev.type \in OrderTypes => ev.order \in Orders
          /\ ev.type = "ORDER_CREATED" =>
                orders[ev.order] # "COMPLETED" /\ ~LateHolds(ev.order, "COMPLETED")
          /\ ev.type = "ORDER_COMPLETED" => orders[ev.order] # "NONE"

\* A late completion is of an order that exists; a late creation that would
\* still win is of an order that nobody completed since.
LateOrders ==
    \A o \in Orders :
        /\ o \in DOMAIN late["orders"] => late["orders"][o] \in {"CREATED", "COMPLETED"}
        /\ LateHolds(o, "COMPLETED") => orders[o] # "NONE"
        /\ LateHolds(o, "CREATED") /\ <<"orders", o>> \notin newer => orders[o] # "COMPLETED"

ReopenInv == DOMAIN orders = Orders /\ LateOrderInHand /\ LateOrders

\* No order is known.
LEMMA ReopenInitHolds == LateInit => ReopenInv
BY DEF LateInit, Init, ReopenInv, LateOrderInHand, LateOrders, LateHolds, Planning, Applying,
       NoBatch, NoCells, Tables

\* The order in hand stays as found in every step of a call that keeps the tables.
LEMMA HandKept ==
    ASSUME ReopenInv, [Next]_vars, UNCHANGED <<tables, late>>
    PROVE  LateOrderInHand'
<1> USE DEF Planning, Applying
<1>1. UNCHANGED <<orders, late>> /\ \A o, s : LateHolds(o, s)' = LateHolds(o, s)
  BY DEF tables, LateHolds
<1>2. CASE Ends
  BY <1>2 DEF Ends, Return, LateOrderInHand
<1>3. CASE Write
  BY <1>3, WriteFrame DEF Return, LateOrderInHand
<1>4. CASE Records
  BY <1>1, <1>4 DEF Records, RecordOnly, ReopenInv, LateOrderInHand
<1>5. CASE Dispatch
  BY <1>5 DEF Dispatch, Goto, ReopenInv, LateOrderInHand
<1>6. CASE PlanInventory
  BY <1>6 DEF PlanInventory, Goto, ReopenInv, LateOrderInHand, OrderTypes, InventoryTypes
<1>7. CASE BeginOrder \/ BeginCompletion
  <2>1. /\ pc = "dispatch" /\ ev \in Events /\ ev.order # None /\ ev' = ev
        /\ pc' \in {"items", "collect"}
        /\ pc' = "items" => ev.type = "ORDER_CREATED" /\ orders[ev.order] = "NONE"
        /\ pc' = "collect" => ev.type = "ORDER_COMPLETED" /\ orders[ev.order] = "CREATED"
    BY <1>7 DEF BeginOrder, BeginCompletion, OrderIsFresh, CanCreate, CanComplete, Goto,
                ReopenInv, LateOrderInHand
  <2>2. ev.order \in Orders
    BY <2>1, EventFields
  <2>3. orders[ev.order] = "NONE" => ~LateHolds(ev.order, "COMPLETED")
    BY <2>2 DEF ReopenInv, LateOrders
  <2> QED
    BY <1>1, <2>1, <2>2, <2>3 DEF LateOrderInHand, OrderTypes
<1>8. CASE BookItem \/ BeginAllocation \/ SkipRow \/ TakeFromRow \/ OrderBooked
  <2>1. /\ pc \in {"items", "allocate"} /\ ev' = ev
        /\ pc' \in {"items", "allocate", "stale"}
    BY <1>8 DEF BookItem, BeginAllocation, ItemInHand, SkipRow, TakeFromRow, Allocating,
                OrderBooked, Goto
  <2> QED
    BY <1>1, <2>1 DEF ReopenInv, LateOrderInHand
<1>9. CASE CollectItem \/ ItemsCollected
  <2>1. pc = "collect" /\ ev' = ev /\ pc' \in {"collect", "stale"}
    BY <1>9 DEF CollectItem, ItemsCollected, Goto
  <2> QED
    BY <1>1, <2>1 DEF ReopenInv, LateOrderInHand
<1>10. CASE PlanIsFresh \/ ApplyChange \/ BatchReady
  <2>1. pc \in {"stale", "apply"} /\ ev' = ev /\ pc' \in {"apply", "write"}
    BY <1>10 DEF PlanIsFresh, ApplyChange, BatchReady, Goto
  <2> QED
    BY <1>1, <2>1 DEF ReopenInv, LateOrderInHand
<1>11. CASE \E e \in Events : Receive(e)
  BY <1>11 DEF Receive, LateOrderInHand
<1>12. CASE UNCHANGED vars
  BY <1>1, <1>12 DEF vars, ReopenInv, LateOrderInHand
<1> QED
  BY <1>2, <1>3, <1>4, <1>5, <1>6, <1>7, <1>8, <1>9, <1>10, <1>11, <1>12, NextKinds
     DEF Advances

Reopened == \E o \in Orders : orders[o] = "COMPLETED" /\ orders'[o] # "COMPLETED"

\* After a call only what the late batch holds matters.
LEMMA HandEmptied ==
    ASSUME NEW v, Return(v)
    PROVE  LateOrderInHand'
BY DEF Return, LateOrderInHand, Planning, Applying

\* A batch in time gives its order the status its handler asked for.
LEMMA OrderMoves ==
    ASSUME ReopenInv, Write
    PROVE  /\ DOMAIN orders' = Orders /\ ~Reopened
           /\ \A o \in Orders : orders[o] # "NONE" => orders'[o] # "NONE"
           /\ \A o \in Orders : orders'[o] = "COMPLETED" =>
                 orders[o] = "COMPLETED" \/ o \in DOMAIN Batch["orders"]
<1>1. CASE status # "PROCESSED"
  BY <1>1, WriteFrame DEF ReopenInv, Reopened
<1>2. CASE status = "PROCESSED"
  <2>1. WriteOrder /\ Applying
    BY <1>2, WriteFrame DEF Applying
  <2>2. /\ ev.type \in InventoryTypes \union OrderTypes
        /\ ev.type \in OrderTypes => ev.order \in Orders
        /\ ev.type = "ORDER_CREATED" => orders[ev.order] # "COMPLETED"
    BY <2>1 DEF ReopenInv, LateOrderInHand
  <2>3. CASE ev.type \in InventoryTypes
    BY <2>1, <2>3, OrderWritten DEF ReopenInv, Reopened
  <2>4. CASE ev.type \in OrderTypes
    <3>1. PICK s \in {"CREATED", "COMPLETED"} :
             /\ orders' = [orders EXCEPT ![ev.order] = s]
             /\ s = "CREATED" => orders[ev.order] # "COMPLETED"
      BY <2>1, <2>2, <2>4, OrderWritten DEF OrderTypes
    <3>2. DOMAIN Batch["orders"] = {ev.order}
      BY <1>2, <2>4 DEF Batch, Planned, OrderOf
    <3> QED
      BY <2>2, <2>4, <3>1, <3>2 DEF ReopenInv, Reopened
  <2> QED
    BY <2>2, <2>3, <2>4
<1> QED
  BY <1>1, <1>2

\* A batch that lands moves orders to what it holds, unless something newer did.
LEMMA OrderLands ==
    ASSUME ReopenInv, Land
    PROVE  ReopenInv' /\ ~Reopened
<1>1. /\ pc' = pc /\ ev' = ev /\ status' = status
      /\ DOMAIN orders' = Orders
      /\ \A o \in Orders : orders'[o] = Winner("orders", o, orders[o])
      /\ late' = NoBatch
  BY DEF Land
<1>2. \A o, s : ~LateHolds(o, s)'
  BY <1>1 DEF LateHolds, NoBatch, NoCells, Tables
<1>3. LateOrders'
  BY <1>1 DEF LateOrders, LateHolds, NoBatch, NoCells, Tables
<1>4. ASSUME NEW o \in Orders
      PROVE  /\ orders[o] = "COMPLETED" => orders'[o] = "COMPLETED"
             /\ orders[o] # "NONE" => orders'[o] # "NONE"
             /\ ~LateHolds(o, "COMPLETED") /\ orders[o] # "COMPLETED"
                   => orders'[o] # "COMPLETED"
  BY <1>1, <1>4 DEF Winner, ReopenInv, LateOrders, LateHolds
<1>5. LateOrderInHand'
  BY <1>1, <1>2, <1>4 DEF ReopenInv, LateOrderInHand, Planning, Applying, OrderTypes
<1> QED
  BY <1>1, <1>3, <1>4, <1>5 DEF ReopenInv, Reopened

\* What a batch that times out holds agrees with the orders it was made from.
LEMMA OrderDelayed ==
    ASSUME ReopenInv, WriteTimesOut
    PROVE  LateOrders'
<1>1. late' = Batch /\ orders' = orders /\ pc = "write"
  BY DEF WriteTimesOut, tables
<1>2. ASSUME NEW o \in Orders, o \in DOMAIN Batch["orders"]
      PROVE  /\ Batch["orders"][o] \in {"CREATED", "COMPLETED"}
             /\ Batch["orders"][o] = "COMPLETED" => orders[o] # "NONE"
             /\ Batch["orders"][o] = "CREATED" => orders[o] # "COMPLETED"
  <2>1. /\ status = "PROCESSED" /\ ev.type \in OrderTypes /\ o = ev.order
        /\ Batch["orders"][o] = OrderStatus
    BY <1>2 DEF Batch, Planned, OrderOf
  <2>2. Applying
    BY <1>1, <2>1 DEF Applying
  <2> QED
    BY <2>1, <2>2 DEF OrderStatus, OrderTypes, ReopenInv, LateOrderInHand
<1> QED
  BY <1>1, <1>2 DEF LateOrders, LateHolds

\* Every step keeps the orders in hand, and reopens none.
LEMMA ReopenStepHolds == ReopenInv /\ [LateNext]_allVars => ReopenInv' /\ ~Reopened
<1> SUFFICES ASSUME ReopenInv, [LateNext]_allVars
             PROVE  ReopenInv' /\ ~Reopened
  OBVIOUS
<1>1. CASE Works \/ WriteLost \/ UNCHANGED allVars
  <2>1. [Next]_vars /\ UNCHANGED <<tables, late, newer>>
    <3>1. CASE Works
      <4>1. Next /\ ~Write /\ UNCHANGED <<late, newer>>
        BY <3>1 DEF Works, Write, Next, lateVars
      <4> QED
        BY <4>1, OnlyWriteWrites
    <3>2. CASE WriteLost
      BY <3>2 DEF WriteLost, WriteFails, Next, Step, lateVars
    <3>3. CASE UNCHANGED allVars
      BY <3>3 DEF allVars, vars, lateVars, tables
    <3> QED
      BY <1>1, <3>1, <3>2, <3>3
  <2>2. LateOrderInHand'
    BY <2>1, HandKept
  <2> QED
    BY <2>1, <2>2 DEF ReopenInv, LateOrders, LateHolds, Reopened, tables
<1>2. CASE WriteNow
  <2>1. /\ Write /\ UNCHANGED late
        /\ newer' = IF late = NoBatch THEN {} ELSE newer \union RowsOf(Batch)
    BY <1>2 DEF WriteNow
  <2>2. LateOrderInHand'
    BY <2>1, WriteFrame, HandEmptied
  <2>3. ASSUME NEW o \in Orders, o \in DOMAIN late["orders"]
        PROVE  /\ newer' = newer \union RowsOf(Batch)
               /\ o \in DOMAIN Batch["orders"] => <<"orders", o>> \in newer'
    <3>1. late # NoBatch
      BY <2>3 DEF NoBatch, NoCells, Tables
    <3>2. o \in DOMAIN Batch["orders"] => <<"orders", o>> \in RowsOf(Batch)
      BY DEF RowsOf, Tables
    <3> QED
      BY <2>1, <3>1, <3>2
  <2>4. LateOrders'
    BY <2>1, <2>3, OrderMoves DEF ReopenInv, LateOrders, LateHolds
  <2> QED
    BY <2>1, <2>2, <2>4, OrderMoves DEF ReopenInv
<1>3. CASE WriteTimesOut
  <2>1. UNCHANGED orders /\ Return("STORE_ERROR")
    BY <1>3 DEF WriteTimesOut, tables
  <2> QED
    BY <1>3, <2>1, HandEmptied, OrderDelayed DEF ReopenInv, Reopened
<1>4. CASE Land
  BY <1>4, OrderLands
<1> QED
  BY <1>1, <1>2, <1>3, <1>4 DEF LateNext

\* An order that was completed stays so: a batch that creates an order and lands
\* late has lost its row to the completion that came after it.
THEOREM CompletedForGood == LateSpec => OrdersNeverReopen
<1>1. ~Reopened => \A o \in Orders : orders[o] = "COMPLETED" => orders'[o] = "COMPLETED"
  BY DEF Reopened
<1> QED
  BY <1>1, ReopenInitHolds, ReopenStepHolds, PTL DEF LateSpec, OrdersNeverReopen
=============================================================================
