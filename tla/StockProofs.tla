----------------------------- MODULE StockProofs -----------------------------
(***************************************************************************)
(* What adds up in StateProcessor: the aggregates, the stock that orders   *)
(* and reservations hold, what orders booked; and that the processor       *)
(* implements Ledger.                                                      *)
(***************************************************************************)
EXTENDS StateProcessorProofs, Sums

-----------------------------------------------------------------------------
(* Sums over the rows of a product.                                        *)

SumAvailable(table, p) == SumFunction([k \in KeysOf(p) |-> table[k].available])
SumReserved(table, p) == SumFunction([k \in KeysOf(p) |-> table[k].reserved])

\* A product has finitely many keys, and they are keys.
LEMMA KeysOfProduct ==
    ASSUME NEW p \in Products
    PROVE  /\ IsFiniteSet(KeysOf(p)) /\ KeysOf(p) \subseteq Keys
           /\ \A k \in Keys : k \in KeysOf(p) <=> k[1] = p
<1>1. IsFiniteSet({p}) /\ IsFiniteSet(Zones)
  BY FS_Singleton, EventsAssumption
<1>2. IsFiniteSet({p} \X Zones)
  BY <1>1, FS_Product
<1> QED
  BY <1>2 DEF KeysOf, Keys

\* One changed row moves the sum of its product by as much, and no other.
LEMMA SumsMove ==
    ASSUME NEW table \in [Keys -> RowType], NEW k \in Keys, NEW new \in RowType,
           NEW p \in Products
    PROVE  LET table2 == [table EXCEPT ![k] = new] IN
           /\ SumAvailable(table2, p) =
                SumAvailable(table, p) + (IF k[1] = p THEN new.available - table[k].available
                                                      ELSE 0)
           /\ SumReserved(table2, p) =
                SumReserved(table, p) + (IF k[1] = p THEN new.reserved - table[k].reserved
                                                     ELSE 0)
<1> DEFINE table2 == [table EXCEPT ![k] = new]
           S == KeysOf(p)
           a == [j \in S |-> table[j].available]
           a2 == [j \in S |-> table2[j].available]
           r == [j \in S |-> table[j].reserved]
           r2 == [j \in S |-> table2[j].reserved]
<1>1. IsFiniteSet(S) /\ S \subseteq Keys /\ (k \in S <=> k[1] = p)
  BY KeysOfProduct
<1>2. /\ a \in [S -> Int] /\ a2 \in [S -> Int] /\ r \in [S -> Int] /\ r2 \in [S -> Int]
      /\ \A j \in S : j # k => a2[j] = a[j] /\ r2[j] = r[j]
      /\ k \in S => /\ a[k] = table[k].available /\ a2[k] = new.available
                    /\ r[k] = table[k].reserved /\ r2[k] = new.reserved
  BY <1>1 DEF RowType
<1>3. /\ SumAvailable(table, p) = SumFunction(a) /\ SumAvailable(table2, p) = SumFunction(a2)
      /\ SumReserved(table, p) = SumFunction(r) /\ SumReserved(table2, p) = SumFunction(r2)
  BY DEF SumAvailable, SumReserved
<1>4. /\ SumFunction(a) \in Int /\ SumFunction(a2) \in Int
      /\ SumFunction(r) \in Int /\ SumFunction(r2) \in Int
  <2> HIDE DEF S, a, a2, r, r2
  <2> QED
    BY <1>1, <1>2, SumInt
<1>5. CASE k \in S
  <2> HIDE DEF S, a, a2, r, r2, table2
  <2>1. SumFunction(a2) = SumFunction(a) - a[k] + a2[k]
    BY <1>1, <1>2, <1>5, SumPoint
  <2>2. SumFunction(r2) = SumFunction(r) - r[k] + r2[k]
    BY <1>1, <1>2, <1>5, SumPoint
  <2>3. a[k] \in Int /\ a2[k] \in Int /\ r[k] \in Int /\ r2[k] \in Int
    BY <1>2, <1>5
  <2> QED
    BY <1>1, <1>2, <1>3, <1>4, <1>5, <2>1, <2>2, <2>3 DEF table2
<1>6. CASE k \notin S
  <2>1. a2 = a /\ r2 = r
    BY <1>2, <1>6
  <2> HIDE DEF S, a, a2, r, r2, table2
  <2> QED
    BY <1>1, <1>3, <1>4, <1>6, <2>1 DEF table2
<1> QED
  BY <1>5, <1>6

\* Rows that agree on a product have the same sums there.
LEMMA SumsSame ==
    ASSUME NEW table, NEW table2, NEW p, \A k \in KeysOf(p) : table[k] = table2[k]
    PROVE  /\ SumAvailable(table, p) = SumAvailable(table2, p)
           /\ SumReserved(table, p) = SumReserved(table2, p)
<1>1. /\ [k \in KeysOf(p) |-> table[k].available] = [k \in KeysOf(p) |-> table2[k].available]
      /\ [k \in KeysOf(p) |-> table[k].reserved] = [k \in KeysOf(p) |-> table2[k].reserved]
  OBVIOUS
<1> QED
  BY <1>1 DEF SumAvailable, SumReserved

\* The sums of a table of rows, and those of one that is nowhere negative.
LEMMA SumsTyped ==
    ASSUME NEW table \in [Keys -> RowType], NEW p \in Products
    PROVE  /\ SumAvailable(table, p) \in Int /\ SumReserved(table, p) \in Int
           /\ (\A k \in Keys : table[k].available >= 0 /\ table[k].reserved >= 0)
                 => SumAvailable(table, p) >= 0 /\ SumReserved(table, p) >= 0
<1> DEFINE S == KeysOf(p)
           a == [j \in S |-> table[j].available]
           r == [j \in S |-> table[j].reserved]
<1>1. IsFiniteSet(S) /\ S \subseteq Keys
  BY KeysOfProduct
<1>2. a \in [S -> Int] /\ r \in [S -> Int]
  BY <1>1 DEF RowType
<1>3. (\A k \in Keys : table[k].available >= 0 /\ table[k].reserved >= 0)
        => a \in [S -> Nat] /\ r \in [S -> Nat]
  BY <1>1, <1>2
<1>4. SumAvailable(table, p) = SumFunction(a) /\ SumReserved(table, p) = SumFunction(r)
  BY DEF SumAvailable, SumReserved
<1> HIDE DEF S, a, r
<1>5. SumFunction(a) \in Int /\ SumFunction(r) \in Int
  BY <1>1, <1>2, SumInt
<1>6. (\A k \in Keys : table[k].available >= 0 /\ table[k].reserved >= 0)
        => SumFunction(a) \in Nat /\ SumFunction(r) \in Nat
  BY <1>1, <1>3, SumNat
<1> QED
  BY <1>4, <1>5, <1>6

\* ProjectionsAgree in these terms.
LEMMA AgreeMeans ==
    ProjectionsAgree <=>
        /\ byZone = inventory
        /\ \A p \in Products : /\ totals[p].available = SumAvailable(inventory, p)
                               /\ totals[p].reserved = SumReserved(inventory, p)
BY DEF ProjectionsAgree, SumOver, SumAvailable, SumReserved

\* They agree as long as nothing is written.
LEMMA AgreeSame ==
    ASSUME ProjectionsAgree, UNCHANGED <<inventory, byZone, totals>>
    PROVE  ProjectionsAgree'
BY DEF ProjectionsAgree, SumOver

-----------------------------------------------------------------------------
(* Aggregates: inventory_by_product is only ever moved by deltas, and each *)
(* row by the change whose delta it is.                                    *)

\* The rows as the call in progress sees them.
Current == [k \in Keys |-> CurrentRow(k)]

\* Rows are planned by the apply loop only, and only those of its changes.
RowsInHand ==
    /\ pc # "write" => status = "PROCESSED"
    /\ ~Applying => DOMAIN rows = {}
    /\ DOMAIN rows \subseteq ChangedKeys

\* The aggregates, moved by the deltas so far, are the sums of the current rows.
DeltasAddUp ==
    \A p \in Products :
        /\ totals[p].available + deltas[p].available = SumAvailable(Current, p)
        /\ totals[p].reserved + deltas[p].reserved = SumReserved(Current, p)

AggInv == RowsInHand /\ ProjectionsAgree /\ DeltasAddUp

\* The rows a call sees are rows, not negative, and without planned ones the table's.
LEMMA CurrentTyped ==
    ASSUME IInv
    PROVE  /\ Current \in [Keys -> RowType]
           /\ \A k \in Keys : Current[k].available >= 0 /\ Current[k].reserved >= 0
           /\ DOMAIN rows = {} => Current = inventory
BY DEF Current, CurrentRow, IInv, TypeOK, StockNonNegative, PlanInHand

\* A turn of the apply loop changes one row.
LEMMA CurrentStep ==
    ASSUME IInv, ApplyChange
    PROVE  LET change == changes[next]
               new == [available |-> NewAvailable(change), reserved |-> NewReserved(change),
                       supplier |-> IF change.overwrite THEN change.supplier
                                    ELSE CurrentRow(change.key).supplier]
           IN  change.key \in Keys /\ new \in RowType
               /\ Current' = [Current EXCEPT ![change.key] = new]
<1> DEFINE change == changes[next]
           key == change.key
           new == [available |-> NewAvailable(change), reserved |-> NewReserved(change),
                   supplier |-> IF change.overwrite THEN change.supplier
                                ELSE CurrentRow(change.key).supplier]
<1>1. key \in Keys /\ new \in RowType
  BY ChangeApplied DEF ApplyChange, RowType, IInv
<1>2. /\ rows' = [k \in DOMAIN rows \union {key} |-> IF k = key THEN new ELSE rows[k]]
      /\ inventory' = inventory
  BY DEF ApplyChange, tables
<1> HIDE DEF key, new
<1>3. \A k \in Keys : Current'[k] = IF k = key THEN new ELSE Current[k]
  BY <1>2 DEF Current, CurrentRow
<1>4. Current' = [Current EXCEPT ![key] = new]
  BY <1>1, <1>3 DEF Current
<1> QED
  BY <1>1, <1>4 DEF key, new

\* It moves the deltas of its product by what it moves the row.
LEMMA DeltasMove ==
    ASSUME IInv, DeltasAddUp, ApplyChange
    PROVE  DeltasAddUp'
<1> DEFINE change == changes[next]
           key == change.key
           new == [available |-> NewAvailable(change), reserved |-> NewReserved(change),
                   supplier |-> IF change.overwrite THEN change.supplier
                                ELSE CurrentRow(change.key).supplier]
<1>1. /\ key \in Keys /\ key[1] \in Products /\ new \in RowType
      /\ Current' = [Current EXCEPT ![key] = new]
  BY CurrentStep DEF Keys
<1>2. /\ Current \in [Keys -> RowType] /\ Current[key] = CurrentRow(key)
  BY <1>1, CurrentTyped DEF Current
<1>3. /\ new.available - Current[key].available = AvailableMoved(change)
      /\ new.reserved - Current[key].reserved = ReservedMoved(change)
      /\ AvailableMoved(change) \in Int /\ ReservedMoved(change) \in Int
  BY <1>2, ChangeApplied DEF AvailableMoved, ReservedMoved, ApplyChange, IInv
<1>4. /\ deltas' = [deltas EXCEPT ![key[1]].available = @ + AvailableMoved(change),
                                  ![key[1]].reserved = @ + ReservedMoved(change)]
      /\ totals' = totals
  BY DEF ApplyChange, tables
<1>5. deltas \in [Products -> [available : Int, reserved : Int]]
  BY DEF IInv, TypeOK
<1> HIDE DEF change, key, new
<1> DEFINE am == AvailableMoved(change)
           rm == ReservedMoved(change)
<1> HIDE DEF am, rm
<1>6. \A p \in Products :
        /\ deltas'[p].available = deltas[p].available + (IF key[1] = p THEN am ELSE 0)
        /\ deltas'[p].reserved = deltas[p].reserved + (IF key[1] = p THEN rm ELSE 0)
  BY <1>1, <1>3, <1>4, <1>5 DEF am, rm
<1>7. ASSUME NEW p \in Products
      PROVE  /\ totals'[p].available + deltas'[p].available = SumAvailable(Current', p)
             /\ totals'[p].reserved + deltas'[p].reserved = SumReserved(Current', p)
  <2>1. /\ SumAvailable(Current', p) = SumAvailable(Current, p) + (IF key[1] = p THEN am ELSE 0)
        /\ SumReserved(Current', p) = SumReserved(Current, p) + (IF key[1] = p THEN rm ELSE 0)
    <3> DEFINE table == Current
               table2 == [table EXCEPT ![key] = new]
    <3>1. /\ SumAvailable(table2, p) = SumAvailable(table, p)
               + (IF key[1] = p THEN new.available - table[key].available ELSE 0)
          /\ SumReserved(table2, p) = SumReserved(table, p)
               + (IF key[1] = p THEN new.reserved - table[key].reserved ELSE 0)
      <4> HIDE DEF table
      <4>1. table \in [Keys -> RowType]
        BY <1>2 DEF table
      <4> QED
        BY <1>1, <4>1, SumsMove
    <3>2. Current' = table2 /\ table[key] = Current[key]
      BY <1>1
    <3> QED
      BY <1>3, <3>1, <3>2 DEF am, rm
  <2>2. /\ totals[p].available \in Int /\ totals[p].reserved \in Int
        /\ deltas[p].available \in Int /\ deltas[p].reserved \in Int
        /\ SumAvailable(Current, p) \in Int /\ SumReserved(Current, p) \in Int
        /\ am \in Int /\ rm \in Int
    BY <1>2, <1>3, <1>5, SumsTyped DEF IInv, TypeOK, RowType, am, rm
  <2>3. totals' = totals
    BY <1>4
  <2>4. /\ totals[p].available + deltas[p].available = SumAvailable(Current, p)
        /\ totals[p].reserved + deltas[p].reserved = SumReserved(Current, p)
    BY DEF DeltasAddUp
  <2>5. /\ deltas'[p].available = deltas[p].available + (IF key[1] = p THEN am ELSE 0)
        /\ deltas'[p].reserved = deltas[p].reserved + (IF key[1] = p THEN rm ELSE 0)
    BY <1>6
  <2> QED
    BY <2>1, <2>2, <2>3, <2>4, <2>5
<1> HIDE DEF am, rm
<1> QED
  BY <1>7, Zenon DEF DeltasAddUp

\* Without rows in hand the deltas are 0 and the current rows are the table's.
LEMMA IdleAddsUp ==
    ASSUME IInv, [Next]_vars, ProjectionsAgree', DOMAIN rows' = {}, deltas' = NoDeltas
    PROVE  DeltasAddUp'
<1>1. totals' \in [Products -> RowType]
  BY TypePreserved DEF TypeOK
<1>2. Current' = inventory'
  <2>1. inventory' \in [Keys -> RowType]
    BY TypePreserved DEF TypeOK
  <2> QED
    BY <2>1 DEF Current, CurrentRow
<1>3. \A p \in Products : deltas'[p].available = 0 /\ deltas'[p].reserved = 0
  BY DEF NoDeltas
<1>4. \A p \in Products : /\ totals'[p].available = SumAvailable(inventory', p)
                          /\ totals'[p].reserved = SumReserved(inventory', p)
  BY DEF ProjectionsAgree, SumOver, SumAvailable, SumReserved
<1>5. \A p \in Products : totals'[p].available \in Int /\ totals'[p].reserved \in Int
  BY <1>1 DEF RowType
<1> HIDE DEF Current
<1> QED
  BY <1>2, <1>3, <1>4, <1>5 DEF DeltasAddUp

\* A batch writes the current rows, and to the aggregates their sums.
LEMMA AggWritten ==
    ASSUME IInv, AggInv, Write
    PROVE  AggInv'
<1>1. RowsInHand'
  <2>1. pc' = "idle" /\ DOMAIN rows' = {} /\ status' = "PROCESSED"
    BY CallOver, WriteFrame DEF IInv, Return
  <2> QED
    BY <2>1 DEF RowsInHand
<1>2. deltas' = NoDeltas /\ DOMAIN rows' = {}
  BY CallOver, WriteFrame DEF IInv, Return
<1>3. ProjectionsAgree'
  <2>1. CASE status # "PROCESSED"
    BY <2>1, WriteFrame, AgreeSame DEF AggInv
  <2>2. CASE status = "PROCESSED"
    <3>1. WriteInventory
      BY <2>2, WriteFrame
    <3>2. inventory' = Current
      BY <3>1 DEF WriteInventory, Current
    <3>3. byZone' = inventory'
      BY <3>1, <3>2 DEF WriteInventory, Current, CurrentRow, AggInv, ProjectionsAgree
    <3>4. ASSUME NEW p \in Products
          PROVE  /\ totals'[p].available = SumAvailable(Current, p)
                 /\ totals'[p].reserved = SumReserved(Current, p)
      <4>1. CASE p \in ChangedProducts
        <5>1. totals'[p] = NewTotal(p)
          BY <3>1, <4>1 DEF WriteInventory
        <5> QED
          BY <5>1 DEF NewTotal, AggInv, DeltasAddUp
      <4>2. CASE p \notin ChangedProducts
        <5>1. totals'[p] = totals[p]
          BY <3>1, <4>2 DEF WriteInventory
        <5>2. \A k \in KeysOf(p) : Current[k] = inventory[k]
          <6>1. \A k \in KeysOf(p) : k \in Keys /\ k[1] = p
            BY KeysOfProduct
          <6>2. \A k \in DOMAIN rows : k[1] \in ChangedProducts
            BY DEF AggInv, RowsInHand, ChangedProducts
          <6> QED
            BY <4>2, <6>1, <6>2 DEF Current, CurrentRow
        <5>3. /\ SumAvailable(Current, p) = SumAvailable(inventory, p)
              /\ SumReserved(Current, p) = SumReserved(inventory, p)
          <6> HIDE DEF Current
          <6> QED
            BY <5>2, SumsSame
        <5> QED
          BY <5>1, <5>3, AgreeMeans DEF AggInv
      <4> QED
        BY <4>1, <4>2
    <3>5. \A p \in Products : /\ totals'[p].available = SumAvailable(inventory', p)
                              /\ totals'[p].reserved = SumReserved(inventory', p)
      <4> HIDE DEF Current
      <4> QED
        BY <3>2, <3>4
    <3> QED
      BY <3>3, <3>5 DEF ProjectionsAgree, SumOver, SumAvailable, SumReserved
  <2> QED
    BY <2>1, <2>2
<1> QED
  BY <1>1, <1>2, <1>3, IdleAddsUp DEF AggInv, Next, Step

\* Every step keeps the aggregates true.
LEMMA AggStep ==
    ASSUME IInv, AggInv, [Next]_vars
    PROVE  AggInv'
<1> USE DEF AggInv
<1>1. CASE Write
  BY <1>1, AggWritten
<1>2. CASE Ends
  <2>1. /\ pc' = "idle" /\ DOMAIN rows' = {} /\ status' = "PROCESSED" /\ deltas' = NoDeltas
        /\ UNCHANGED <<inventory, byZone, totals>>
    BY <1>2, CallOver DEF IInv, Ends, Return, tables
  <2>2. RowsInHand' /\ ProjectionsAgree'
    BY <2>1, AgreeSame DEF RowsInHand
  <2> QED
    BY <2>1, <2>2, IdleAddsUp
<1>3. CASE ApplyChange
  <2>1. DeltasAddUp'
    BY <1>3, DeltasMove
  <2>2. /\ pc = "apply" /\ next \in 1 .. Len(changes)
        /\ UNCHANGED <<pc, status, changes, inventory, byZone, totals>>
        /\ DOMAIN rows' = DOMAIN rows \union {changes[next].key}
    BY <1>3 DEF ApplyChange, tables, plan, IInv, TypeOK
  <2>3. RowsInHand' /\ ProjectionsAgree'
    BY <2>2, AgreeSame DEF RowsInHand, Applying, ChangedKeys
  <2> QED
    BY <2>1, <2>3
<1>4. CASE \/ Records \/ (Advances /\ ~ApplyChange)
           \/ (\E e \in Events : Receive(e)) \/ UNCHANGED vars
  <2>1. UNCHANGED <<inventory, byZone, totals, rows, deltas>>
    BY <1>4, AdvanceFrame DEF Records, RecordOnly, Receive, vars, tables, Advances, Goto, Dispatch,
       PlanInventory, BeginOrder, BookItem, BeginAllocation, SkipRow, TakeFromRow, OrderBooked,
       BeginCompletion, CollectItem, ItemsCollected, PlanIsFresh, BatchReady
  <2>2. ProjectionsAgree' /\ DeltasAddUp'
    <3>1. Current' = Current
      BY <2>1 DEF Current, CurrentRow
    <3> HIDE DEF Current
    <3> QED
      BY <2>1, <3>1, AgreeSame DEF DeltasAddUp
  <2>3. RowsInHand'
    <3>1. CASE Records
      BY <2>1, <3>1 DEF Records, RecordOnly, RowsInHand, Applying, plan
    <3>2. CASE BatchReady \/ PlanIsFresh
      BY <2>1, <3>2 DEF BatchReady, PlanIsFresh, Goto, RowsInHand, Applying, plan, ChangedKeys
    <3>3. CASE Advances /\ ~ApplyChange /\ ~BatchReady /\ ~PlanIsFresh
      <4>1. status' = status /\ ~Applying /\ ~Applying' /\ pc # "write" /\ pc' # "write"
        BY <3>3 DEF Advances, Goto, Dispatch, PlanInventory, BeginOrder, OrderIsFresh, BookItem,
           BeginAllocation, ItemInHand, Allocating, SkipRow, TakeFromRow, OrderBooked,
           BeginCompletion, CollectItem, ItemsCollected, Applying
      <4> QED
        BY <2>1, <4>1 DEF RowsInHand
    <3>4. CASE (\E e \in Events : Receive(e)) \/ UNCHANGED vars
      BY <2>1, <3>4 DEF Receive, vars, plan, RowsInHand, Applying, ChangedKeys
    <3> QED
      BY <1>4, <3>1, <3>2, <3>3, <3>4
  <2> QED
    BY <2>2, <2>3
<1> QED
  BY <1>1, <1>2, <1>3, <1>4, NextKinds

\* At the start every row is empty, and so is every aggregate.
LEMMA AggInit ==
    ASSUME Init
    PROVE  AggInv
<1>1. RowsInHand
  BY DEF Init, NoRows, RowsInHand, Applying
<1>2. ProjectionsAgree
  <2>1. byZone = inventory
    BY DEF Init
  <2>2. ASSUME NEW p \in Products
        PROVE  /\ totals[p].available = SumAvailable(inventory, p)
               /\ totals[p].reserved = SumReserved(inventory, p)
    <3> DEFINE S == KeysOf(p)
               zeros == [k \in S |-> 0]
    <3>1. IsFiniteSet(S) /\ S \subseteq Keys
      BY KeysOfProduct
    <3>2. \A k \in S : inventory[k].available = 0 /\ inventory[k].reserved = 0
      BY <3>1 DEF Init, EmptyRow
    <3>3. [k \in S |-> inventory[k].available] = zeros /\ [k \in S |-> inventory[k].reserved] = zeros
      BY <3>2
    <3>4. SumFunction(zeros) = 0
      <4>1. zeros \in [S -> Int] /\ \A k \in S : zeros[k] = 0
        OBVIOUS
      <4> HIDE DEF S, zeros
      <4> QED
        BY <3>1, <4>1, SumZero
    <3>5. SumAvailable(inventory, p) = 0 /\ SumReserved(inventory, p) = 0
      BY <3>3, <3>4 DEF SumAvailable, SumReserved
    <3> QED
      BY <3>5 DEF Init, EmptyRow
  <2> QED
    BY <2>1, <2>2, AgreeMeans
<1>3. DOMAIN rows = {} /\ deltas = NoDeltas
  BY DEF Init, NoRows
<1>4. \A p \in Products : deltas[p].available = 0 /\ deltas[p].reserved = 0
  BY <1>3 DEF NoDeltas
<1>5. Current = inventory
  BY InitialState, <1>3, CurrentTyped
<1>6. DeltasAddUp
  <2> HIDE DEF Current
  <2>1. \A p \in Products : totals[p].available \in Int /\ totals[p].reserved \in Int
    BY DEF Init, EmptyRow
  <2> QED
    BY <1>2, <1>4, <1>5, <2>1, AgreeMeans DEF DeltasAddUp
<1> QED
  BY <1>1, <1>2, <1>6 DEF AggInv

\* The invariant behind the aggregates.
LEMMA AggInvariance == Spec => []AggInv
BY AggInit, AggStep, Invariance, PTL DEF Spec

\* The three projections of the stock agree: inventory_by_zone holds the rows of
\* inventory_by_product_zone, and inventory_by_product, which process() only ever
\* moves by the deltas of a call, holds their sums.
THEOREM ProjectionsAlwaysAgree == Spec => []ProjectionsAgree
BY AggInvariance, PTL DEF AggInv

\* The test of the aggregates at the end of _apply_inventory_changes refuses no plan:
\* what a plan leaves of every row suffices, hence so do the sums.
THEOREM AggregatesNeverRefuse == Spec => []TotalsNeverRefuse
<1>1. IInv /\ AggInv => TotalsNeverRefuse
  <2> SUFFICES ASSUME IInv, AggInv, NEW p \in ChangedProducts
               PROVE  TotalSuffices(p)
    BY DEF TotalsNeverRefuse
  <2>1. p \in Products
    BY PlanKeys DEF IInv
  <2>2. SumAvailable(Current, p) >= 0 /\ SumReserved(Current, p) >= 0
    <3> HIDE DEF Current
    <3> QED
      BY <2>1, CurrentTyped, SumsTyped
  <2> QED
    BY <2>1, <2>2 DEF TotalSuffices, NewTotal, AggInv, DeltasAddUp
<1> QED
  BY <1>1, Invariance, AggInvariance, PTL

-----------------------------------------------------------------------------
(* Plans of orders: what the changes of a plan do to a row together.       *)

\* What the first m changes of a list add to the reserve of row k.
Moved(list, k, m) ==
    SumFunction([n \in 1 .. m |-> IF list[n].key = k THEN list[n].reserved ELSE 0])

\* Nothing at first, then one change after the other.
LEMMA MovedNext ==
    ASSUME NEW list \in Seq(Change), NEW k
    PROVE  /\ Moved(list, k, 0) = 0
           /\ \A m \in 0 .. Len(list) : Moved(list, k, m) \in Int
           /\ \A m \in 0 .. Len(list) - 1 :
                 Moved(list, k, m + 1)
                   = Moved(list, k, m)
                       + (IF list[m + 1].key = k THEN list[m + 1].reserved ELSE 0)
<1> DEFINE f(m) == [n \in 1 .. m |-> IF list[n].key = k THEN list[n].reserved ELSE 0]
<1>1. ASSUME NEW n \in 1 .. Len(list)
      PROVE  list[n].reserved \in Int
  <2>1. list[n] \in Change
    OBVIOUS
  <2> QED
    BY <2>1 DEF Change
<1>2. \A m \in 0 .. Len(list) : f(m) \in [1 .. m -> Int]
  BY <1>1
<1>3. \A m \in 0 .. Len(list) : Moved(list, k, m) \in Int
  <2> SUFFICES ASSUME NEW m \in 0 .. Len(list) PROVE Moved(list, k, m) \in Int
    OBVIOUS
  <2> DEFINE S == 1 .. m
             h == f(m)
  <2>1. h \in [S -> Int]
    BY <1>2
  <2>2. IsFiniteSet(S)
    BY FS_Interval
  <2>3. Moved(list, k, m) = SumFunction(h)
    BY DEF Moved
  <2> HIDE DEF h, S
  <2> QED
    BY <2>1, <2>2, <2>3, SumInt
<1>4. Moved(list, k, 0) = 0
  <2>1. f(0) \in [{} -> Int] /\ IsFiniteSet({})
    BY FS_EmptySet
  <2>2. SumFunction(f(0)) = 0
    <3> HIDE DEF f
    <3> QED
      BY <2>1, SumZero
  <2> QED
    BY <2>2 DEF Moved
<1>5. ASSUME NEW m \in 0 .. Len(list) - 1
      PROVE  Moved(list, k, m + 1)
               = Moved(list, k, m)
                   + (IF list[m + 1].key = k THEN list[m + 1].reserved ELSE 0)
  <2> DEFINE g == f(m + 1)
             h == [n \in 1 .. m |-> g[n]]
  <2>1. m \in Nat /\ g \in [1 .. m + 1 -> Int]
    BY <1>2
  <2>2. h = f(m)
    OBVIOUS
  <2>3. SumFunction(g) = SumFunction(h) + g[m + 1]
    <3> HIDE DEF g
    <3> QED
      BY <2>1, SumNext
  <2>4. g[m + 1] = IF list[m + 1].key = k THEN list[m + 1].reserved ELSE 0
    OBVIOUS
  <2>5. Moved(list, k, m + 1) = SumFunction(g) /\ Moved(list, k, m) = SumFunction(h)
    <3>1. Moved(list, k, m) = SumFunction(f(m))
      BY DEF Moved
    <3> QED
      BY <2>2, <3>1 DEF Moved
  <2> HIDE DEF g, h, f
  <2> QED
    BY <2>3, <2>4, <2>5
<1> QED
  BY <1>3, <1>4, <1>5

\* A change appended to a list counts for its row.
LEMMA MovedAppend ==
    ASSUME NEW list \in Seq(Change), NEW c \in Change, NEW k
    PROVE  Moved(Append(list, c), k, Len(list) + 1)
             = Moved(list, k, Len(list)) + (IF c.key = k THEN c.reserved ELSE 0)
<1> DEFINE long == Append(list, c)
           L == Len(list)
<1>1. /\ long \in Seq(Change) /\ L \in Nat /\ Len(long) = L + 1 /\ long[L + 1] = c
      /\ \A n \in 1 .. L : long[n] = list[n]
  OBVIOUS
<1>2. Moved(long, k, L + 1)
        = Moved(long, k, L) + (IF long[L + 1].key = k THEN long[L + 1].reserved ELSE 0)
  <2>1. L \in 0 .. Len(long) - 1
    BY <1>1
  <2> HIDE DEF long, L
  <2> QED
    BY <1>1, <2>1, MovedNext
<1>3. Moved(long, k, L) = Moved(list, k, L)
  <2>1. [n \in 1 .. L |-> IF long[n].key = k THEN long[n].reserved ELSE 0]
          = [n \in 1 .. L |-> IF list[n].key = k THEN list[n].reserved ELSE 0]
    <3> HIDE DEF long
    <3> QED
      BY <1>1
  <2> QED
    BY <2>1 DEF Moved
<1> HIDE DEF long, L
<1>4. Moved(long, k, L + 1) = Moved(list, k, L) + (IF c.key = k THEN c.reserved ELSE 0)
  BY <1>1, <1>2, <1>3
<1> QED
  BY <1>4 DEF long, L

\* If every change reserves, or none does, so do its first ones.
LEMMA MovedMonotone ==
    ASSUME NEW list \in Seq(Change), NEW k, NEW m \in 0 .. Len(list)
    PROVE  /\ (\A n \in 1 .. Len(list) : list[n].reserved >= 0)
                 => 0 <= Moved(list, k, m) /\ Moved(list, k, m) <= Moved(list, k, Len(list))
           /\ (\A n \in 1 .. Len(list) : list[n].reserved <= 0)
                 => Moved(list, k, m) <= 0 /\ Moved(list, k, Len(list)) <= Moved(list, k, m)
<1> DEFINE L == Len(list)
           S == 1 .. L
           T == 1 .. m
           f == [n \in S |-> IF list[n].key = k THEN list[n].reserved ELSE 0]
           g == [n \in S |-> IF n \in T THEN f[n] ELSE 0]
<1>1. ASSUME NEW n \in S PROVE list[n].reserved \in Int
  <2>1. list[n] \in Change
    OBVIOUS
  <2> QED
    BY <2>1 DEF Change
<1>2. /\ IsFiniteSet(S) /\ IsFiniteSet(T) /\ T \in SUBSET S
      /\ IntOn(f, S) /\ IntOn(g, S) /\ IntOn(f, T)
      /\ \A n \in T : f[n] = g[n]
      /\ \A n \in S \ T : g[n] = 0
  <2>1. IsFiniteSet(S) /\ IsFiniteSet(T) /\ T \in SUBSET S
    BY FS_Interval
  <2>2. \A n \in S : f[n] \in Int /\ g[n] \in Int
    BY <1>1
  <2>3. (\A n \in T : f[n] = g[n]) /\ (\A n \in S \ T : g[n] = 0)
    BY <2>1
  <2> HIDE DEF f, g, S, T
  <2> QED
    BY <2>1, <2>2, <2>3 DEF IntOn
<1>3. Moved(list, k, L) = SumFunctionOnSet(f, S)
  BY DEF Moved, SumFunction
<1>4. Moved(list, k, m) = SumFunctionOnSet(f, T)
  <2> DEFINE h == [n \in T |-> IF list[n].key = k THEN list[n].reserved ELSE 0]
  <2>1. \A n \in T : f[n] = h[n]
    OBVIOUS
  <2>2. Moved(list, k, m) = SumFunctionOnSet(h, T)
    BY DEF Moved, SumFunction
  <2> HIDE DEF f, T, h
  <2> QED
    BY <1>2, <2>1, <2>2, SumSame
<1>5. SumFunctionOnSet(f, T) = SumFunctionOnSet(g, S)
  <2> HIDE DEF f, g, S, T
  <2>1. SumFunctionOnSet(f, T) = SumFunctionOnSet(g, T)
    BY <1>2, SumSame
  <2>2. SumFunctionOnSet(g, S) = SumFunctionOnSet(g, T)
    BY <1>2, SumOfPart
  <2> QED
    BY <2>1, <2>2
<1> DEFINE zero == [n \in S |-> 0]
<1>6. IntOn(zero, S) /\ SumFunctionOnSet(zero, S) = 0
  <2>1. zero \in [S -> Int] /\ \A n \in S : zero[n] = 0 /\ DOMAIN zero = S
    OBVIOUS
  <2>2. SumFunction(zero) = 0
    <3> HIDE DEF zero, S
    <3> QED
      BY <1>2, <2>1, SumZero
  <2> QED
    BY <2>1, <2>2 DEF IntOn, SumFunction
<1>7. ASSUME \A n \in S : list[n].reserved >= 0
      PROVE  \A n \in S : zero[n] <= g[n] /\ g[n] <= f[n]
  BY <1>1, <1>7
<1>8. ASSUME \A n \in S : list[n].reserved <= 0
      PROVE  \A n \in S : g[n] <= zero[n] /\ f[n] <= g[n]
  BY <1>1, <1>8
<1> HIDE DEF S, T, f, g, zero
<1> QED
  BY <1>2, <1>3, <1>4, <1>5, <1>6, <1>7, <1>8, SumMonotone DEF S, L

-----------------------------------------------------------------------------
(* What a call knows of its plan.                                          *)

Creating == (Planning \/ Applying) /\ ev.type = "ORDER_CREATED"
Completing == (Planning \/ Applying) /\ ev.type = "ORDER_COMPLETED"
Stocking == (pc = "stale" \/ Applying) /\ ev.type \in InventoryTypes

\* Nothing is planned before the dispatch; an inventory event has the changes its
\* handler made of it; an order that does not exist has no items.
PlanKnown ==
    /\ pc \in {"idle", "dedupe", "dispatch"} =>
          changes = << >> /\ booked = NoItems /\ next = 1 /\ row = 1
    /\ Stocking => WellFormed(ev) /\ changes = ChangesOf(ev, inventory)
    /\ \A o \in Orders : orders[o] = "NONE" => items[o] = NoItems

\* What a booking, and the consumption of one, do to a row.
Books(c) == c.count = None /\ ~c.overwrite /\ c.reserved \in Nat /\ c.available = -c.reserved
Consumes(c) == c.count = None /\ ~c.overwrite /\ c.reserved \in Int /\ c.reserved <= 0 /\ c.available = 0

\* How many items of the order are booked or being booked.
Upto == IF pc = "items" THEN next - 1 ELSE IF pc = "allocate" THEN next ELSE Len(ev.items)

\* What the first m items of an order ask of product p.
RequestedUpto(e, p, m) ==
    SumFunction([n \in 1 .. m |-> IF e.items[n].product = p THEN e.items[n].quantity ELSE 0])
SumBooked(b, p) == SumFunction([k \in KeysOf(p) |-> b[k]])
StillAsked(p) == IF pc = "allocate" /\ ev.items[next].product = p THEN remaining ELSE 0

\* The plan of a new order books what its items ask, over its changes as in booked;
\* as long as only _allocate_product books, no more than there is.
BookingKnown ==
    Creating =>
        /\ Upto \in 0 .. Len(ev.items)
        /\ \A n \in 1 .. Upto : ItemWellFormed(ev.items[n])
        /\ \A n \in 1 .. Len(changes) : Books(changes[n])
        /\ \A k \in Keys : Moved(changes, k, Len(changes)) = booked[k]
        /\ \A p \in Products :
              SumBooked(booked, p) + StillAsked(p) = RequestedUpto(ev, p, Upto)
        /\ (\A n \in 1 .. Len(ev.items) : ev.items[n].zone = None)
              => \A k \in Keys : booked[k] <= inventory[k].available

\* What _order_completed has collected of row k.
Collected(k) ==
    IF pc = "collect" /\ \A n \in 1 .. Len(RowOrder) : RowOrder[n] = k => n >= row
    THEN 0 ELSE items[ev.order][k]

\* The plan of a completion consumes what the order booked.
CompletionKnown ==
    Completing =>
        /\ \A n \in 1 .. Len(changes) : Consumes(changes[n])
        /\ \A k \in Keys : Moved(changes, k, Len(changes)) = -Collected(k)

\* How many changes the apply loop has applied.
Done == IF pc = "apply" THEN next - 1 ELSE Len(changes)

\* The current rows are those of the table after these changes.
RowsKnown ==
    Applying =>
        /\ Done <= Len(changes)
        /\ ev.type \in OrderTypes =>
              \A k \in Keys :
                 /\ Current[k].available = inventory[k].available
                      - (IF ev.type = "ORDER_CREATED" THEN Moved(changes, k, Done) ELSE 0)
                 /\ Current[k].reserved = inventory[k].reserved + Moved(changes, k, Done)
                 /\ Current[k].supplier = inventory[k].supplier
        /\ ev.type \in InventoryTypes =>
              \A k \in Keys :
                 /\ \A n \in 1 .. Done : changes[n].key = k =>
                       Current[k] = Promise!After(inventory[k], changes[n])
                 /\ (\A n \in 1 .. Done : changes[n].key # k) => Current[k] = inventory[k]

StockInv == PlanKnown /\ BookingKnown /\ CompletionKnown /\ RowsKnown

\* A plan is known from its first step on.
LEMMA PlanKnownStep ==
    ASSUME IInv, PlanKnown, PlanCovers, [Next]_vars
    PROVE  PlanKnown'
<1> DEFINE NewOrders == \A o \in Orders : orders[o] = "NONE" => items[o] = NoItems
<1>1. NewOrders'
  <2>1. CASE ~Write
    BY <2>1, OnlyWriteWrites DEF PlanKnown, tables
  <2>2. CASE Write /\ status # "PROCESSED"
    BY <2>2, WriteFrame DEF PlanKnown
  <2>3. CASE Write /\ status = "PROCESSED"
    <3>1. WriteOrder /\ pc = "write"
      BY <2>3, WriteFrame
    <3>2. /\ ev.type \in InventoryTypes \union OrderTypes
          /\ ev.type \in OrderTypes => ev.order \in Orders
      BY <2>3, <3>1 DEF IInv, OrderInHand, Applying
    <3> QED
      BY <3>1, <3>2, OrderWritten DEF PlanKnown, OrderTypes, IInv, TypeOK
  <2> QED
    BY <2>1, <2>2, <2>3
<1>2. CASE Ends \/ Write
  <2>1. /\ pc' = "idle" /\ changes' = << >> /\ booked' = NoItems /\ next' = 1 /\ row' = 1
    BY <1>2, CallOver, WriteFrame DEF IInv, Ends, Return
  <2> QED
    BY <1>1, <2>1 DEF PlanKnown, Stocking, Applying
<1>3. CASE Records
  BY <1>1, <1>3 DEF Records, RecordOnly, PlanKnown, Stocking, Applying
<1>4. CASE Dispatch
  BY <1>1, <1>4 DEF Dispatch, Goto, PlanKnown, Stocking, Applying, plan
<1>5. CASE PlanInventory
  <2>1. /\ pc' = "stale" /\ ev' = ev /\ inventory' = inventory /\ WellFormed(ev)
        /\ changes' = ChangesOf(ev, inventory)
    BY <1>5 DEF PlanInventory, Goto, tables
  <2> QED
    BY <1>1, <2>1 DEF PlanKnown
<1>6. CASE PlanIsFresh \/ ApplyChange \/ BatchReady
  <2>1. /\ UNCHANGED <<ev, inventory, changes, status>>
        /\ pc \in {"stale", "apply"} /\ pc' \in {"apply", "write"}
    BY <1>6 DEF PlanIsFresh, ApplyChange, BatchReady, Goto, plan, tables
  <2>2. Stocking' => Stocking
    BY <2>1 DEF Stocking, Applying
  <2> QED
    BY <1>1, <2>1, <2>2 DEF PlanKnown
<1>7. CASE \/ BeginOrder \/ BookItem \/ BeginAllocation \/ SkipRow \/ TakeFromRow
           \/ OrderBooked \/ BeginCompletion \/ CollectItem \/ ItemsCollected
  <2>1. /\ pc' \in {"items", "allocate", "collect", "stale"} /\ ev' = ev
        /\ pc \in {"items", "allocate"} \/ pc = "collect" \/ pc' # "stale"
    BY <1>7 DEF BeginOrder, BookItem, BeginAllocation, SkipRow, TakeFromRow, OrderBooked,
                BeginCompletion, CollectItem, ItemsCollected, Goto
  <2>2. ~Stocking'
    BY <2>1 DEF Stocking, Applying, IInv, OrderInHand, InventoryTypes
  <2> QED
    BY <1>1, <2>1, <2>2 DEF PlanKnown
<1>8. CASE \E e \in Events : Receive(e)
  BY <1>1, <1>8 DEF Receive, PlanKnown, Stocking, Applying, plan
<1>9. CASE UNCHANGED vars
  BY <1>9 DEF vars, PlanKnown, Stocking, Applying
<1> HIDE DEF NewOrders
<1> QED
  BY <1>2, <1>3, <1>4, <1>5, <1>6, <1>7, <1>8, <1>9, NextKinds DEF Advances

-----------------------------------------------------------------------------
(* What an order asks and what is booked for it.                           *)

\* What the items ask for, item after item.
LEMMA RequestedNext ==
    ASSUME NEW e \in Events, NEW p \in Products, NEW m \in 0 .. Len(e.items),
           \A n \in 1 .. m : ItemWellFormed(e.items[n])
    PROVE  /\ RequestedUpto(e, p, m) \in Nat
           /\ m = 0 => RequestedUpto(e, p, m) = 0
           /\ m > 0 => RequestedUpto(e, p, m)
                         = RequestedUpto(e, p, m - 1)
                             + (IF e.items[m].product = p THEN e.items[m].quantity ELSE 0)
<1> DEFINE S == 1 .. m
           f == [n \in S |-> IF e.items[n].product = p THEN e.items[n].quantity ELSE 0]
<1>1. Len(e.items) \in Nat /\ m \in Nat
  BY EventFields
<1>2. f \in [S -> Nat]
  <2>1. ASSUME NEW n \in S PROVE e.items[n].quantity \in Nat
    BY <1>1, ItemFields DEF ItemWellFormed, IsQuantity
  <2> QED
    BY <2>1
<1>3. IsFiniteSet(S)
  BY <1>1, FS_Interval
<1>4. RequestedUpto(e, p, m) = SumFunction(f)
  BY DEF RequestedUpto
<1>5. RequestedUpto(e, p, m) \in Nat
  <2> HIDE DEF S, f
  <2> QED
    BY <1>2, <1>3, <1>4, SumNat
<1>6. m = 0 => RequestedUpto(e, p, m) = 0
  <2>1. m = 0 => \A x \in S : f[x] = 0
    OBVIOUS
  <2>2. f \in [S -> Int]
    BY <1>2
  <2> HIDE DEF S, f
  <2> QED
    BY <1>3, <1>4, <2>1, <2>2, SumZero
<1>7. ASSUME m > 0
      PROVE  RequestedUpto(e, p, m)
               = RequestedUpto(e, p, m - 1)
                   + (IF e.items[m].product = p THEN e.items[m].quantity ELSE 0)
  <2> DEFINE l == m - 1
             h == [n \in 1 .. l |-> f[n]]
  <2>1. l \in Nat /\ l + 1 = m
    BY <1>1, <1>7
  <2>2. f \in [1 .. l + 1 -> Int]
    BY <1>2, <2>1
  <2>3. SumFunction(f) = SumFunction(h) + f[l + 1]
    <3> HIDE DEF f, l
    <3> QED
      BY <2>1, <2>2, SumNext
  <2>4. h = [n \in 1 .. l |-> IF e.items[n].product = p THEN e.items[n].quantity ELSE 0]
    BY <1>1, <1>7
  <2>5. RequestedUpto(e, p, l) = SumFunction(h)
    BY <2>4 DEF RequestedUpto
  <2>6. f[m] = IF e.items[m].product = p THEN e.items[m].quantity ELSE 0
    BY <1>1, <1>7
  <2> HIDE DEF f, h
  <2> QED
    BY <1>4, <2>1, <2>3, <2>5, <2>6
<1> QED
  BY <1>5, <1>6, <1>7

\* The items of product p are those whose quantities an order asks of it.
LEMMA RequestedAll ==
    ASSUME NEW e \in Events, NEW p \in Products,
           \A n \in 1 .. Len(e.items) : ItemWellFormed(e.items[n])
    PROVE  /\ Requested(e, p) = RequestedUpto(e, p, Len(e.items))
           /\ Requested(e, p) <= SumOver(1 .. Len(e.items), LAMBDA n : e.items[n].quantity)
           /\ SumOver(1 .. Len(e.items), LAMBDA n : e.items[n].quantity) \in Nat
<1> DEFINE S == 1 .. Len(e.items)
           T == {n \in S : e.items[n].product = p}
           f == [n \in S |-> IF e.items[n].product = p THEN e.items[n].quantity ELSE 0]
           g == [n \in T |-> e.items[n].quantity]
           h == [n \in S |-> e.items[n].quantity]
<1>1. IsFiniteSet(S) /\ T \in SUBSET S
  BY EventFields, FS_Interval
<1>2. IsFiniteSet(T)
  BY <1>1, FS_Subset
<1>3. \A n \in S : e.items[n].quantity \in Nat
  BY ItemFields DEF ItemWellFormed, IsQuantity
<1>4. /\ \A n \in S : f[n] \in Int /\ h[n] \in Nat /\ f[n] <= h[n]
      /\ \A n \in T : f[n] = g[n]
      /\ \A n \in S \ T : f[n] = 0
      /\ DOMAIN g = T /\ DOMAIN f = S /\ DOMAIN h = S
  BY <1>3
<1>5. /\ Requested(e, p) = SumFunction(g)
      /\ RequestedUpto(e, p, Len(e.items)) = SumFunction(f)
      /\ SumOver(1 .. Len(e.items), LAMBDA n : e.items[n].quantity) = SumFunction(h)
  BY DEF Requested, RequestedUpto, SumOver
<1> HIDE DEF S, T, f, g, h
<1>6. SumFunctionOnSet(f, S) = SumFunctionOnSet(f, T)
  BY <1>1, <1>4, SumOfPart DEF IntOn
<1>7. SumFunctionOnSet(f, T) = SumFunctionOnSet(g, T)
  BY <1>1, <1>2, <1>4, SumSame DEF IntOn
<1>8. SumFunctionOnSet(f, S) <= SumFunctionOnSet(h, S)
  BY <1>1, <1>4, SumMonotone DEF IntOn
<1>9. SumFunctionOnSet(h, S) \in Nat
  BY <1>1, <1>4, SumOfNats
<1> QED
  BY <1>4, <1>5, <1>6, <1>7, <1>8, <1>9 DEF SumFunction

\* What is booked of a product is a number.
LEMMA BookedTyped ==
    ASSUME NEW b \in [Keys -> Nat], NEW p \in Products
    PROVE  SumBooked(b, p) \in Nat
<1> DEFINE S == KeysOf(p)
           f == [j \in S |-> b[j]]
<1>1. IsFiniteSet(S) /\ S \subseteq Keys
  BY KeysOfProduct
<1>2. f \in [S -> Nat]
  BY <1>1
<1>3. SumBooked(b, p) = SumFunction(f)
  BY DEF SumBooked
<1> HIDE DEF S, f
<1> QED
  BY <1>1, <1>2, <1>3, SumNat

\* A booking of q units of row k adds q to what is booked of its product.
LEMMA BookedMore ==
    ASSUME NEW b \in [Keys -> Nat], NEW k \in Keys, NEW q \in Nat, NEW p \in Products
    PROVE  SumBooked([b EXCEPT ![k] = @ + q], p)
             = SumBooked(b, p) + (IF k[1] = p THEN q ELSE 0)
<1> DEFINE S == KeysOf(p)
           b2 == [b EXCEPT ![k] = @ + q]
           f == [j \in S |-> b[j]]
           g == [j \in S |-> b2[j]]
<1>1. IsFiniteSet(S) /\ S \subseteq Keys /\ (k \in S <=> k[1] = p)
  BY KeysOfProduct
<1>2. /\ f \in [S -> Nat] /\ g \in [S -> Nat]
      /\ \A j \in S : j # k => g[j] = f[j]
      /\ k \in S => g[k] = f[k] + q
  BY <1>1
<1>3. SumBooked(b, p) = SumFunction(f) /\ SumBooked(b2, p) = SumFunction(g)
  BY DEF SumBooked
<1>4. SumFunction(f) \in Nat
  BY <1>3, BookedTyped
<1>5. SumFunction(g) = SumFunction(f) + (IF k[1] = p THEN q ELSE 0)
  <2>1. CASE k \in S
    <3>1. f \in [S -> Int] /\ g \in [S -> Int] /\ f[k] \in Nat
      BY <1>2, <2>1
    <3> HIDE DEF S, f, g
    <3>2. SumFunction(g) = SumFunction(f) - f[k] + g[k]
      BY <1>1, <1>2, <2>1, <3>1, SumPoint
    <3> QED
      BY <1>1, <1>2, <1>4, <2>1, <3>1, <3>2
  <2>2. CASE k \notin S
    <3>1. g = f
      BY <1>2, <2>2
    <3> HIDE DEF S, f, g
    <3> QED
      BY <1>1, <1>4, <2>2, <3>1
  <2> QED
    BY <2>1, <2>2
<1> HIDE DEF S, f, g
<1> QED
  BY <1>3, <1>4, <1>5

\* Nothing is booked at first.
LEMMA BookedNone ==
    ASSUME NEW p \in Products
    PROVE  SumBooked(NoItems, p) = 0
<1> DEFINE S == KeysOf(p)
           f == [j \in S |-> NoItems[j]]
<1>1. IsFiniteSet(S) /\ S \subseteq Keys
  BY KeysOfProduct
<1>2. f \in [S -> Int] /\ \A j \in S : f[j] = 0
  BY <1>1 DEF NoItems
<1>3. SumBooked(NoItems, p) = SumFunction(f)
  BY DEF SumBooked
<1> HIDE DEF S, f
<1> QED
  BY <1>1, <1>2, <1>3, SumZero

-----------------------------------------------------------------------------
(* The booking of an order.                                                *)

\* A booking is a change that books, of its row.
LEMMA BookingChange ==
    ASSUME NEW k \in Keys, NEW q \in Nat
    PROVE  LET c == Delta(k, -q, q) IN
           c \in Change /\ Books(c) /\ c.key = k /\ c.reserved = q
<1>1. Delta(k, -q, q) \in Change
  BY DeltaIsChange
<1> QED
  BY <1>1 DEF Delta, Books

\* One booking more: the plan still adds up to what is booked.
LEMMA BookAdds ==
    ASSUME IInv, NEW k \in Keys, NEW q \in Nat, Book(k, q),
           \A n \in 1 .. Len(changes) : Books(changes[n]),
           \A j \in Keys : Moved(changes, j, Len(changes)) = booked[j]
    PROVE  /\ \A n \in 1 .. Len(changes') : Books(changes'[n])
           /\ \A j \in Keys : Moved(changes', j, Len(changes')) = booked'[j]
           /\ \A p \in Products : SumBooked(booked', p)
                                    = SumBooked(booked, p) + (IF k[1] = p THEN q ELSE 0)
           /\ \A p \in Products : SumBooked(booked, p) \in Nat
           /\ booked' = [booked EXCEPT ![k] = @ + q]
<1> DEFINE c == Delta(k, -q, q)
<1>1. /\ changes' = Append(changes, c) /\ booked' = [booked EXCEPT ![k] = @ + q]
      /\ changes \in Seq(Change) /\ booked \in [Keys -> Nat]
  BY DEF Book, IInv, TypeOK
<1>2. c \in Change /\ Books(c) /\ c.key = k /\ c.reserved = q
  BY BookingChange
<1> HIDE DEF c
<1>3. /\ Len(changes') = Len(changes) + 1 /\ changes'[Len(changes) + 1] = c
      /\ Len(changes) \in Nat
      /\ \A n \in 1 .. Len(changes) : changes'[n] = changes[n]
  BY <1>1
<1>4. \A n \in 1 .. Len(changes') : Books(changes'[n])
  BY <1>2, <1>3 DEF Books
<1>5. ASSUME NEW j \in Keys
      PROVE  Moved(changes', j, Len(changes')) = booked'[j]
  <2>1. Moved(changes', j, Len(changes'))
          = Moved(changes, j, Len(changes)) + (IF c.key = j THEN c.reserved ELSE 0)
    BY <1>1, <1>2, <1>3, MovedAppend
  <2> QED
    BY <1>1, <1>2, <2>1
<1>6. ASSUME NEW p \in Products
      PROVE  /\ SumBooked(booked', p) = SumBooked(booked, p) + (IF k[1] = p THEN q ELSE 0)
             /\ SumBooked(booked, p) \in Nat
  <2> DEFINE b2 == [booked EXCEPT ![k] = @ + q]
  <2>1. /\ SumBooked(b2, p) = SumBooked(booked, p) + (IF k[1] = p THEN q ELSE 0)
        /\ SumBooked(booked, p) \in Nat
    BY <1>1, BookedMore, BookedTyped
  <2>2. booked' = b2
    BY <1>1
  <2> HIDE DEF b2
  <2> QED
    BY <2>1, <2>2
<1> QED
  BY <1>1, <1>4, <1>5, <1>6

\* An order begins with nothing booked.
LEMMA BookingBegins ==
    ASSUME IInv, PlanKnown, BeginOrder
    PROVE  BookingKnown'
<1>1. /\ pc' = "items" /\ UNCHANGED <<ev, inventory>> /\ ev \in Events /\ ev' = ev
      /\ changes' = << >> /\ booked' = NoItems /\ next' = 1
  BY DEF BeginOrder, OrderIsFresh, Goto, plan, PlanKnown, IInv, EventInHand, tables
<1>2. Upto' = 0
  BY <1>1 DEF Upto
<1>3. \A k \in Keys : Moved(changes', k, Len(changes')) = booked'[k]
  <2>1. << >> \in Seq(Change) /\ Len(<< >>) = 0
    OBVIOUS
  <2>2. \A k \in Keys : Moved(<< >>, k, 0) = 0
    BY <2>1, MovedNext
  <2> QED
    BY <1>1, <2>1, <2>2 DEF NoItems
<1>4. ASSUME NEW p \in Products
      PROVE  SumBooked(booked', p) + StillAsked(p)' = RequestedUpto(ev', p, Upto')
  <2>1. RequestedUpto(ev, p, 0) = 0
    <3>1. 0 \in 0 .. Len(ev.items)
      BY <1>1, EventFields
    <3> QED
      BY <1>1, <3>1, RequestedNext
  <2>2. SumBooked(booked', p) = 0
    BY <1>1, BookedNone
  <2>3. StillAsked(p)' = 0
    BY <1>1 DEF StillAsked
  <2> QED
    BY <1>1, <1>2, <2>1, <2>2, <2>3
<1>5. \A k \in Keys : booked'[k] <= inventory'[k].available
  <2>1. \A k \in Keys : inventory[k].available \in Int /\ inventory[k].available >= 0
    BY DEF IInv, TypeOK, RowType, StockNonNegative
  <2> QED
    BY <1>1, <2>1 DEF NoItems
<1>6. Upto' \in 0 .. Len(ev'.items)
  BY <1>1, <1>2, EventFields
<1> QED
  BY <1>1, <1>2, <1>3, <1>4, <1>5, <1>6 DEF BookingKnown

\* An item with a zone is booked there.
LEMMA BookingOfItem ==
    ASSUME IInv, BookingKnown, BookItem
    PROVE  BookingKnown'
<1> DEFINE item == ev.items[next]
           k == <<item.product, item.zone>>
           q == item.quantity
<1>1. /\ pc = "items" /\ pc' = "items" /\ next \in 1 .. Len(ev.items) /\ next' = next + 1
      /\ UNCHANGED <<ev, inventory>> /\ ev \in Events /\ ev.type = "ORDER_CREATED"
      /\ ItemWellFormed(item) /\ item.zone # None /\ Book(k, q)
  BY DEF BookItem, ItemInHand, Goto, tables, IInv, TypeOK, EventInHand, OrderInHand
<1>2. k \in Keys /\ q \in Nat /\ k[1] = item.product
  BY <1>1, ItemFields DEF ItemWellFormed, IsQuantity, Keys
<1>3. /\ Creating /\ Upto = next - 1 /\ Upto' = next /\ Len(ev.items) \in Nat
  BY <1>1, EventFields DEF Creating, Planning, Upto
<1>4. /\ \A n \in 1 .. Upto : ItemWellFormed(ev.items[n])
      /\ \A n \in 1 .. Len(changes) : Books(changes[n])
      /\ \A j \in Keys : Moved(changes, j, Len(changes)) = booked[j]
      /\ \A p \in Products : SumBooked(booked, p) + StillAsked(p) = RequestedUpto(ev, p, Upto)
  BY <1>3 DEF BookingKnown
<1>5. \A n \in 1 .. Upto' : ItemWellFormed(ev.items[n])
  BY <1>1, <1>3, <1>4
<1> HIDE DEF k, q
<1>6. /\ \A n \in 1 .. Len(changes') : Books(changes'[n])
      /\ \A j \in Keys : Moved(changes', j, Len(changes')) = booked'[j]
      /\ \A p \in Products : /\ SumBooked(booked', p)
                                  = SumBooked(booked, p) + (IF k[1] = p THEN q ELSE 0)
                             /\ SumBooked(booked, p) \in Nat
  BY <1>1, <1>2, <1>4, BookAdds
<1>7. ASSUME NEW p \in Products
      PROVE  SumBooked(booked', p) + StillAsked(p)' = RequestedUpto(ev', p, Upto')
  <2>1. RequestedUpto(ev, p, next) = RequestedUpto(ev, p, next - 1)
                                       + (IF item.product = p THEN item.quantity ELSE 0)
    BY <1>1, <1>3, <1>5, RequestedNext
  <2>2. StillAsked(p) = 0 /\ StillAsked(p)' = 0
    BY <1>1 DEF StillAsked
  <2>3. SumBooked(booked, p) + StillAsked(p) = RequestedUpto(ev, p, next - 1)
    BY <1>3, <1>4
  <2> HIDE DEF item
  <2> QED
    BY <1>1, <1>2, <1>3, <1>6, <2>1, <2>2, <2>3 DEF q
<1>8. ~\A n \in 1 .. Len(ev.items) : ev.items[n].zone = None
  BY <1>1
<1>9. Upto' \in 0 .. Len(ev'.items)
  BY <1>1, <1>3
<1> HIDE DEF item
<1> QED
  BY <1>1, <1>5, <1>6, <1>7, <1>8, <1>9 DEF BookingKnown

\* An item without a zone is asked for in full.
LEMMA BookingAllocates ==
    ASSUME IInv, BookingKnown, BeginAllocation
    PROVE  BookingKnown'
<1>1. /\ pc = "items" /\ pc' = "allocate" /\ next \in 1 .. Len(ev.items) /\ next' = next
      /\ UNCHANGED <<ev, inventory, changes, booked>> /\ ev \in Events
      /\ ev.type = "ORDER_CREATED" /\ remaining' = ev.items[next].quantity
      /\ ItemWellFormed(ev.items[next])
  BY DEF BeginAllocation, ItemInHand, Goto, tables, plan, IInv, TypeOK, EventInHand,
         OrderInHand
<1>2. /\ Creating /\ Upto = next - 1 /\ Upto' = next /\ Len(ev.items) \in Nat
  BY <1>1, EventFields DEF Creating, Planning, Upto
<1>3. \A n \in 1 .. Upto' : ItemWellFormed(ev.items[n])
  BY <1>1, <1>2 DEF BookingKnown
<1>4. ASSUME NEW p \in Products
      PROVE  SumBooked(booked', p) + StillAsked(p)' = RequestedUpto(ev', p, Upto')
  <2>1. RequestedUpto(ev, p, next)
          = RequestedUpto(ev, p, next - 1)
              + (IF ev.items[next].product = p THEN ev.items[next].quantity ELSE 0)
    BY <1>1, <1>2, <1>3, RequestedNext
  <2>2. StillAsked(p) = 0
        /\ StillAsked(p)' = IF ev.items[next].product = p THEN ev.items[next].quantity ELSE 0
    BY <1>1 DEF StillAsked
  <2>3. SumBooked(booked, p) + StillAsked(p) = RequestedUpto(ev, p, next - 1)
    BY <1>2 DEF BookingKnown
  <2>4. SumBooked(booked, p) \in Nat
    <3>1. booked \in [Keys -> Nat]
      BY DEF IInv, TypeOK
    <3> QED
      BY <3>1, BookedTyped
  <2> QED
    BY <1>1, <1>2, <2>1, <2>2, <2>3, <2>4
<1>5. Upto' \in 0 .. Len(ev'.items)
  BY <1>1, <1>2
<1> QED
  BY <1>1, <1>2, <1>3, <1>4, <1>5 DEF BookingKnown

\* What a row gives is taken from what is still asked.
LEMMA BookingOfRow ==
    ASSUME IInv, BookingKnown, TakeFromRow
    PROVE  BookingKnown'
<1>1. /\ pc = "allocate" /\ next \in Nat \ {0} /\ ev \in Events
      /\ ev.type = "ORDER_CREATED" /\ remaining \in Nat
  BY DEF TakeFromRow, Allocating, IInv, TypeOK, EventInHand, OrderInHand
<1>2. PICK k \in Keys : k = RowOrder[row]
  <2>1. row \in 1 .. Len(RowOrder)
    BY EventsAssumption DEF TakeFromRow, Allocating, IInv, TypeOK
  <2> QED
    BY <2>1, RowOrderKeys
<1> DEFINE q == Least(Unbooked(k), remaining)
<1>3. /\ k[1] = ev.items[next].product /\ Unbooked(k) > 0 /\ UNCHANGED <<ev, inventory>>
      /\ Book(k, q) /\ remaining' = remaining - q
      /\ IF q = remaining THEN next' = next + 1 /\ pc' = "items"
                          ELSE next' = next /\ pc' = "allocate"
  BY <1>2 DEF TakeFromRow, Allocates, Goto, tables
<1>4. inventory[k].available \in Int /\ booked[k] \in Nat
  BY <1>2 DEF IInv, TypeOK, RowType
<1>5. q \in Nat /\ q <= remaining /\ q <= inventory[k].available - booked[k]
  BY <1>1, <1>3, <1>4 DEF Least, Unbooked
<1> HIDE DEF q
<1>6. /\ Creating /\ Upto = next /\ Upto' = next /\ Len(ev.items) \in Nat
  BY <1>1, <1>3, EventFields DEF Creating, Planning, Upto
<1>7. /\ Upto \in 0 .. Len(ev.items)
      /\ \A n \in 1 .. Upto : ItemWellFormed(ev.items[n])
      /\ \A n \in 1 .. Len(changes) : Books(changes[n])
      /\ \A j \in Keys : Moved(changes, j, Len(changes)) = booked[j]
      /\ \A p \in Products : SumBooked(booked, p) + StillAsked(p) = RequestedUpto(ev, p, Upto)
      /\ (\A n \in 1 .. Len(ev.items) : ev.items[n].zone = None)
            => \A j \in Keys : booked[j] <= inventory[j].available
  BY <1>6 DEF BookingKnown
<1>8. /\ \A n \in 1 .. Len(changes') : Books(changes'[n])
      /\ \A j \in Keys : Moved(changes', j, Len(changes')) = booked'[j]
      /\ \A p \in Products : /\ SumBooked(booked', p)
                                  = SumBooked(booked, p) + (IF k[1] = p THEN q ELSE 0)
                             /\ SumBooked(booked, p) \in Nat
      /\ booked' = [booked EXCEPT ![k] = @ + q]
  BY <1>2, <1>3, <1>5, <1>7, BookAdds
<1>9. ASSUME NEW p \in Products
      PROVE  SumBooked(booked', p) + StillAsked(p)' = RequestedUpto(ev', p, Upto')
  <2>1. StillAsked(p) = IF k[1] = p THEN remaining ELSE 0
    BY <1>1, <1>3 DEF StillAsked
  <2>2. StillAsked(p)' = IF k[1] = p THEN remaining - q ELSE 0
    <3>1. CASE q = remaining
      BY <1>1, <1>3, <3>1 DEF StillAsked
    <3>2. CASE q # remaining
      BY <1>3, <3>2 DEF StillAsked
    <3> QED
      BY <3>1, <3>2
  <2>3. SumBooked(booked, p) + StillAsked(p) = RequestedUpto(ev, p, next)
    BY <1>6, <1>7
  <2>4. SumBooked(booked', p) = SumBooked(booked, p) + (IF k[1] = p THEN q ELSE 0)
        /\ SumBooked(booked, p) \in Nat
    BY <1>8
  <2>5. SumBooked(booked', p) + StillAsked(p)' = SumBooked(booked, p) + StillAsked(p)
    BY <1>1, <1>5, <2>1, <2>2, <2>4
  <2> QED
    BY <1>3, <1>6, <2>3, <2>5
<1>10. (\A n \in 1 .. Len(ev.items) : ev.items[n].zone = None)
         => \A j \in Keys : booked'[j] <= inventory[j].available
  <2>1. booked \in [Keys -> Nat] /\ \A j \in Keys : inventory[j].available \in Int
    BY DEF IInv, TypeOK, RowType
  <2> QED
    BY <1>2, <1>5, <1>7, <1>8, <2>1
<1> QED
  BY <1>3, <1>6, <1>7, <1>8, <1>9, <1>10 DEF BookingKnown

\* Every step keeps what a call knows of the order it books.
LEMMA BookingKnownStep ==
    ASSUME IInv, PlanKnown, BookingKnown, [Next]_vars
    PROVE  BookingKnown'
<1>1. CASE Ends \/ Write
  BY <1>1, CallOver DEF IInv, BookingKnown, Creating, Planning, Applying
<1>2. CASE Records
  BY <1>2 DEF Records, RecordOnly, BookingKnown, Creating, Planning, Applying
<1>3. CASE Dispatch \/ \E e \in Events : Receive(e)
  BY <1>3 DEF Dispatch, Goto, Receive, BookingKnown, Creating, Planning, Applying
<1>4. CASE PlanInventory \/ BeginCompletion
  <2>1. ~Creating'
    BY <1>4 DEF PlanInventory, BeginCompletion, OrderIsFresh, Goto, Creating, InventoryTypes
  <2> QED
    BY <2>1 DEF BookingKnown
<1>5. CASE BeginOrder
  BY <1>5, BookingBegins
<1>6. CASE BookItem
  BY <1>6, BookingOfItem
<1>7. CASE BeginAllocation
  BY <1>7, BookingAllocates
<1>8. CASE TakeFromRow
  BY <1>8, BookingOfRow
<1>9. CASE CollectItem \/ ItemsCollected
  <2>1. ~Creating'
    BY <1>9 DEF CollectItem, ItemsCollected, Goto, Creating, IInv, OrderInHand
  <2> QED
    BY <2>1 DEF BookingKnown
<1>10. CASE SkipRow \/ OrderBooked \/ PlanIsFresh \/ ApplyChange \/ BatchReady \/ UNCHANGED vars
  <2>1. UNCHANGED <<ev, inventory, changes, booked>>
    BY <1>10 DEF SkipRow, OrderBooked, PlanIsFresh, ApplyChange, BatchReady, Goto, tables, plan,
                 vars
  <2>2. Creating' => Creating
    BY <1>10, <2>1
       DEF SkipRow, Allocating, OrderBooked, PlanIsFresh, ApplyChange, BatchReady, Goto, vars,
           Creating, Planning, Applying
  <2>3. ASSUME Creating
        PROVE  Upto' = Upto /\ \A p \in Products : StillAsked(p)' = StillAsked(p)
    <3>1. CASE SkipRow \/ UNCHANGED vars
      BY <3>1 DEF SkipRow, Allocating, Goto, vars, Upto, StillAsked
    <3>2. CASE OrderBooked
      <4>1. /\ pc = "items" /\ pc' = "stale" /\ next > Len(ev.items) /\ ev' = ev
            /\ next \in Nat /\ ev \in Events
        BY <3>2 DEF OrderBooked, Goto, IInv, TypeOK, EventInHand
      <4>2. Upto = next - 1 /\ Upto' = Len(ev.items) /\ Len(ev.items) \in Nat
        BY <4>1, EventFields DEF Upto
      <4>3. Upto \in 0 .. Len(ev.items)
        BY <2>3 DEF BookingKnown
      <4> QED
        BY <4>1, <4>2, <4>3 DEF StillAsked
    <3>3. CASE PlanIsFresh \/ ApplyChange \/ BatchReady
      BY <2>1, <3>3 DEF PlanIsFresh, ApplyChange, BatchReady, Goto, Upto, StillAsked
    <3> QED
      BY <1>10, <3>1, <3>2, <3>3
  <2>4. SUFFICES ASSUME Creating PROVE BookingKnown'
    BY <2>2 DEF BookingKnown
  <2> QED
    BY <2>1, <2>3, <2>4 DEF BookingKnown
<1> QED
  BY <1>1, <1>2, <1>3, <1>4, <1>5, <1>6, <1>7, <1>8, <1>9, <1>10, NextKinds DEF Advances

-----------------------------------------------------------------------------
(* The completion of an order.                                             *)

\* Every step keeps what a call knows of the order it completes.
LEMMA CompletionKnownStep ==
    ASSUME IInv, PlanKnown, CompletionKnown, [Next]_vars
    PROVE  CompletionKnown'
<1>1. CASE Ends \/ Write
  BY <1>1, CallOver DEF IInv, CompletionKnown, Completing, Planning, Applying
<1>2. CASE Records
  BY <1>2 DEF Records, RecordOnly, CompletionKnown, Completing, Planning, Applying
<1>3. CASE Dispatch \/ \E e \in Events : Receive(e)
  BY <1>3 DEF Dispatch, Goto, Receive, CompletionKnown, Completing, Planning, Applying
<1>4. CASE \/ PlanInventory \/ BeginOrder \/ BookItem \/ BeginAllocation \/ SkipRow
           \/ TakeFromRow \/ OrderBooked
  <2>1. ev' = ev /\ ev.type # "ORDER_COMPLETED"
    BY <1>4 DEF PlanInventory, BeginOrder, OrderIsFresh, BookItem, BeginAllocation, ItemInHand,
                SkipRow, TakeFromRow, Allocating, OrderBooked, Goto, InventoryTypes,
                IInv, OrderInHand
  <2> QED
    BY <2>1 DEF CompletionKnown, Completing
<1>5. CASE BeginCompletion
  <2>1. /\ pc' = "collect" /\ changes' = << >> /\ row' = 1
    BY <1>5 DEF BeginCompletion, OrderIsFresh, Goto, plan, PlanKnown
  <2>2. \A k : Collected(k)' = 0
    BY <2>1 DEF Collected
  <2>3. \A k \in Keys : Moved(<< >>, k, 0) = 0
    <3>1. << >> \in Seq(Change)
      OBVIOUS
    <3> QED
      BY <3>1, MovedNext
  <2> QED
    BY <2>1, <2>2, <2>3 DEF CompletionKnown
<1>6. CASE CollectItem
  <2>1. /\ pc = "collect" /\ pc' = "collect" /\ row' = row + 1 /\ UNCHANGED <<ev, items>>
        /\ changes \in Seq(Change) /\ ev.type = "ORDER_COMPLETED" /\ ev.order \in Orders
    BY <1>6 DEF CollectItem, Goto, tables, IInv, TypeOK, OrderInHand, Planning, OrderTypes
  <2>2. row \in 1 .. Len(RowOrder)
    BY <1>6, EventsAssumption DEF CollectItem, IInv, TypeOK
  <2>3. PICK k \in Keys : k = RowOrder[row]
    BY <2>2, RowOrderKeys
  <2>4. PICK q \in Nat : q = items[ev.order][k]
    BY <2>1 DEF IInv, TypeOK
  <2> DEFINE c == Consume(k, q)
  <2>5. changes' = IF q > 0 THEN Append(changes, c) ELSE changes
    BY <1>6, <2>3, <2>4 DEF CollectItem
  <2>6. /\ c \in Change /\ c.key = k /\ c.reserved = -q /\ Consumes(c)
    <3>1. Delta(k, 0, -q) \in Change
      BY DeltaIsChange
    <3> QED
      BY <3>1 DEF Consume, Consumes, Delta
  <2>7. /\ \A n \in 1 .. Len(changes) : Consumes(changes[n])
        /\ \A j \in Keys : Moved(changes, j, Len(changes)) = -Collected(j)
    BY <2>1 DEF CompletionKnown, Completing, Planning
  <2>8. /\ \A j \in Keys : j # k => Collected(j)' = Collected(j)
        /\ Collected(k) = 0 /\ Collected(k)' = q
    <3>1. \A m, n \in 1 .. Len(RowOrder) : RowOrder[m] = RowOrder[n] => m = n
      BY EventsAssumption
    <3>2. \A n \in 1 .. Len(RowOrder) : n >= row + 1 <=> n >= row /\ n # row
      BY <2>2
    <3>3. Collected(k) = 0
      BY <2>1, <2>2, <2>3, <3>1 DEF Collected
    <3>4. Collected(k)' = q
      BY <2>1, <2>2, <2>3, <2>4 DEF Collected
    <3>5. ASSUME NEW j \in Keys, j # k PROVE Collected(j)' = Collected(j)
      BY <2>1, <2>2, <2>3, <3>2, <3>5 DEF Collected
    <3> QED
      BY <3>3, <3>4, <3>5
  <2> HIDE DEF c
  <2>9. CASE q > 0
    <3>1. changes' = Append(changes, c)
      BY <2>5, <2>9
    <3>2. /\ Len(changes') = Len(changes) + 1 /\ changes'[Len(changes) + 1] = c
          /\ Len(changes) \in Nat
          /\ \A n \in 1 .. Len(changes) : changes'[n] = changes[n]
      BY <2>1, <3>1
    <3>3. \A n \in 1 .. Len(changes') : Consumes(changes'[n])
      BY <2>6, <2>7, <3>2
    <3>4. ASSUME NEW j \in Keys
          PROVE  Moved(changes', j, Len(changes')) = -Collected(j)'
      <4>1. Moved(Append(changes, c), j, Len(changes) + 1)
              = Moved(changes, j, Len(changes)) + (IF c.key = j THEN c.reserved ELSE 0)
        BY <2>1, <2>6, MovedAppend
      <4>2. Moved(changes, j, Len(changes)) \in Int
        <5>1. changes \in Seq(Change) /\ Len(changes) \in 0 .. Len(changes)
          BY <2>1
        <5> QED
          BY <5>1, MovedNext
      <4>3. Moved(changes', j, Len(changes'))
              = Moved(changes, j, Len(changes)) + (IF c.key = j THEN c.reserved ELSE 0)
        BY <3>1, <3>2, <4>1
      <4>4. CASE j = k
        BY <2>6, <2>7, <2>8, <4>3, <4>4
      <4>5. CASE j # k
        <5>1. Moved(changes', j, Len(changes')) = Moved(changes, j, Len(changes))
          BY <2>6, <4>2, <4>3, <4>5
        <5> QED
          BY <2>7, <2>8, <4>5, <5>1
      <4> QED
        BY <4>4, <4>5
    <3> QED
      BY <3>3, <3>4 DEF CompletionKnown
  <2>10. CASE ~(q > 0)
    <3>1. q = 0 /\ changes' = changes
      BY <2>5, <2>10
    <3>2. ASSUME NEW j \in Keys PROVE Collected(j)' = Collected(j)
      BY <2>8, <3>1
    <3> QED
      BY <2>7, <3>1, <3>2 DEF CompletionKnown
  <2> QED
    BY <2>9, <2>10
<1>7. CASE ItemsCollected
  <2>1. /\ pc = "collect" /\ pc' = "stale" /\ row > Len(RowOrder) /\ row \in Nat
        /\ UNCHANGED <<ev, items, changes>> /\ ev.type = "ORDER_COMPLETED"
    BY <1>7 DEF ItemsCollected, Goto, plan, tables, IInv, TypeOK, OrderInHand
  <2>2. Completing
    BY <2>1 DEF Completing, Planning
  <2>3. ASSUME NEW k \in Keys PROVE Collected(k)' = Collected(k)
    <3>1. PICK n \in 1 .. Len(RowOrder) : RowOrder[n] = k
      BY EventsAssumption DEF Keys
    <3>2. ~(n >= row)
      BY <2>1, EventsAssumption
    <3> QED
      BY <2>1, <3>1, <3>2 DEF Collected
  <2> QED
    BY <2>1, <2>2, <2>3 DEF CompletionKnown
<1>8. CASE PlanIsFresh \/ ApplyChange \/ BatchReady \/ UNCHANGED vars
  <2>1. UNCHANGED <<ev, items, changes>>
    BY <1>8 DEF PlanIsFresh, ApplyChange, BatchReady, Goto, tables, plan, vars
  <2>2. Completing' => Completing
    BY <1>8, <2>1 DEF PlanIsFresh, ApplyChange, BatchReady, Goto, vars, Completing, Planning,
                      Applying
  <2>3. \A k \in Keys : Collected(k)' = Collected(k)
    BY <1>8, <2>1 DEF PlanIsFresh, ApplyChange, BatchReady, Goto, vars, Collected
  <2> QED
    BY <2>1, <2>2, <2>3 DEF CompletionKnown
<1> QED
  BY <1>1, <1>2, <1>3, <1>4, <1>5, <1>6, <1>7, <1>8, NextKinds DEF Advances

-----------------------------------------------------------------------------
(* The rows after the changes applied so far.                              *)

\* The changes of an inventory event are at different keys.
LEMMA KeysDiffer ==
    ASSUME NEW e \in Events, e.type \in InventoryTypes, WellFormed(e),
           inventory \in [Keys -> RowType]
    PROVE  \A m, n \in 1 .. Len(ChangesOf(e, inventory)) :
              ChangesOf(e, inventory)[m].key = ChangesOf(e, inventory)[n].key => m = n
<1> DEFINE list == ChangesOf(e, inventory)
<1>1. CASE e.type = "PRODUCT_MOVED"
  <2> DEFINE source == <<e.product, e.from>>
             target == <<e.product, e.to>>
             s == inventory[source].supplier
             c == IF s = None THEN Delta(target, e.quantity, 0)
                              ELSE WithSupplier(Delta(target, e.quantity, 0), s)
             d == Delta(source, -e.quantity, 0)
  <2>1. list = <<d, c>>
    BY <1>1 DEF ChangesOf
  <2>2. source \in Keys /\ target \in Keys /\ source # target /\ e.quantity \in Int
    BY <1>1, EventFields DEF WellFormed, Keys, IsQuantity
  <2>3. s \in Suppliers \union {None}
    BY <2>2 DEF RowType
  <2>4. d.key = source /\ c.key = target
    <3>1. d.key = source
      BY DEF Delta
    <3>2. c.key = target
      <4>1. CASE s = None
        BY <4>1 DEF Delta
      <4>2. CASE s # None
        <5>1. c = WithSupplier(Delta(target, e.quantity, 0), s)
          BY <4>2
        <5> HIDE DEF c, target, s
        <5> QED
          BY <2>2, <2>3, <5>1, DeltaIsChange
      <4> QED
        BY <4>1, <4>2
    <3> QED
      BY <3>1, <3>2
  <2> HIDE DEF c, d, source, target
  <2>5. Len(list) = 2 /\ list[1].key = source /\ list[2].key = target
    BY <2>1, <2>4
  <2> HIDE DEF list
  <2> QED
    BY <2>2, <2>5 DEF list
<1>2. CASE e.type # "PRODUCT_MOVED"
  <2>1. Len(list) = 1
    BY <1>2 DEF ChangesOf, InventoryTypes
  <2> HIDE DEF list
  <2> QED
    BY <2>1 DEF list
<1> QED
  BY <1>1, <1>2

\* The change to apply next, and the rows after it.
LEMMA NextRow ==
    ASSUME IInv, ApplyChange
    PROVE  \E key \in Keys :
              /\ key = changes[next].key
              /\ Current'[key].available = NewAvailable(changes[next])
              /\ Current'[key].reserved = NewReserved(changes[next])
              /\ Current'[key].supplier = IF changes[next].overwrite
                                            THEN changes[next].supplier
                                            ELSE Current[key].supplier
              /\ Current'[key] = Promise!After(Current[key], changes[next])
              /\ CurrentRow(key) = Current[key]
              /\ \A k \in Keys : k # key => Current'[k] = Current[k]
<1> DEFINE change == changes[next]
           key == change.key
           new == [available |-> NewAvailable(change), reserved |-> NewReserved(change),
                   supplier |-> IF change.overwrite THEN change.supplier
                                ELSE CurrentRow(change.key).supplier]
<1>1. key \in Keys /\ Current' = [Current EXCEPT ![key] = new]
  BY CurrentStep
<1>2. Current \in [Keys -> RowType] /\ CurrentRow(key) = Current[key]
  BY <1>1, CurrentTyped DEF Current
<1>3. new = Promise!After(Current[key], change)
  BY <1>2 DEF NewAvailable, NewReserved, Promise!After
<1> HIDE DEF change, key
<1>4. /\ Current'[key] = new
      /\ \A k \in Keys : k # key => Current'[k] = Current[k]
  BY <1>1, <1>2
<1>5. /\ new.available = NewAvailable(change) /\ new.reserved = NewReserved(change)
      /\ new.supplier = IF change.overwrite THEN change.supplier ELSE Current[key].supplier
  BY <1>2 DEF key
<1> HIDE DEF new
<1>6. key = changes[next].key /\ change = changes[next]
  BY DEF key, change
<1> QED
  BY <1>1, <1>2, <1>3, <1>4, <1>5, <1>6

\* A turn of the apply loop, for the plan of an order.
LEMMA OrderRowsStep ==
    ASSUME IInv, BookingKnown, CompletionKnown, RowsKnown, ApplyChange,
           ev.type \in OrderTypes
    PROVE  \A k \in Keys :
              /\ Current'[k].available = inventory[k].available
                   - (IF ev.type = "ORDER_CREATED" THEN Moved(changes, k, next) ELSE 0)
              /\ Current'[k].reserved = inventory[k].reserved + Moved(changes, k, next)
              /\ Current'[k].supplier = inventory[k].supplier
<1>1. /\ pc = "apply" /\ next \in 1 .. Len(changes) /\ changes \in Seq(Change)
      /\ Applying /\ Done = next - 1 /\ Len(changes) \in Nat
  BY DEF ApplyChange, Applying, Done, IInv, TypeOK
<1>2. PICK c \in Change : c = changes[next]
  BY <1>1
<1>3. /\ c.count = None /\ ~c.overwrite /\ c.reserved \in Int
      /\ c.available = IF ev.type = "ORDER_CREATED" THEN -c.reserved ELSE 0
  <2>1. CASE ev.type = "ORDER_CREATED"
    <3>1. Books(c)
      BY <1>1, <1>2, <2>1 DEF BookingKnown, Creating
    <3> QED
      BY <2>1, <3>1 DEF Books
  <2>2. CASE ev.type = "ORDER_COMPLETED"
    <3>1. Consumes(c)
      BY <1>1, <1>2, <2>2 DEF CompletionKnown, Completing
    <3> QED
      BY <2>2, <3>1 DEF Consumes
  <2> QED
    BY <2>1, <2>2 DEF OrderTypes
<1>4. PICK key \in Keys :
        /\ key = c.key
        /\ Current'[key].available = NewAvailable(c)
        /\ Current'[key].reserved = NewReserved(c)
        /\ Current'[key].supplier = Current[key].supplier
        /\ CurrentRow(key) = Current[key]
        /\ \A k \in Keys : k # key => Current'[k] = Current[k]
  BY <1>2, <1>3, NextRow
<1>5. /\ NewAvailable(c) = Current[key].available + c.available
      /\ NewReserved(c) = Current[key].reserved + c.reserved
  BY <1>3, <1>4 DEF NewAvailable, NewReserved
<1>6. ASSUME NEW k \in Keys
      PROVE  /\ Current'[k].available = inventory[k].available
                  - (IF ev.type = "ORDER_CREATED" THEN Moved(changes, k, next) ELSE 0)
             /\ Current'[k].reserved = inventory[k].reserved + Moved(changes, k, next)
             /\ Current'[k].supplier = inventory[k].supplier
  <2>1. /\ Current[k].available = inventory[k].available
             - (IF ev.type = "ORDER_CREATED" THEN Moved(changes, k, next - 1) ELSE 0)
        /\ Current[k].reserved = inventory[k].reserved + Moved(changes, k, next - 1)
        /\ Current[k].supplier = inventory[k].supplier
    <3> HIDE DEF Current
    <3> QED
      BY <1>1 DEF RowsKnown
  <2>2. /\ Moved(changes, k, next)
             = Moved(changes, k, next - 1) + (IF c.key = k THEN c.reserved ELSE 0)
        /\ Moved(changes, k, next - 1) \in Int
    <3> DEFINE m == next - 1
    <3>1. m \in 0 .. Len(changes) - 1 /\ m \in 0 .. Len(changes) /\ m + 1 = next
      BY <1>1
    <3>2. /\ Moved(changes, k, m + 1)
               = Moved(changes, k, m)
                   + (IF changes[m + 1].key = k THEN changes[m + 1].reserved ELSE 0)
          /\ Moved(changes, k, m) \in Int
      <4> HIDE DEF m
      <4> QED
        BY <1>1, <3>1, MovedNext
    <3> QED
      BY <1>2, <3>1, <3>2
  <2>3. inventory[k].available \in Int /\ inventory[k].reserved \in Int
    BY DEF IInv, TypeOK, RowType
  <2> HIDE DEF Current
  <2>4. CASE k = key
    BY <1>3, <1>4, <1>5, <2>1, <2>2, <2>3, <2>4
  <2>5. CASE k # key
    BY <1>4, <2>1, <2>2, <2>3, <2>5
  <2> QED
    BY <2>4, <2>5
<1> QED
  BY <1>6

\* A turn of the apply loop, for the plan of an inventory event.
LEMMA StockRowsStep ==
    ASSUME IInv, PlanKnown, RowsKnown, ApplyChange, ev.type \in InventoryTypes
    PROVE  \A k \in Keys :
              /\ \A n \in 1 .. next : changes[n].key = k =>
                    Current'[k] = Promise!After(inventory[k], changes[n])
              /\ (\A n \in 1 .. next : changes[n].key # k) => Current'[k] = inventory[k]
<1>1. /\ pc = "apply" /\ next \in 1 .. Len(changes)
      /\ Stocking /\ Applying /\ Done = next - 1 /\ Len(changes) \in Nat
  BY DEF ApplyChange, Stocking, Applying, Done, IInv, TypeOK
<1>2. \A m, n \in 1 .. Len(changes) : changes[m].key = changes[n].key => m = n
  <2>1. WellFormed(ev) /\ changes = ChangesOf(ev, inventory) /\ ev \in Events
    BY <1>1 DEF PlanKnown, IInv, EventInHand
  <2> QED
    BY <2>1, KeysDiffer DEF IInv, TypeOK
<1>3. PICK key \in Keys :
        /\ key = changes[next].key
        /\ Current'[key] = Promise!After(Current[key], changes[next])
        /\ \A k \in Keys : k # key => Current'[k] = Current[k]
  BY NextRow
<1> HIDE DEF Current
<1>4. ASSUME NEW k \in Keys
      PROVE  /\ \A n \in 1 .. next - 1 : changes[n].key = k =>
                   Current[k] = Promise!After(inventory[k], changes[n])
             /\ (\A n \in 1 .. next - 1 : changes[n].key # k) => Current[k] = inventory[k]
  BY <1>1 DEF RowsKnown
<1>5. Current[key] = inventory[key]
  <2>1. \A n \in 1 .. next - 1 : changes[n].key # key
    BY <1>1, <1>2, <1>3
  <2> QED
    BY <1>4, <2>1
<1>6. ASSUME NEW k \in Keys, NEW n \in 1 .. next, changes[n].key = k
      PROVE  Current'[k] = Promise!After(inventory[k], changes[n])
  <2>1. CASE n = next
    BY <1>3, <1>5, <1>6, <2>1
  <2>2. CASE n # next
    <3>1. n \in 1 .. next - 1 /\ n \in 1 .. Len(changes) /\ k # key
      BY <1>1, <1>2, <1>3, <1>6, <2>2
    <3> QED
      BY <1>3, <1>4, <1>6, <3>1
  <2> QED
    BY <2>1, <2>2
<1>7. ASSUME NEW k \in Keys, \A n \in 1 .. next : changes[n].key # k
      PROVE  Current'[k] = inventory[k]
  <2>1. next \in 1 .. next /\ \A n \in 1 .. next - 1 : n \in 1 .. next
    BY <1>1
  <2>2. k # key
    BY <1>3, <1>7, <2>1
  <2> QED
    BY <1>3, <1>4, <1>7, <2>1, <2>2
<1> QED
  BY <1>6, <1>7

\* The rows follow the changes, whatever the plan.
LEMMA RowsKnownStep ==
    ASSUME IInv, AggInv, PlanKnown, BookingKnown, CompletionKnown, RowsKnown, [Next]_vars
    PROVE  RowsKnown'
<1>1. changes \in Seq(Change) /\ Len(changes) \in Nat /\ next \in Nat \ {0}
  BY DEF IInv, TypeOK
<1>2. CASE Ends \/ Write \/ Records
  <2>1. pc' = "idle" \/ (pc' = "write" /\ status' # "PROCESSED")
    BY <1>2, WriteFrame DEF Ends, Return, Records, RecordOnly
  <2> QED
    BY <2>1 DEF RowsKnown, Applying
<1>3. CASE \/ Dispatch \/ PlanInventory \/ BeginOrder \/ BookItem \/ BeginAllocation
           \/ SkipRow \/ TakeFromRow \/ OrderBooked \/ BeginCompletion \/ CollectItem
           \/ ItemsCollected
  <2>1. pc' \in {"dispatch", "stale", "items", "allocate", "collect"}
    BY <1>3 DEF Dispatch, PlanInventory, BeginOrder, BookItem, BeginAllocation, SkipRow,
         TakeFromRow, OrderBooked, BeginCompletion, CollectItem, ItemsCollected, Goto
  <2> QED
    BY <2>1 DEF RowsKnown, Applying
<1>4. CASE \E e \in Events : Receive(e)
  BY <1>4 DEF Receive, RowsKnown, Applying
<1>5. CASE PlanIsFresh
  <2>1. /\ pc = "stale" /\ pc' = "apply" /\ next' = 1
        /\ UNCHANGED <<inventory, rows, changes, ev>>
    BY <1>5 DEF PlanIsFresh, Goto, tables, plan
  <2>2. DOMAIN rows = {}
    BY <2>1 DEF AggInv, RowsInHand, Applying
  <2>3. Current' = inventory
    <3>1. Current = inventory
      BY <2>2, CurrentTyped
    <3> QED
      BY <2>1, <3>1 DEF Current, CurrentRow
  <2>4. Done' = 0
    BY <2>1 DEF Done
  <2>5. \A k \in Keys : Moved(changes, k, 0) = 0
    BY <1>1, MovedNext
  <2>6. \A k \in Keys : inventory[k].available \in Int /\ inventory[k].reserved \in Int
    BY DEF IInv, TypeOK, RowType
  <2>7. \A k \in Keys : Moved(changes', k, Done') = 0
    BY <2>1, <2>4, <2>5
  <2> HIDE DEF Current, Done
  <2> QED
    BY <1>1, <2>1, <2>3, <2>4, <2>6, <2>7 DEF RowsKnown
<1>6. CASE ApplyChange
  <2>1. /\ pc = "apply" /\ pc' = "apply" /\ next' = next + 1 /\ next <= Len(changes)
        /\ UNCHANGED <<inventory, changes, ev>>
    BY <1>6 DEF ApplyChange, tables, plan
  <2>2. Done' = next
    BY <1>1, <2>1 DEF Done
  <2>3. ev.type \in OrderTypes =>
          \A k \in Keys :
              /\ Current'[k].available = inventory[k].available
                   - (IF ev.type = "ORDER_CREATED" THEN Moved(changes, k, next) ELSE 0)
              /\ Current'[k].reserved = inventory[k].reserved + Moved(changes, k, next)
              /\ Current'[k].supplier = inventory[k].supplier
    BY <1>6, OrderRowsStep
  <2>4. ev.type \in InventoryTypes =>
          \A k \in Keys :
              /\ \A n \in 1 .. next : changes[n].key = k =>
                    Current'[k] = Promise!After(inventory[k], changes[n])
              /\ (\A n \in 1 .. next : changes[n].key # k) => Current'[k] = inventory[k]
    BY <1>6, StockRowsStep
  <2>5. \A k \in Keys : Moved(changes', k, Done') = Moved(changes, k, next)
    BY <2>1, <2>2
  <2>6. \A k \in Keys, n \in 1 .. next :
           Promise!After(inventory[k], changes[n])' = Promise!After(inventory[k], changes[n])
    BY <2>1 DEF Promise!After
  <2> HIDE DEF Current, Done
  <2> QED
    BY <2>1, <2>2, <2>3, <2>4, <2>5, <2>6 DEF RowsKnown
<1>7. CASE BatchReady
  <2>1. /\ pc = "apply" /\ pc' = "write" /\ next > Len(changes)
        /\ UNCHANGED <<inventory, rows, changes, ev>>
    BY <1>7 DEF BatchReady, Goto, tables, plan
  <2>2. Applying /\ Done <= Len(changes)
    BY <2>1 DEF RowsKnown, Applying
  <2>3. Done' = Done
    BY <1>1, <2>1, <2>2 DEF Done
  <2>4. Current' = Current
    BY <2>1 DEF Current, CurrentRow
  <2>5. \A k \in Keys, n \in 1 .. Done :
           Promise!After(inventory[k], changes[n])' = Promise!After(inventory[k], changes[n])
    BY <2>1 DEF Promise!After
  <2>6. \A k \in Keys : Moved(changes', k, Done') = Moved(changes, k, Done)
    BY <2>1, <2>3
  <2> HIDE DEF Current, Done
  <2> QED
    BY <2>1, <2>2, <2>3, <2>4, <2>5, <2>6 DEF RowsKnown
<1>8. CASE UNCHANGED vars
  <2>1. UNCHANGED <<pc, status, ev, inventory, changes>>
    BY <1>8 DEF vars
  <2>2. Applying' = Applying /\ Done' = Done /\ Current' = Current
    BY <1>8 DEF vars, Applying, Done, Current, CurrentRow
  <2>3. \A k \in Keys, n \in 1 .. Done :
           Promise!After(inventory[k], changes[n])' = Promise!After(inventory[k], changes[n])
    BY <2>1 DEF Promise!After
  <2>4. \A k \in Keys : Moved(changes', k, Done') = Moved(changes, k, Done)
    BY <2>1, <2>2
  <2> HIDE DEF Current, Done, Applying
  <2> QED
    BY <2>1, <2>2, <2>3, <2>4 DEF RowsKnown
<1> QED
  BY <1>2, <1>3, <1>4, <1>5, <1>6, <1>7, <1>8, NextKinds DEF Advances

\* At the start no call is in progress.
LEMMA StockInit ==
    ASSUME Init
    PROVE  PlanCovers /\ StockInv
<1>1. PlanCovers
  BY DEF Init, PlanCovers, Applying
<1>2. PlanKnown
  BY DEF Init, PlanKnown, Stocking, Applying
<1>3. BookingKnown /\ CompletionKnown /\ RowsKnown
  BY DEF Init, BookingKnown, CompletionKnown, RowsKnown, Creating, Completing, Planning, Applying
<1> QED
  BY <1>1, <1>2, <1>3 DEF StockInv

\* What a call knows of its plan, it knows in every state.
LEMMA StockInvariance == Spec => [](PlanCovers /\ StockInv)
<1>1. IInv /\ AggInv /\ PlanCovers /\ StockInv /\ [Next]_vars => (PlanCovers /\ StockInv)'
  <2> SUFFICES ASSUME IInv, AggInv, PlanCovers, StockInv, [Next]_vars
               PROVE  PlanCovers' /\ StockInv'
    OBVIOUS
  <2> QED
    BY PlanStaysCovering, PlanKnownStep, BookingKnownStep, CompletionKnownStep, RowsKnownStep
       DEF StockInv
<1> QED
  BY StockInit, <1>1, Invariance, AggInvariance, PTL DEF Spec

-----------------------------------------------------------------------------
(* The batch, and what Ledger promises of it.                              *)

\* Ledger speaks of events, rows and sums in the same terms.
LEMMA SameTerms ==
    /\ Promise!Keys = Keys
    /\ Promise!EmptyRow = EmptyRow
    /\ Promise!InventoryTypes = InventoryTypes
    /\ \A e : Promise!WellFormed(e) = WellFormed(e)
    /\ \A i : Promise!ItemWellFormed(i) = ItemWellFormed(i)
    /\ \A k, a, r : Promise!Delta(k, a, r) = Delta(k, a, r)
    /\ \A e, table : Promise!ChangesOf(e, table) = ChangesOf(e, table)
    /\ \A p : Promise!KeysOf(p) = KeysOf(p)
    /\ \A e, p : Promise!Requested(e, p) = Requested(e, p)
<1>1. Promise!Keys = Keys /\ Promise!EmptyRow = EmptyRow /\ Promise!InventoryTypes = InventoryTypes
  BY DEF Promise!Keys, Keys, Promise!EmptyRow, EmptyRow, Promise!InventoryTypes, InventoryTypes
<1>2. ASSUME NEW e PROVE Promise!WellFormed(e) = WellFormed(e)
  BY DEF Promise!WellFormed, WellFormed, Promise!IsCount, IsCount, Promise!CountedQuantity,
         CountedQuantity, Promise!IsQuantity, IsQuantity
<1>3. ASSUME NEW i PROVE Promise!ItemWellFormed(i) = ItemWellFormed(i)
  BY DEF Promise!ItemWellFormed, ItemWellFormed, Promise!IsQuantity, IsQuantity
<1>4. ASSUME NEW k, NEW a, NEW r PROVE Promise!Delta(k, a, r) = Delta(k, a, r)
  BY DEF Promise!Delta, Delta
<1>5. ASSUME NEW e, NEW table PROVE Promise!ChangesOf(e, table) = ChangesOf(e, table)
  BY DEF Promise!ChangesOf, ChangesOf, Promise!WithSupplier, WithSupplier, Promise!Delta, Delta,
         Promise!Recount, Recount, Promise!CountedQuantity, CountedQuantity
<1>6. ASSUME NEW p PROVE Promise!KeysOf(p) = KeysOf(p)
  BY DEF Promise!KeysOf, KeysOf
<1>7. ASSUME NEW e, NEW p PROVE Promise!Requested(e, p) = Requested(e, p)
  BY DEF Promise!Requested, Requested, Promise!SumOver, SumOver, Promise!SumFunction, SumFunction,
         Promise!SumFunctionOnSet, SumFunctionOnSet, Promise!FoldFunctionOnSet,
         FoldFunctionOnSet, Promise!MapThenFoldSet, MapThenFoldSet
<1> QED
  BY <1>1, <1>2, <1>3, <1>4, <1>5, <1>6, <1>7

\* The batch of a plan writes the rows the call sees.
LEMMA BatchWrites ==
    ASSUME IInv, AggInv, StockInv, Write, status = "PROCESSED"
    PROVE  /\ ev \in Events /\ HasIdentity(ev) /\ ev.id \in RawIds
           /\ processed[Trim[ev.id]] = "NONE"
           /\ processed' = [processed EXCEPT ![ev.id] = "PROCESSED"]
           /\ ev.type \in InventoryTypes \union OrderTypes
           /\ ev.type \in OrderTypes => ev.order \in Orders
           /\ inventory' = Current
           /\ inventory' \in [Keys -> RowType]
           /\ WriteOrder /\ Applying /\ Done = Len(changes)
           /\ changes \in Seq(Change) /\ booked \in [Keys -> Nat]
<1>1. pc = "write" /\ WriteInventory /\ WriteOrder /\ RecordEvent
  BY WriteFrame
<1>2. ev \in Events /\ HasIdentity(ev) /\ ~IsProcessed(ev.id) /\ ev.id \in RawIds
  BY <1>1, EventFields DEF IInv, EventInHand
<1>3. Applying
  BY <1>1 DEF Applying
<1>4. inventory' = Current
  BY <1>1 DEF WriteInventory, Current
<1>5. inventory' \in [Keys -> RowType]
  BY <1>4, CurrentTyped
<1> QED
  BY <1>1, <1>2, <1>3, <1>4, <1>5
     DEF IInv, OrderInHand, RecordEvent, IsProcessed, Done, TypeOK

\* What is written for a new order is what its items ask for.
LEMMA CreationWritten ==
    ASSUME IInv, AggInv, StockInv, Write, status = "PROCESSED", ev.type = "ORDER_CREATED"
    PROVE  /\ orders[ev.order] = "NONE" /\ ev.order \in Orders
           /\ orders' = [orders EXCEPT ![ev.order] = "CREATED"]
           /\ items' = [items EXCEPT ![ev.order] = booked]
           /\ \A n \in 1 .. Len(ev.items) : ItemWellFormed(ev.items[n])
           /\ \A k \in Keys :
                 /\ inventory'[k].available = inventory[k].available - booked[k]
                 /\ inventory'[k].reserved = inventory[k].reserved + booked[k]
                 /\ inventory'[k].supplier = inventory[k].supplier
           /\ \A p \in Products : SumBooked(booked, p) = Requested(ev, p)
<1>1. /\ ev \in Events /\ ev.order \in Orders /\ inventory' = Current /\ WriteOrder
      /\ Applying /\ Done = Len(changes) /\ booked \in [Keys -> Nat]
  BY BatchWrites DEF OrderTypes
<1>2. orders[ev.order] = "NONE" /\ items[ev.order] = NoItems
  BY <1>1 DEF IInv, OrderInHand, StockInv, PlanKnown
<1>3. /\ orders' = [orders EXCEPT ![ev.order] = "CREATED"]
      /\ items' = [items EXCEPT ![ev.order] =
                     [k \in Keys |-> IF booked[k] > 0 THEN booked[k] ELSE @[k]]]
  BY <1>1, OrderWritten
<1>4. [k \in Keys |-> IF booked[k] > 0 THEN booked[k] ELSE items[ev.order][k]] = booked
  BY <1>1, <1>2 DEF NoItems
<1>5. items' = [items EXCEPT ![ev.order] = booked]
  BY <1>3, <1>4
<1>6. Creating /\ pc = "write"
  BY <1>1, WriteFrame DEF Creating
<1>7. Upto = Len(ev.items)
  BY <1>6 DEF Upto
<1>8. /\ \A n \in 1 .. Len(ev.items) : ItemWellFormed(ev.items[n])
      /\ \A k \in Keys : Moved(changes, k, Len(changes)) = booked[k]
      /\ \A p \in Products : SumBooked(booked, p) + StillAsked(p)
                               = RequestedUpto(ev, p, Len(ev.items))
  BY <1>6, <1>7 DEF StockInv, BookingKnown
<1>9. \A p \in Products : SumBooked(booked, p) = Requested(ev, p)
  <2> SUFFICES ASSUME NEW p \in Products PROVE SumBooked(booked, p) = Requested(ev, p)
    OBVIOUS
  <2>1. StillAsked(p) = 0 /\ SumBooked(booked, p) \in Nat
    BY <1>1, <1>6, BookedTyped DEF StillAsked
  <2>2. Requested(ev, p) = RequestedUpto(ev, p, Len(ev.items))
    BY <1>1, <1>8, RequestedAll
  <2> QED
    BY <1>8, <2>1, <2>2
<1>10. \A k \in Keys :
          /\ inventory'[k].available = inventory[k].available - booked[k]
          /\ inventory'[k].reserved = inventory[k].reserved + booked[k]
          /\ inventory'[k].supplier = inventory[k].supplier
  <2>1. \A k \in Keys : Moved(changes, k, Done) = booked[k]
    BY <1>1, <1>8
  <2> HIDE DEF Current, Done
  <2> QED
    BY <1>1, <2>1 DEF StockInv, RowsKnown, OrderTypes
<1> QED
  BY <1>1, <1>2, <1>3, <1>5, <1>8, <1>9, <1>10

\* What is written for a completed order consumes what the order booked.
LEMMA CompletionWritten ==
    ASSUME IInv, AggInv, StockInv, Write, status = "PROCESSED", ev.type = "ORDER_COMPLETED"
    PROVE  /\ orders[ev.order] = "CREATED" /\ ev.order \in Orders
           /\ orders' = [orders EXCEPT ![ev.order] = "COMPLETED"]
           /\ items' = items
           /\ \A k \in Keys :
                 /\ inventory'[k].available = inventory[k].available
                 /\ inventory'[k].reserved = inventory[k].reserved - items[ev.order][k]
                 /\ inventory'[k].supplier = inventory[k].supplier
<1>1. /\ ev \in Events /\ ev.order \in Orders /\ inventory' = Current /\ WriteOrder
      /\ Applying /\ Done = Len(changes)
  BY BatchWrites DEF OrderTypes
<1>2. orders[ev.order] = "CREATED"
  BY <1>1 DEF IInv, OrderInHand
<1>3. orders' = [orders EXCEPT ![ev.order] = "COMPLETED"] /\ items' = items
  BY <1>1, OrderWritten
<1>4. Completing /\ pc = "write"
  BY <1>1, WriteFrame DEF Completing
<1>5. \A k \in Keys : Moved(changes, k, Done) = -items[ev.order][k]
  BY <1>1, <1>4 DEF StockInv, CompletionKnown, Collected
<1>6. ASSUME NEW k \in Keys
      PROVE  /\ inventory'[k].available = inventory[k].available
             /\ inventory'[k].reserved = inventory[k].reserved - items[ev.order][k]
             /\ inventory'[k].supplier = inventory[k].supplier
  <2>1. /\ Current[k].available = inventory[k].available - 0
        /\ Current[k].reserved = inventory[k].reserved + Moved(changes, k, Done)
        /\ Current[k].supplier = inventory[k].supplier
    <3> HIDE DEF Current, Done
    <3> QED
      BY <1>1 DEF StockInv, RowsKnown, OrderTypes
  <2>2. /\ inventory[k].available \in Int /\ inventory[k].reserved \in Int
        /\ items[ev.order][k] \in Int
    BY <1>1 DEF IInv, TypeOK, RowType
  <2>3. Moved(changes, k, Done) = -items[ev.order][k]
    BY <1>5
  <2> HIDE DEF Current, Done
  <2> QED
    BY <1>1, <2>1, <2>2, <2>3
<1> QED
  BY <1>1, <1>2, <1>3, <1>6

\* What is written for an inventory event is what its changes say.
LEMMA StockWritten ==
    ASSUME IInv, AggInv, StockInv, Write, status = "PROCESSED", ev.type \in InventoryTypes
    PROVE  /\ WellFormed(ev) /\ orders' = orders /\ items' = items
           /\ LET list == ChangesOf(ev, inventory) IN
              \A k \in Keys :
                 /\ \A n \in 1 .. Len(list) : list[n].key = k =>
                       inventory'[k] = Promise!After(inventory[k], list[n])
                 /\ (\A n \in 1 .. Len(list) : list[n].key # k) =>
                       inventory'[k] = inventory[k]
<1>1. /\ inventory' = Current /\ WriteOrder /\ Applying /\ Done = Len(changes)
  BY BatchWrites
<1>2. WellFormed(ev) /\ changes = ChangesOf(ev, inventory)
  BY <1>1 DEF StockInv, PlanKnown, Stocking
<1>3. orders' = orders /\ items' = items
  BY <1>1, OrderWritten
<1>4. \A k \in Keys :
         /\ \A n \in 1 .. Len(changes) : changes[n].key = k =>
               Current[k] = Promise!After(inventory[k], changes[n])
         /\ (\A n \in 1 .. Len(changes) : changes[n].key # k) => Current[k] = inventory[k]
  <2> HIDE DEF Current, Done
  <2> QED
    BY <1>1 DEF StockInv, RowsKnown
<1> HIDE DEF Current
<1> QED
  BY <1>1, <1>2, <1>3, <1>4

\* A row after a change of its numbers.
LEMMA AfterDelta ==
    ASSUME NEW r \in RowType, NEW s \in RowType, NEW k, NEW a, NEW b,
           s.available = r.available + a, s.reserved = r.reserved + b, s.supplier = r.supplier
    PROVE  s = Promise!After(r, Delta(k, a, b))
<1>1. s = [available |-> s.available, reserved |-> s.reserved, supplier |-> s.supplier]
  BY DEF RowType
<1> QED
  BY <1>1 DEF Promise!After, Delta

\* Stock that is not negative is what Ledger calls Stocked.
LEMMA StockedAfter ==
    ASSUME IInv, [Next]_vars
    PROVE  Promise!Stocked(inventory')
BY StockPreserved, SameTerms DEF StockNonNegative, Promise!Stocked

\* The batch of an inventory event is its ChangeStock.
LEMMA StockPromised ==
    ASSUME IInv, AggInv, StockInv, Write, status = "PROCESSED", ev.type \in InventoryTypes
    PROVE  Promise!ChangeStock(ev)
<1> DEFINE list == ChangesOf(ev, inventory)
           ChangesAt(k) == {list[n] : n \in {m \in 1 .. Len(list) : list[m].key = k}}
<1>1. /\ processed[Trim[ev.id]] = "NONE"
      /\ processed' = [processed EXCEPT ![ev.id] = "PROCESSED"]
      /\ inventory' \in [Keys -> RowType]
  BY BatchWrites
<1>2. /\ WellFormed(ev) /\ orders' = orders /\ items' = items
      /\ \A k \in Keys :
            /\ \A n \in 1 .. Len(list) : list[n].key = k =>
                  inventory'[k] = Promise!After(inventory[k], list[n])
            /\ (\A n \in 1 .. Len(list) : list[n].key # k) => inventory'[k] = inventory[k]
  BY StockWritten
<1>3. Promise!Stocked(inventory')
  BY StockedAfter DEF Next, Step
<1> HIDE DEF list
<1>4. ASSUME NEW k \in Keys
      PROVE  inventory'[k] = IF ChangesAt(k) = {} THEN inventory[k]
                             ELSE Promise!After(inventory[k], CHOOSE c \in ChangesAt(k) : TRUE)
  <2>1. CASE ChangesAt(k) = {}
    <3>1. \A n \in 1 .. Len(list) : list[n].key # k
      BY <2>1
    <3> QED
      BY <1>2, <2>1, <3>1
  <2>2. CASE ChangesAt(k) # {}
    <3> DEFINE c == CHOOSE c \in ChangesAt(k) : TRUE
    <3>1. c \in ChangesAt(k)
      BY <2>2
    <3>2. PICK n \in 1 .. Len(list) : list[n].key = k /\ c = list[n]
      <4> HIDE DEF c
      <4> QED
        BY <3>1
    <3>3. inventory'[k] = Promise!After(inventory[k], list[n])
      BY <1>2, <3>2
    <3>4. inventory'[k] = Promise!After(inventory[k], c)
      <4> HIDE DEF c
      <4> QED
        BY <3>2, <3>3
    <3> QED
      BY <2>2, <3>4
  <2> QED
    BY <2>1, <2>2
<1>5. inventory' = [k \in Keys |-> IF ChangesAt(k) = {} THEN inventory[k]
                       ELSE Promise!After(inventory[k], CHOOSE c \in ChangesAt(k) : TRUE)]
  <2> DEFINE New(k) == IF ChangesAt(k) = {} THEN inventory[k]
                       ELSE Promise!After(inventory[k], CHOOSE c \in ChangesAt(k) : TRUE)
  <2>1. \A k \in Keys : inventory'[k] = New(k)
    BY <1>4
  <2>2. inventory' = [k \in Keys |-> inventory'[k]]
    BY <1>1
  <2>3. inventory' = [k \in Keys |-> New(k)]
    <3> HIDE DEF New
    <3> QED
      BY <2>1, <2>2
  <2> QED
    BY <2>3
<1>6. Promise!ChangesOf(ev, inventory) = list /\ Promise!Keys = Keys
      /\ Promise!WellFormed(ev) = WellFormed(ev) /\ Promise!InventoryTypes = InventoryTypes
  BY SameTerms DEF list
<1>7. inventory' = [k \in Promise!Keys |-> IF ChangesAt(k) = {} THEN inventory[k]
                       ELSE Promise!After(inventory[k], CHOOSE c \in ChangesAt(k) : TRUE)]
  BY <1>5, <1>6
<1> QED
  BY <1>1, <1>2, <1>3, <1>6, <1>7 DEF Promise!ChangeStock, Promise!Outcome

\* No row has more booked than the order asks for in all.
LEMMA BookedIsBooking ==
    ASSUME NEW e \in Events, \A n \in 1 .. Len(e.items) : ItemWellFormed(e.items[n]),
           NEW b \in [Keys -> Nat], \A p \in Products : SumBooked(b, p) = Requested(e, p)
    PROVE  b \in Promise!Bookings(e)
<1> DEFINE all == SumOver(1 .. Len(e.items), LAMBDA n : e.items[n].quantity)
<1>1. ASSUME NEW k \in Keys PROVE b[k] \in 0 .. all
  <2> DEFINE p == k[1]
             S == KeysOf(p)
             f == [j \in S |-> b[j]]
  <2>1. p \in Products
    BY DEF Keys
  <2>2. IsFiniteSet(S) /\ k \in S /\ S \subseteq Keys
    BY <2>1, KeysOfProduct
  <2>3. f \in [S -> Nat] /\ f[k] = b[k] /\ SumBooked(b, p) = SumFunction(f)
    BY <2>2 DEF SumBooked
  <2>4. f[k] <= SumFunction(f)
    <3> HIDE DEF S, f
    <3> QED
      BY <2>2, <2>3, SumTerm
  <2>5. /\ Requested(e, p) <= all /\ all \in Nat
    BY <2>1, RequestedAll
  <2>6. SumBooked(b, p) \in Nat /\ SumBooked(b, p) = Requested(e, p)
    BY <2>1, BookedTyped
  <2> HIDE DEF p, S, f, all
  <2> QED
    BY <2>3, <2>4, <2>5, <2>6
<1>2. b \in [Keys -> 0 .. all]
  BY <1>1
<1>3. Promise!SumOver(1 .. Len(e.items), LAMBDA n : e.items[n].quantity) = all
  BY DEF Promise!SumOver, SumOver, Promise!SumFunction, SumFunction,
         Promise!SumFunctionOnSet, SumFunctionOnSet, Promise!FoldFunctionOnSet,
         FoldFunctionOnSet, Promise!MapThenFoldSet, MapThenFoldSet
<1>4. ASSUME NEW p \in Products
      PROVE  Promise!SumOver(Promise!KeysOf(p), LAMBDA k : b[k]) = Promise!Requested(e, p)
  <2>1. Promise!SumOver(Promise!KeysOf(p), LAMBDA k : b[k]) = SumBooked(b, p)
    BY DEF Promise!SumOver, SumBooked, Promise!SumFunction, SumFunction, Promise!KeysOf, KeysOf,
           Promise!SumFunctionOnSet, SumFunctionOnSet, Promise!FoldFunctionOnSet,
           FoldFunctionOnSet, Promise!MapThenFoldSet, MapThenFoldSet
  <2> QED
    BY <2>1, SameTerms
<1> HIDE DEF all
<1>5. b \in [Promise!Keys -> 0 .. all]
  BY <1>2, SameTerms
<1> QED
  BY <1>3, <1>4, <1>5 DEF Promise!Bookings

\* The batch of a new order is its CreateOrder.
LEMMA CreationPromised ==
    ASSUME IInv, AggInv, StockInv, Write, status = "PROCESSED", ev.type = "ORDER_CREATED"
    PROVE  Promise!CreateOrder(ev)
<1>1. /\ processed[Trim[ev.id]] = "NONE" /\ ev \in Events
      /\ processed' = [processed EXCEPT ![ev.id] = "PROCESSED"]
      /\ inventory' \in [Keys -> RowType] /\ booked \in [Keys -> Nat]
  BY BatchWrites
<1>2. /\ orders[ev.order] = "NONE" /\ ev.order \in Orders
      /\ orders' = [orders EXCEPT ![ev.order] = "CREATED"]
      /\ items' = [items EXCEPT ![ev.order] = booked]
      /\ \A n \in 1 .. Len(ev.items) : ItemWellFormed(ev.items[n])
      /\ \A p \in Products : SumBooked(booked, p) = Requested(ev, p)
  BY CreationWritten
<1>3. ev.order # None
  BY <1>2, EventsAssumption
<1>4. Promise!Stocked(inventory')
  BY StockedAfter DEF Next, Step
<1>5. inventory' = [k \in Keys |-> Promise!After(inventory[k], Delta(k, -booked[k], booked[k]))]
  <2>1. ASSUME NEW k \in Keys
        PROVE  inventory'[k] = Promise!After(inventory[k], Delta(k, -booked[k], booked[k]))
    <3>1. /\ inventory'[k].available = inventory[k].available - booked[k]
          /\ inventory'[k].reserved = inventory[k].reserved + booked[k]
          /\ inventory'[k].supplier = inventory[k].supplier
      BY CreationWritten
    <3>2. inventory[k] \in RowType /\ inventory'[k] \in RowType /\ booked[k] \in Nat
      BY <1>1 DEF IInv, TypeOK
    <3>3. inventory'[k].available = inventory[k].available + (-booked[k])
      BY <3>1, <3>2 DEF RowType
    <3> QED
      BY <3>1, <3>2, <3>3, AfterDelta
  <2> QED
    BY <1>1, <2>1
<1>6. booked \in Promise!Bookings(ev)
  BY <1>1, <1>2, BookedIsBooking
<1>7. inventory' = [k \in Promise!Keys |->
                      Promise!After(inventory[k], Promise!Delta(k, -booked[k], booked[k]))]
  BY <1>5, SameTerms
<1>8. \A n \in 1 .. Len(ev.items) : Promise!ItemWellFormed(ev.items[n])
  BY <1>2, SameTerms
<1> QED
  BY <1>1, <1>2, <1>3, <1>4, <1>6, <1>7, <1>8 DEF Promise!CreateOrder, Promise!Outcome

\* The batch of a completion is its CompleteOrder.
LEMMA CompletionPromised ==
    ASSUME IInv, AggInv, StockInv, Write, status = "PROCESSED", ev.type = "ORDER_COMPLETED"
    PROVE  Promise!CompleteOrder(ev)
<1>1. /\ processed[Trim[ev.id]] = "NONE" /\ ev \in Events
      /\ processed' = [processed EXCEPT ![ev.id] = "PROCESSED"]
      /\ inventory' \in [Keys -> RowType]
  BY BatchWrites
<1>2. /\ orders[ev.order] = "CREATED" /\ ev.order \in Orders /\ items' = items
      /\ orders' = [orders EXCEPT ![ev.order] = "COMPLETED"]
  BY CompletionWritten
<1>3. ev.order # None
  BY <1>2, EventsAssumption
<1>4. Promise!Stocked(inventory')
  BY StockedAfter DEF Next, Step
<1>5. inventory' = [k \in Keys |-> Promise!After(inventory[k], Delta(k, 0, -items[ev.order][k]))]
  <2>1. ASSUME NEW k \in Keys
        PROVE  inventory'[k] = Promise!After(inventory[k], Delta(k, 0, -items[ev.order][k]))
    <3>1. /\ inventory'[k].available = inventory[k].available
          /\ inventory'[k].reserved = inventory[k].reserved - items[ev.order][k]
          /\ inventory'[k].supplier = inventory[k].supplier
      BY CompletionWritten
    <3>2. inventory[k] \in RowType /\ inventory'[k] \in RowType /\ items[ev.order][k] \in Nat
      BY <1>1, <1>2 DEF IInv, TypeOK
    <3>3. /\ inventory'[k].available = inventory[k].available + 0
          /\ inventory'[k].reserved = inventory[k].reserved + (-items[ev.order][k])
      BY <3>1, <3>2 DEF RowType
    <3> QED
      BY <3>1, <3>2, <3>3, AfterDelta
  <2> QED
    BY <1>1, <2>1
<1>6. inventory' = [k \in Promise!Keys |->
                      Promise!After(inventory[k], Promise!Delta(k, 0, -items[ev.order][k]))]
  BY <1>5, SameTerms
<1> QED
  BY <1>1, <1>2, <1>3, <1>4, <1>6 DEF Promise!CompleteOrder, Promise!Outcome

\* Every step is one of Ledger, or changes nothing it speaks of.
LEMMA StepPromised ==
    ASSUME IInv, AggInv, StockInv, [Next]_vars
    PROVE  [Promise!Next]_(Promise!vars)
<1>1. CASE ~Write
  BY <1>1, OnlyWriteWrites DEF tables, Promise!vars
<1>2. CASE Write /\ status # "PROCESSED"
  <2>1. /\ ev \in Events /\ ~IsProcessed(ev.id) /\ status \in Recorded
        /\ processed' = [processed EXCEPT ![ev.id] = status]
        /\ UNCHANGED <<inventory, orders, items>>
    BY <1>2, WriteFrame DEF IInv, TypeOK, EventInHand, RecordEvent
  <2>2. status \in {"STALE", "ORDER_ALREADY_COMPLETED"} /\ processed[Trim[ev.id]] = "NONE"
    BY <1>2, <2>1 DEF Recorded, IsProcessed
  <2>3. Promise!Note(ev)
    BY <2>1, <2>2 DEF Promise!Note, Promise!Outcome
  <2> QED
    BY <2>1, <2>3 DEF Promise!Next
<1>3. CASE Write /\ status = "PROCESSED"
  <2>1. ev \in Events /\ ev.type \in InventoryTypes \union OrderTypes
    BY <1>3, BatchWrites
  <2>2. Promise!ChangeStock(ev) \/ Promise!CreateOrder(ev) \/ Promise!CompleteOrder(ev)
    BY <1>3, <2>1, StockPromised, CreationPromised, CompletionPromised DEF OrderTypes
  <2> QED
    BY <2>1, <2>2 DEF Promise!Next
<1> QED
  BY <1>1, <1>2, <1>3

\* WarehouseStateProcessor implements Ledger: without its reads, loops, aggregates and
\* failures, every event takes effect in one step, at most once, or is only noted; an
\* order books exactly what its items ask for, and its completion consumes that.
THEOREM ProcessorImplementsLedger == Spec => ImplementsLedger
<1>1. Init => Promise!Init
  BY SameTerms DEF Init, Promise!Init, NoItems
<1>2. IInv /\ AggInv /\ StockInv /\ [Next]_vars => [Promise!Next]_(Promise!vars)
  BY StepPromised
<1> QED
  BY <1>1, <1>2, Invariance, AggInvariance, StockInvariance, PTL
     DEF Spec, ImplementsLedger, Promise!Spec

-----------------------------------------------------------------------------
(* Orders: what they booked, and whether their plans can be applied.       *)

\* Precedence, the invariant behind NewestEventWins.
LEMMA PrecedenceInvariance ==
    ASSUME DistinctIds
    PROVE  Spec => []Precedence
<1>1. Init => Precedence
  <2>1. Init => Applied = {}
    BY EventFields DEF Init, Applied
  <2> QED
    BY <2>1, StockInit DEF Precedence, AppliedSeen
<1>2. IInv /\ Precedence /\ [Next]_vars => Precedence'
  BY PlanStaysCovering, SeenKept DEF Precedence
<1> QED
  BY <1>1, <1>2, Invariance, PTL DEF Spec

\* If no two events share an event_id, an order that was created has booked exactly
\* what its items ask for, over explicit zones and allocated ones, ever after.
THEOREM OrdersBookInFull ==
    ASSUME DistinctIds
    PROVE  Spec => []OrdersFullyBooked
<1> DEFINE Booked == \A e \in Applied : e.type = "ORDER_CREATED" =>
                        \A p \in Products : SumBooked(items[e.order], p) = Requested(e, p)
<1>1. Init => Booked
  BY EventFields DEF Init, Applied
<1>2. IInv /\ AggInv /\ StockInv /\ Precedence /\ Booked /\ [Next]_vars => Booked'
  <2> SUFFICES ASSUME IInv, AggInv, StockInv, Precedence, Booked, [Next]_vars,
                      NEW f \in Applied', f.type = "ORDER_CREATED", NEW p \in Products
               PROVE  SumBooked(items'[f.order], p) = Requested(f, p)
    BY DEF SumBooked
  <2>1. CASE f \in Applied
    <3>1. f.order \in Orders /\ orders[f.order] # "NONE"
      BY <2>1 DEF Precedence, AppliedSeen, OrderTypes
    <3>2. items'[f.order] = items[f.order]
      BY <3>1, OrderStep
    <3> QED
      BY <2>1, <3>2
  <2>2. CASE Write /\ status = "PROCESSED" /\ f = ev
    <3>1. /\ ev.order \in Orders /\ items' = [items EXCEPT ![ev.order] = booked]
          /\ SumBooked(booked, p) = Requested(ev, p)
      BY <2>2, CreationWritten
    <3>2. items'[f.order] = booked
      BY <2>2, <3>1 DEF IInv, TypeOK
    <3> QED
      BY <2>2, <3>1, <3>2
  <2> QED
    BY <2>1, <2>2, AppliedGrows
<1>3. Booked => OrdersFullyBooked
  BY DEF OrdersFullyBooked, SumOver, SumBooked
<1> HIDE DEF Booked
<1> QED
  BY <1>1, <1>2, <1>3, Invariance, AggInvariance, StockInvariance, PrecedenceInvariance, PTL
     DEF Spec

\* What the next change of an order's plan leads to.
LEMMA NextNeeds ==
    ASSUME IInv, StockInv, pc = "apply", next <= Len(changes), ev.type \in OrderTypes
    PROVE  \E k \in Keys :
              /\ NewAvailable(changes[next]) = inventory[k].available
                   - (IF ev.type = "ORDER_CREATED" THEN Moved(changes, k, next) ELSE 0)
              /\ NewReserved(changes[next]) = inventory[k].reserved + Moved(changes, k, next)
<1>1. /\ next \in 1 .. Len(changes) /\ changes \in Seq(Change)
      /\ Applying /\ Done = next - 1 /\ Len(changes) \in Nat
  BY DEF Applying, Done, IInv, TypeOK
<1>2. PICK c \in Change : c = changes[next]
  BY <1>1
<1>3. /\ c.count = None /\ c.reserved \in Int /\ c.key \in Keys
      /\ c.available = IF ev.type = "ORDER_CREATED" THEN -c.reserved ELSE 0
  <2>1. CASE ev.type = "ORDER_CREATED"
    <3>1. Books(c)
      BY <1>1, <1>2, <2>1 DEF StockInv, BookingKnown, Creating
    <3> QED
      BY <2>1, <3>1 DEF Books, Change
  <2>2. CASE ev.type = "ORDER_COMPLETED"
    <3>1. Consumes(c)
      BY <1>1, <1>2, <2>2 DEF StockInv, CompletionKnown, Completing
    <3> QED
      BY <2>2, <3>1 DEF Consumes, Change
  <2> QED
    BY <2>1, <2>2 DEF OrderTypes
<1> DEFINE k == c.key
           m == next - 1
<1>4. CurrentRow(k) = Current[k] /\ k \in Keys
  BY <1>3 DEF Current
<1>5. /\ Current[k].available = inventory[k].available
           - (IF ev.type = "ORDER_CREATED" THEN Moved(changes, k, m) ELSE 0)
      /\ Current[k].reserved = inventory[k].reserved + Moved(changes, k, m)
  <2> HIDE DEF Current, k
  <2> QED
    BY <1>1, <1>4 DEF StockInv, RowsKnown
<1>6. m \in 0 .. Len(changes) - 1 /\ m \in 0 .. Len(changes) /\ m + 1 = next
  BY <1>1
<1>7. /\ Moved(changes, k, m + 1)
           = Moved(changes, k, m)
               + (IF changes[m + 1].key = k THEN changes[m + 1].reserved ELSE 0)
      /\ Moved(changes, k, m) \in Int
  <2> HIDE DEF m, k
  <2> QED
    BY <1>1, <1>6, MovedNext
<1>8. Moved(changes, k, next) = Moved(changes, k, m) + c.reserved
  BY <1>2, <1>6, <1>7
<1>9. inventory[k].available \in Int /\ inventory[k].reserved \in Int
  BY <1>3 DEF IInv, TypeOK, RowType
<1>10. /\ NewAvailable(c) = Current[k].available + c.available
       /\ NewReserved(c) = Current[k].reserved + c.reserved
  BY <1>3, <1>4 DEF NewAvailable, NewReserved
<1> HIDE DEF Current, k, m
<1>11. /\ NewAvailable(c) = inventory[k].available
            - (IF ev.type = "ORDER_CREATED" THEN Moved(changes, k, next) ELSE 0)
       /\ NewReserved(c) = inventory[k].reserved + Moved(changes, k, next)
  BY <1>3, <1>5, <1>7, <1>8, <1>9, <1>10
<1> QED
  BY <1>2, <1>4, <1>11

\* What _allocate_product found, the apply loop can take: a plan made without
\* explicit zones is never refused for a row.
THEOREM AllocationSuffices == Spec => []AllocationHolds
<1>1. IInv /\ StockInv => AllocationHolds
  <2> SUFFICES ASSUME IInv, StockInv, pc = "apply", ev.type = "ORDER_CREATED",
                      next <= Len(changes), \A n \in 1 .. Len(ev.items) : ev.items[n].zone = None
               PROVE  Suffices(changes[next])
    BY DEF AllocationHolds
  <2>1. PICK k \in Keys :
           /\ NewAvailable(changes[next]) = inventory[k].available - Moved(changes, k, next)
           /\ NewReserved(changes[next]) = inventory[k].reserved + Moved(changes, k, next)
    BY NextNeeds DEF OrderTypes
  <2>2. Creating
    BY DEF Creating, Planning
  <2>3. /\ \A n \in 1 .. Len(changes) : Books(changes[n])
        /\ Moved(changes, k, Len(changes)) = booked[k]
        /\ booked[k] <= inventory[k].available
    BY <2>2 DEF StockInv, BookingKnown
  <2>4. /\ changes \in Seq(Change) /\ Len(changes) \in Nat
        /\ next \in 0 .. Len(changes) /\ Len(changes) \in 0 .. Len(changes)
    BY DEF IInv, TypeOK
  <2>5. \A n \in 1 .. Len(changes) : changes[n].reserved >= 0
    BY <2>3 DEF Books
  <2>6. 0 <= Moved(changes, k, next) /\ Moved(changes, k, next) <= Moved(changes, k, Len(changes))
    BY <2>4, <2>5, MovedMonotone
  <2>7. Moved(changes, k, next) \in Int
    BY <2>4, MovedNext
  <2>8. /\ inventory[k].available \in Int /\ inventory[k].reserved \in Int
        /\ inventory[k].reserved >= 0 /\ booked[k] \in Int
    BY DEF IInv, TypeOK, RowType, StockNonNegative
  <2> QED
    BY <2>1, <2>3, <2>6, <2>7, <2>8 DEF Suffices
<1> QED
  BY <1>1, Invariance, StockInvariance, PTL

-----------------------------------------------------------------------------
(* What open orders hold in reserve.                                       *)

Held(k) == SumFunction([o \in OpenOrders |-> items[o][k]])

\* What the open orders hold is a number.
LEMMA HeldTyped ==
    ASSUME IInv, IsFiniteSet(OpenOrders), NEW k \in Keys
    PROVE  /\ Held(k) \in Nat
           /\ \A o \in OpenOrders : items[o][k] <= Held(k)
<1> DEFINE S == OpenOrders
           f == [o \in S |-> items[o][k]]
<1>1. f \in [S -> Nat]
  BY DEF OpenOrders, IInv, TypeOK
<1>2. Held(k) = SumFunction(f) /\ \A o \in S : f[o] = items[o][k]
  BY DEF Held
<1> HIDE DEF S, f
<1>3. SumFunction(f) \in Nat
  BY <1>1, SumNat DEF S
<1>4. \A o \in S : f[o] <= SumFunction(f)
  BY <1>1, SumTerm DEF S
<1> QED
  BY <1>2, <1>3, <1>4 DEF S

\* A new order holds what it booked.
LEMMA HeldByNew ==
    ASSUME IInv, AggInv, StockInv, IsFiniteSet(OpenOrders), Write, status = "PROCESSED",
           ev.type = "ORDER_CREATED", NEW k \in Keys
    PROVE  Held(k)' = Held(k) + booked[k]
<1> DEFINE x == ev.order
           S == OpenOrders
           U == OpenOrders'
           f == [o \in S |-> items[o][k]]
           g == [o \in U |-> items'[o][k]]
<1>1. /\ x \in Orders /\ orders[x] = "NONE"
      /\ orders' = [orders EXCEPT ![x] = "CREATED"]
      /\ items' = [items EXCEPT ![x] = booked]
      /\ booked \in [Keys -> Nat]
      /\ orders \in [Orders -> {"NONE", "CREATED", "COMPLETED"}]
      /\ items \in [Orders -> [Keys -> Nat]]
  BY CreationWritten DEF IInv, TypeOK
<1> HIDE DEF x
<1>2. U = S \union {x} /\ x \notin S /\ S \subseteq Orders
  BY <1>1 DEF OpenOrders
<1>3. /\ \A o \in S : f[o] \in Int /\ g[o] = f[o]
      /\ g[x] = booked[k] /\ g[x] \in Int
      /\ DOMAIN f = S /\ DOMAIN g = U
  <2> HIDE DEF S, U
  <2> QED
    BY <1>1, <1>2
<1>4. Held(k) = SumFunction(f) /\ Held(k)' = SumFunction(g)
  BY DEF Held
<1>5. IsFiniteSet(S)
  OBVIOUS
<1> HIDE DEF S, U, f, g
<1>6. IsFiniteSet(U) /\ SumFunction(g) = SumFunction(f) + g[x]
  BY <1>2, <1>3, <1>5, SumGrows
<1> QED
  BY <1>3, <1>4, <1>6 DEF U

\* A completed order holds nothing more.
LEMMA HeldByCompleted ==
    ASSUME IInv, AggInv, StockInv, IsFiniteSet(OpenOrders), Write, status = "PROCESSED",
           ev.type = "ORDER_COMPLETED", NEW k \in Keys
    PROVE  Held(k)' = Held(k) - items[ev.order][k]
<1> DEFINE x == ev.order
           S == OpenOrders
           U == OpenOrders'
           f == [o \in S |-> items[o][k]]
           g == [o \in U |-> items'[o][k]]
<1>1. /\ x \in Orders /\ orders[x] = "CREATED"
      /\ orders' = [orders EXCEPT ![x] = "COMPLETED"]
      /\ items' = items
      /\ orders \in [Orders -> {"NONE", "CREATED", "COMPLETED"}]
      /\ items \in [Orders -> [Keys -> Nat]]
  BY CompletionWritten DEF IInv, TypeOK
<1> HIDE DEF x
<1>2. U = S \ {x} /\ x \in S /\ S = U \union {x} /\ S \subseteq Orders /\ x \notin U
  BY <1>1 DEF OpenOrders
<1>3. /\ \A o \in U : g[o] \in Int /\ f[o] = g[o]
      /\ f[x] = items[x][k] /\ f[x] \in Int
      /\ DOMAIN f = S /\ DOMAIN g = U
  <2> HIDE DEF S, U
  <2> QED
    BY <1>1, <1>2
<1>4. Held(k) = SumFunction(f) /\ Held(k)' = SumFunction(g)
  BY DEF Held
<1> HIDE DEF S, U, f, g
<1>5. IsFiniteSet(U) /\ IsFiniteSet(S) /\ x \in S
  BY <1>2, FS_RemoveElement DEF S
<1>6. SumFunction(f) = SumFunction(g) + f[x] /\ SumFunction(g) \in Int
  <2>1. IntOn(g, U) /\ IntOn(f, U) /\ IntOn(f, S)
    BY <1>2, <1>3 DEF IntOn
  <2>2. SumFunctionOnSet(f, S) = f[x] + SumFunctionOnSet(f, S \ {x})
    BY <1>5, <2>1, SumRemove
  <2>3. SumFunctionOnSet(f, S \ {x}) = SumFunctionOnSet(f, U)
    BY <1>2
  <2>4. SumFunctionOnSet(f, U) = SumFunctionOnSet(g, U)
    BY <1>3, <1>5, <2>1, SumSame
  <2>5. SumFunctionOnSet(g, U) \in Int
    BY <1>5, <2>1, SumUnfold
  <2> QED
    BY <1>3, <2>2, <2>3, <2>4, <2>5 DEF SumFunction
<1>7. Held(k)' = Held(k) - items[x][k]
  BY <1>3, <1>4, <1>6
<1> QED
  BY <1>5, <1>7 DEF U, x

\* What an inventory event adds to the reserve of row k.
Reservation(e, k) ==
    IF e.product # k[1] \/ e.zone # k[2] THEN 0
    ELSE IF e.type = "PRODUCT_RESERVED" THEN e.quantity
    ELSE IF e.type = "PRODUCT_RELEASED" THEN -e.quantity ELSE 0

\* Only reservations and releases have a change that moves a reserve.
LEMMA ReservingChanges ==
    ASSUME NEW e \in Events, e.type \in InventoryTypes, WellFormed(e),
           inventory \in [Keys -> RowType]
    PROVE  LET list == ChangesOf(e, inventory)
               here == <<e.product, e.zone>> IN
           /\ e.type \notin {"PRODUCT_RESERVED", "PRODUCT_RELEASED"} =>
                 \A n \in 1 .. Len(list) : list[n].reserved = 0
           /\ e.type \in {"PRODUCT_RESERVED", "PRODUCT_RELEASED"} =>
                 /\ here \in Keys /\ e.quantity \in Nat
                 /\ Len(list) = 1 /\ list[1].key = here
                 /\ list[1].reserved = Reservation(e, here)
<1> DEFINE list == ChangesOf(e, inventory)
           here == <<e.product, e.zone>>
           source == <<e.product, e.from>>
           target == <<e.product, e.to>>
<1>1. ASSUME NEW k, NEW a, NEW s PROVE WithSupplier(Delta(k, a, 0), s).reserved = 0
  BY DEF WithSupplier, Delta
<1>2. CASE e.type = "PRODUCT_RECEIVED"
  <2> DEFINE s == IF e.version >= 2 THEN e.supplier ELSE None
             c == WithSupplier(Delta(here, e.quantity, 0), s)
  <2>1. list = <<c>>
    BY <1>2 DEF ChangesOf
  <2>2. c.reserved = 0
    BY <1>1
  <2> HIDE DEF list, c
  <2> QED
    BY <1>2, <2>1, <2>2 DEF list
<1>3. CASE e.type = "INVENTORY_COUNTED"
  <2> DEFINE c == Recount(here, CountedQuantity(e))
  <2>1. list = <<c>>
    BY <1>3 DEF ChangesOf
  <2>2. c.reserved = 0
    BY DEF Recount, Delta
  <2> HIDE DEF list, c
  <2> QED
    BY <1>3, <2>1, <2>2 DEF list
<1>4. CASE e.type = "PRODUCT_MOVED"
  <2> DEFINE s == inventory[source].supplier
             c == IF s = None THEN Delta(target, e.quantity, 0)
                              ELSE WithSupplier(Delta(target, e.quantity, 0), s)
             d == Delta(source, -e.quantity, 0)
  <2>1. list = <<d, c>>
    BY <1>4 DEF ChangesOf
  <2>2. d.reserved = 0
    BY DEF Delta
  <2>3. c.reserved = 0
    <3>1. CASE s = None
      BY <3>1 DEF Delta
    <3>2. CASE s # None
      BY <3>2, <1>1
    <3> QED
      BY <3>1, <3>2
  <2> HIDE DEF list, c, d
  <2> QED
    BY <1>4, <2>1, <2>2, <2>3 DEF list
<1>5. CASE e.type = "PRODUCT_SHIPPED"
  <2> DEFINE c == Delta(here, -e.quantity, 0)
  <2>1. list = <<c>>
    BY <1>5 DEF ChangesOf
  <2>2. c.reserved = 0
    BY DEF Delta
  <2> HIDE DEF list, c
  <2> QED
    BY <1>5, <2>1, <2>2 DEF list
<1>6. CASE e.type \in {"PRODUCT_RESERVED", "PRODUCT_RELEASED"}
  <2>1. here \in Keys /\ e.quantity \in Nat
    BY <1>6, EventFields DEF WellFormed, Keys, IsQuantity
  <2> DEFINE q == e.quantity
             c == IF e.type = "PRODUCT_RESERVED" THEN Delta(here, -q, q) ELSE Delta(here, q, -q)
  <2>2. list = <<c>>
    BY <1>6 DEF ChangesOf
  <2>3. c.key = here /\ c.reserved = Reservation(e, here)
    BY <1>6 DEF Delta, Reservation
  <2> HIDE DEF list, c, here
  <2> QED
    BY <1>6, <2>1, <2>2, <2>3 DEF list, here
<1> QED
  BY <1>2, <1>3, <1>4, <1>5, <1>6 DEF InventoryTypes

\* The batch of an inventory event moves every reserve by what the event adds to it.
LEMMA ReserveWritten ==
    ASSUME IInv, AggInv, StockInv, Write, status = "PROCESSED", ev.type \in InventoryTypes,
           NEW k \in Keys
    PROVE  /\ inventory'[k].reserved = inventory[k].reserved + Reservation(ev, k)
           /\ Reservation(ev, k) \in Int
<1> DEFINE list == ChangesOf(ev, inventory)
           here == <<ev.product, ev.zone>>
<1>1. /\ WellFormed(ev) /\ ev \in Events /\ inventory \in [Keys -> RowType]
      /\ \A n \in 1 .. Len(list) : list[n].key = k =>
            inventory'[k] = Promise!After(inventory[k], list[n])
      /\ (\A n \in 1 .. Len(list) : list[n].key # k) => inventory'[k] = inventory[k]
  BY StockWritten, BatchWrites DEF IInv, TypeOK
<1>2. \A n : Promise!After(inventory[k], list[n]).reserved
               = inventory[k].reserved + list[n].reserved
  BY DEF Promise!After
<1>3. inventory[k].reserved \in Int
  BY <1>1 DEF RowType
<1>4. here = k <=> ev.product = k[1] /\ ev.zone = k[2]
  BY DEF Keys
<1>5. CASE ev.type \in {"PRODUCT_RESERVED", "PRODUCT_RELEASED"}
  <2>1. /\ here \in Keys /\ ev.quantity \in Nat
        /\ Len(list) = 1 /\ list[1].key = here /\ list[1].reserved = Reservation(ev, here)
    BY <1>1, <1>5, ReservingChanges
  <2>2. CASE here = k
    <3>1. Reservation(ev, k) \in Int
      BY <2>1 DEF Reservation
    <3>2. inventory'[k] = Promise!After(inventory[k], list[1])
      BY <1>1, <2>1, <2>2
    <3>3. list[1].reserved = Reservation(ev, k)
      BY <2>1, <2>2
    <3> HIDE DEF list, here
    <3> QED
      BY <1>2, <3>1, <3>2, <3>3
  <2>3. CASE here # k
    <3>1. Reservation(ev, k) = 0
      BY <1>4, <2>3 DEF Reservation
    <3> HIDE DEF list, here
    <3>2. inventory'[k] = inventory[k]
      BY <1>1, <2>1, <2>3
    <3> QED
      BY <1>3, <3>1, <3>2
  <2> QED
    BY <2>2, <2>3
<1>6. CASE ev.type \notin {"PRODUCT_RESERVED", "PRODUCT_RELEASED"}
  <2>1. \A n \in 1 .. Len(list) : list[n].reserved = 0
    BY <1>1, <1>6, ReservingChanges
  <2>2. Reservation(ev, k) = 0
    BY <1>6 DEF Reservation
  <2> HIDE DEF list, here
  <2>3. inventory'[k].reserved = inventory[k].reserved
    BY <1>1, <1>2, <1>3, <2>1
  <2> QED
    BY <1>3, <2>2, <2>3
<1> QED
  BY <1>5, <1>6

\* The step is the batch of an inventory event.
WritesStock == Write /\ status = "PROCESSED" /\ ev.type \in InventoryTypes

\* One order more or less is open after a step: finitely many are.
LEMMA OpenStaysFinite ==
    ASSUME IInv, AggInv, StockInv, IsFiniteSet(OpenOrders), [Next]_vars
    PROVE  IsFiniteSet(OpenOrders')
<1>1. CASE orders' = orders
  BY <1>1 DEF OpenOrders
<1>2. CASE Write /\ status = "PROCESSED" /\ ev.type = "ORDER_CREATED"
  <2>1. OpenOrders' \subseteq OpenOrders \union {ev.order}
    BY <1>2, CreationWritten DEF OpenOrders, IInv, TypeOK
  <2> QED
    BY <2>1, FS_AddElement, FS_Subset
<1>3. CASE Write /\ status = "PROCESSED" /\ ev.type = "ORDER_COMPLETED"
  <2>1. OpenOrders' \subseteq OpenOrders
    BY <1>3, CompletionWritten DEF OpenOrders, IInv, TypeOK
  <2> QED
    BY <2>1, FS_Subset
<1>4. CASE WritesStock
  BY <1>1, <1>4, StockWritten DEF WritesStock
<1> QED
  BY <1>1, <1>2, <1>3, <1>4, BatchWrites, OnlyWriteWrites, WriteFrame
     DEF WritesStock, OrderTypes, tables

\* Reserves and what open orders hold are numbers, before a step and after it.
LEMMA ReserveTyped ==
    ASSUME IInv, AggInv, StockInv, IsFiniteSet(OpenOrders), [Next]_vars, NEW k \in Keys
    PROVE  /\ Held(k) \in Nat /\ Held(k)' \in Nat
           /\ inventory[k].reserved \in Nat /\ inventory'[k].reserved \in Nat
<1>1. IsFiniteSet(OpenOrders') /\ TypeOK' /\ StockNonNegative'
  BY OpenStaysFinite, TypePreserved, StockPreserved DEF IInv
<1>2. inventory'[k].reserved \in Nat
  BY <1>1 DEF TypeOK, RowType, StockNonNegative
<1> DEFINE S == OpenOrders'
           f == [o \in S |-> items'[o][k]]
<1>3. f \in [S -> Nat]
  BY <1>1 DEF OpenOrders, TypeOK
<1>4. Held(k)' = SumFunction(f)
  BY DEF Held
<1> HIDE DEF S, f
<1>5. SumFunction(f) \in Nat
  BY <1>1, <1>3, SumNat DEF S
<1>6. Held(k) \in Nat /\ inventory[k].reserved \in Nat
  BY HeldTyped DEF IInv, TypeOK, RowType, StockNonNegative
<1> QED
  BY <1>2, <1>4, <1>5, <1>6

\* Reserves and what open orders hold move together, but for reservations and releases.
LEMMA ReserveStep ==
    ASSUME IInv, AggInv, StockInv, IsFiniteSet(OpenOrders), [Next]_vars, NEW k \in Keys
    PROVE  inventory'[k].reserved - Held(k)'
             = inventory[k].reserved - Held(k)
                 + (IF WritesStock THEN Reservation(ev, k) ELSE 0)
<1>1. Held(k) \in Nat /\ inventory[k].reserved \in Nat
  BY HeldTyped DEF IInv, TypeOK, RowType, StockNonNegative
<1>2. ASSUME orders' = orders, items' = items
      PROVE  OpenOrders' = OpenOrders /\ Held(k)' = Held(k)
  <2>1. OpenOrders' = OpenOrders
    BY <1>2 DEF OpenOrders
  <2> QED
    BY <1>2, <2>1 DEF Held
<1>3. CASE ~(Write /\ status = "PROCESSED")
  <2>1. orders' = orders /\ items' = items /\ inventory' = inventory
    BY <1>3, OnlyWriteWrites, WriteFrame DEF tables
  <2>2. ~WritesStock
    BY <1>3 DEF WritesStock
  <2> QED
    BY <1>1, <1>2, <2>1, <2>2
<1>4. CASE Write /\ status = "PROCESSED" /\ ev.type = "ORDER_CREATED"
  <2>1. Held(k)' = Held(k) + booked[k]
    BY <1>4, HeldByNew
  <2>2. inventory'[k].reserved = inventory[k].reserved + booked[k] /\ booked[k] \in Int
    BY <1>4, CreationWritten DEF IInv, TypeOK
  <2>3. ~WritesStock
    BY <1>4 DEF WritesStock, InventoryTypes
  <2> QED
    BY <1>1, <2>1, <2>2, <2>3
<1>5. CASE Write /\ status = "PROCESSED" /\ ev.type = "ORDER_COMPLETED"
  <2>1. Held(k)' = Held(k) - items[ev.order][k]
    BY <1>5, HeldByCompleted
  <2>2. /\ inventory'[k].reserved = inventory[k].reserved - items[ev.order][k]
        /\ items[ev.order][k] \in Int
    BY <1>5, CompletionWritten DEF IInv, TypeOK
  <2>3. ~WritesStock
    BY <1>5 DEF WritesStock, InventoryTypes
  <2> QED
    BY <1>1, <2>1, <2>2, <2>3
<1>6. CASE WritesStock
  <2>1. orders' = orders /\ items' = items
    BY <1>6, StockWritten DEF WritesStock
  <2>2. inventory'[k].reserved = inventory[k].reserved + Reservation(ev, k)
        /\ Reservation(ev, k) \in Int
    BY <1>6, ReserveWritten DEF WritesStock
  <2> QED
    BY <1>1, <1>2, <1>6, <2>1, <2>2
<1> QED
  BY <1>3, <1>4, <1>5, <1>6, BatchWrites DEF WritesStock, OrderTypes

\* At the start no order is open.
LEMMA NothingHeld ==
    ASSUME Init
    PROVE  OpenOrders = {} /\ \A k \in Keys : Held(k) = 0 /\ inventory[k].reserved = 0
<1>1. OpenOrders = {}
  BY DEF Init, OpenOrders
<1>2. ASSUME NEW k \in Keys PROVE Held(k) = 0
  <2> DEFINE f == [o \in OpenOrders |-> items[o][k]]
  <2>1. f \in [{} -> Int] /\ IsFiniteSet({})
    BY <1>1, FS_EmptySet
  <2>2. Held(k) = SumFunction(f)
    BY DEF Held
  <2> HIDE DEF f
  <2> QED
    BY <2>1, <2>2, SumZero
<1> QED
  BY <1>1, <1>2 DEF Init, EmptyRow

\* If nothing releases a reservation, an open order can always complete: what it holds
\* in reserve is there, whatever other orders, reservations and counts did meanwhile.
THEOREM OpenOrdersComplete ==
    ASSUME \A e \in Events : e.type # "PRODUCT_RELEASED"
    PROVE  Spec => []OpenOrdersCompletable
<1> DEFINE Covered == /\ IsFiniteSet(OpenOrders)
                      /\ \A k \in Keys : Held(k) <= inventory[k].reserved
<1>1. Init => Covered
  BY NothingHeld, FS_EmptySet
<1>2. IInv /\ AggInv /\ StockInv /\ Covered /\ [Next]_vars => Covered'
  <2> SUFFICES ASSUME IInv, AggInv, StockInv, Covered, [Next]_vars
               PROVE  /\ IsFiniteSet(OpenOrders')
                      /\ \A k \in Keys : Held(k)' <= inventory'[k].reserved
    OBVIOUS
  <2>1. IsFiniteSet(OpenOrders')
    BY OpenStaysFinite
  <2>2. ASSUME NEW k \in Keys PROVE Held(k)' <= inventory'[k].reserved
    <3>1. /\ inventory'[k].reserved - Held(k)'
               = inventory[k].reserved - Held(k)
                   + (IF WritesStock THEN Reservation(ev, k) ELSE 0)
          /\ Held(k) <= inventory[k].reserved
          /\ Held(k) \in Nat /\ Held(k)' \in Nat
          /\ inventory[k].reserved \in Nat /\ inventory'[k].reserved \in Nat
      BY ReserveStep, ReserveTyped
    <3>2. WritesStock => Reservation(ev, k) \in Nat
      <4> SUFFICES ASSUME WritesStock PROVE Reservation(ev, k) \in Nat
        OBVIOUS
      <4>1. Reservation(ev, k) \in Int /\ ev \in Events /\ WellFormed(ev)
        BY ReserveWritten, BatchWrites, StockWritten DEF WritesStock
      <4>2. ev.type = "PRODUCT_RESERVED" => ev.quantity \in Nat
        BY <4>1, EventFields DEF WellFormed, IsQuantity
      <4> QED
        BY <4>1, <4>2 DEF Reservation
    <3> QED
      BY <3>1, <3>2
  <2> QED
    BY <2>1, <2>2
<1>3. IInv /\ StockInv /\ Covered => OpenOrdersCompletable
  <2> SUFFICES ASSUME IInv, StockInv, Covered, pc = "apply", ev.type = "ORDER_COMPLETED",
                      next <= Len(changes)
               PROVE  Suffices(changes[next])
    BY DEF OpenOrdersCompletable
  <2>1. PICK k \in Keys :
           /\ NewAvailable(changes[next]) = inventory[k].available - 0
           /\ NewReserved(changes[next]) = inventory[k].reserved + Moved(changes, k, next)
    BY NextNeeds DEF OrderTypes
  <2>2. Completing /\ ev.order \in OpenOrders
    BY DEF Completing, Planning, IInv, OrderInHand, OrderTypes, OpenOrders
  <2>3. /\ \A n \in 1 .. Len(changes) : Consumes(changes[n])
        /\ Moved(changes, k, Len(changes)) = -items[ev.order][k]
    BY <2>2 DEF StockInv, CompletionKnown, Collected
  <2>4. /\ changes \in Seq(Change) /\ Len(changes) \in Nat
        /\ next \in 0 .. Len(changes) /\ Len(changes) \in 0 .. Len(changes)
    BY DEF IInv, TypeOK
  <2>5. \A n \in 1 .. Len(changes) : changes[n].reserved <= 0
    BY <2>3 DEF Consumes
  <2>6. Moved(changes, k, Len(changes)) <= Moved(changes, k, next)
    BY <2>4, <2>5, MovedMonotone
  <2>7. Moved(changes, k, next) \in Int
    BY <2>4, MovedNext
  <2>8. /\ inventory[k].available \in Int /\ inventory[k].reserved \in Int
        /\ inventory[k].available >= 0 /\ items[ev.order][k] \in Int
    BY <2>2 DEF IInv, TypeOK, RowType, StockNonNegative, OpenOrders
  <2>9. items[ev.order][k] <= Held(k) /\ Held(k) <= inventory[k].reserved /\ Held(k) \in Int
    BY <2>2, HeldTyped
  <2>10. -items[ev.order][k] <= Moved(changes, k, next)
    BY <2>3, <2>6
  <2>11. inventory[k].reserved + Moved(changes, k, next) >= 0
    BY <2>7, <2>8, <2>9, <2>10
  <2>12. inventory[k].available - 0 >= 0
    BY <2>8
  <2> QED
    BY <2>1, <2>11, <2>12 DEF Suffices
<1> HIDE DEF Covered
<1> QED
  BY <1>1, <1>2, <1>3, Invariance, AggInvariance, StockInvariance, PTL DEF Spec

-----------------------------------------------------------------------------
(* Where the reserves come from.                                           *)

\* The ids of events come without blanks at their ends.
TrimmedIds == \A e \in Events : Trim[e.id] = e.id

AppliedQuantity(k, type) == SumFunction([e \in AppliedAt(k, type) |-> e.quantity])

\* A batch of a plan adds its event to those applied; nothing else adds or removes one.
LEMMA AppliedStep ==
    ASSUME IInv, DistinctIds, TrimmedIds, [Next]_vars
    PROVE  /\ Write /\ status = "PROCESSED" =>
                 ev \in Events /\ ev \notin Applied /\ Applied' = Applied \union {ev}
           /\ ~(Write /\ status = "PROCESSED") => Applied' = Applied
<1>1. CASE ~Write
  BY <1>1, OnlyWriteWrites DEF Applied, tables
<1>2. CASE Write
  <2>1. /\ ev \in Events /\ ev.id \in RawIds /\ processed[ev.id] = "NONE"
        /\ processed' = [processed EXCEPT ![ev.id] = status]
        /\ processed \in [RawIds -> Recorded \union {"NONE"}]
    BY <1>2, WriteFrame, EventFields
       DEF IInv, TypeOK, EventInHand, IsProcessed, TrimmedIds, RecordEvent
  <2>2. ASSUME NEW f \in Events
        PROVE  /\ f = ev => processed'[f.id] = status /\ processed[f.id] = "NONE"
               /\ f # ev => processed'[f.id] = processed[f.id]
    <3>1. f.id \in RawIds /\ (f.id = ev.id <=> f = ev)
      BY <2>1, EventFields DEF DistinctIds
    <3> QED
      BY <2>1, <3>1
  <2> QED
    BY <1>2, <2>1, <2>2 DEF Applied
<1> QED
  BY <1>1, <1>2

\* Reservations and releases applied so far have quantities.
Quantified ==
    /\ IsFiniteSet(Applied)
    /\ \A e \in Applied : e.type \in {"PRODUCT_RESERVED", "PRODUCT_RELEASED"} => e.quantity \in Nat

\* They keep them, and the sum of those at a row grows by the event applied.
LEMMA QuantityStep ==
    ASSUME IInv, AggInv, StockInv, DistinctIds, TrimmedIds, Quantified, [Next]_vars
    PROVE  /\ Quantified'
           /\ \A k \in Keys, type \in {"PRODUCT_RESERVED", "PRODUCT_RELEASED"} :
                 /\ AppliedQuantity(k, type) \in Nat
                 /\ AppliedQuantity(k, type)'
                      = AppliedQuantity(k, type)
                          + (IF /\ WritesStock /\ ev.type = type
                                /\ ev.product = k[1] /\ ev.zone = k[2]
                             THEN ev.quantity ELSE 0)
<1> DEFINE Types == {"PRODUCT_RESERVED", "PRODUCT_RELEASED"}
<1>1. ASSUME Write, status = "PROCESSED", ev.type \in Types
      PROVE  WritesStock /\ ev.quantity \in Nat
  <2>1. WritesStock
    BY <1>1 DEF WritesStock, InventoryTypes
  <2>2. WellFormed(ev) /\ ev \in Events
    BY <1>1, <2>1, StockWritten, BatchWrites DEF WritesStock
  <2> QED
    BY <1>1, <2>1, <2>2, EventFields DEF WellFormed, IsQuantity
<1>2. Quantified'
  <2>1. CASE Write /\ status = "PROCESSED"
    <3>1. Applied' = Applied \union {ev}
      BY <2>1, AppliedStep
    <3>2. IsFiniteSet(Applied')
      BY <3>1, FS_AddElement DEF Quantified
    <3> QED
      BY <1>1, <2>1, <3>1, <3>2 DEF Quantified
  <2>2. CASE ~(Write /\ status = "PROCESSED")
    BY <2>2, AppliedStep DEF Quantified
  <2> QED
    BY <2>1, <2>2
<1>3. ASSUME NEW k \in Keys, NEW type \in Types
      PROVE  /\ AppliedQuantity(k, type) \in Nat
             /\ AppliedQuantity(k, type)'
                  = AppliedQuantity(k, type)
                      + (IF /\ WritesStock /\ ev.type = type
                            /\ ev.product = k[1] /\ ev.zone = k[2]
                         THEN ev.quantity ELSE 0)
  <2> DEFINE S == AppliedAt(k, type)
             U == AppliedAt(k, type)'
             f == [e \in S |-> e.quantity]
             g == [e \in U |-> e.quantity]
             here == ev.type = type /\ ev.product = k[1] /\ ev.zone = k[2]
  <2>1. IsFiniteSet(S) /\ \A e \in S : e.quantity \in Nat
    <3>1. S \subseteq Applied /\ \A e \in S : e.type = type
      BY DEF AppliedAt
    <3> QED
      BY <3>1, FS_Subset DEF Quantified
  <2>2. AppliedQuantity(k, type) = SumFunction(f) /\ AppliedQuantity(k, type)' = SumFunction(g)
    BY DEF AppliedQuantity
  <2>3. f \in [S -> Nat] /\ DOMAIN f = S /\ DOMAIN g = U /\ \A e \in S : f[e] \in Int
    <3> HIDE DEF S, U
    <3> QED
      BY <2>1
  <2>4. SumFunction(f) \in Nat
    <3> HIDE DEF S, f
    <3> QED
      BY <2>1, <2>3, SumNat
  <2>5. CASE Write /\ status = "PROCESSED" /\ here
    <3>1. WritesStock /\ ev.quantity \in Nat
      BY <1>1, <2>5
    <3>2. U = S \union {ev} /\ ev \notin S
      BY <2>5, AppliedStep DEF AppliedAt
    <3>3. /\ \A e \in S : g[e] = f[e]
          /\ g[ev] = ev.quantity /\ g[ev] \in Int
      <4> HIDE DEF S, U
      <4> QED
        BY <3>1, <3>2
    <3> HIDE DEF S, U, f, g
    <3>4. IsFiniteSet(U) /\ ev \in U /\ U \ {ev} = S
      BY <2>1, <3>2, FS_AddElement
    <3>5. IntOn(g, U) /\ IntOn(f, S)
      BY <2>3, <3>2, <3>3 DEF IntOn
    <3>6. SumFunctionOnSet(g, U) = g[ev] + SumFunctionOnSet(g, U \ {ev})
      BY <3>4, <3>5, SumRemove
    <3>7. SumFunctionOnSet(f, S) = SumFunctionOnSet(g, S)
      BY <2>1, <3>3, <3>5, SumSame
    <3>8. SumFunction(g) = g[ev] + SumFunction(f)
      BY <2>3, <3>4, <3>6, <3>7 DEF SumFunction
    <3> QED
      BY <2>2, <2>4, <2>5, <3>1, <3>3, <3>8
  <2>6. CASE ~(Write /\ status = "PROCESSED" /\ here)
    <3>1. U = S
      BY <2>6, AppliedStep DEF AppliedAt
    <3>2. g = f
      BY <3>1
    <3>3. ~(WritesStock /\ here)
      BY <2>6 DEF WritesStock
    <3> HIDE DEF S, U, f, g
    <3> QED
      BY <2>2, <2>4, <3>2, <3>3
  <2> QED
    BY <2>5, <2>6
<1> QED
  BY <1>2, <1>3

\* If no two events share an event_id, and ids have no blanks at their ends, what a row
\* holds in reserve is what the reservations applied to it put there, less what the
\* releases took away, and what the open orders booked of it: an event that was
\* refused, stale or delivered again moved nothing.
THEOREM ReserveIsExplained ==
    ASSUME DistinctIds, TrimmedIds
    PROVE  Spec => []ReservedIsExplained
<1> DEFINE Explained ==
             /\ Quantified
             /\ IsFiniteSet(OpenOrders)
             /\ \A k \in Keys :
                   inventory[k].reserved =
                       AppliedQuantity(k, "PRODUCT_RESERVED")
                     - AppliedQuantity(k, "PRODUCT_RELEASED") + Held(k)
<1>1. Init => Explained
  <2> SUFFICES ASSUME Init PROVE Explained
    OBVIOUS
  <2>1. Applied = {}
    BY EventFields DEF Init, Applied
  <2>2. Quantified
    BY <2>1, FS_EmptySet DEF Quantified
  <2>3. OpenOrders = {} /\ \A k \in Keys : Held(k) = 0 /\ inventory[k].reserved = 0
    BY NothingHeld
  <2>4. ASSUME NEW k \in Keys, NEW type PROVE AppliedQuantity(k, type) = 0
    <3> DEFINE f == [e \in AppliedAt(k, type) |-> e.quantity]
    <3>1. f \in [{} -> Int] /\ IsFiniteSet({})
      BY <2>1, FS_EmptySet DEF AppliedAt
    <3>2. AppliedQuantity(k, type) = SumFunction(f)
      BY DEF AppliedQuantity
    <3> HIDE DEF f
    <3> QED
      BY <3>1, <3>2, SumZero
  <2> QED
    BY <2>2, <2>3, <2>4, FS_EmptySet
<1>2. IInv /\ AggInv /\ StockInv /\ Explained /\ [Next]_vars => Explained'
  <2> SUFFICES ASSUME IInv, AggInv, StockInv, Explained, [Next]_vars
               PROVE  /\ Quantified'
                      /\ IsFiniteSet(OpenOrders')
                      /\ \A k \in Keys :
                            inventory'[k].reserved =
                                AppliedQuantity(k, "PRODUCT_RESERVED")'
                              - AppliedQuantity(k, "PRODUCT_RELEASED")' + Held(k)'
    OBVIOUS
  <2>1. Quantified' /\ IsFiniteSet(OpenOrders')
    BY QuantityStep, OpenStaysFinite
  <2>2. ASSUME NEW k \in Keys
        PROVE  inventory'[k].reserved =
                   AppliedQuantity(k, "PRODUCT_RESERVED")'
                 - AppliedQuantity(k, "PRODUCT_RELEASED")' + Held(k)'
    <3> DEFINE here == ev.product = k[1] /\ ev.zone = k[2]
               in == AppliedQuantity(k, "PRODUCT_RESERVED")
               out == AppliedQuantity(k, "PRODUCT_RELEASED")
               in2 == AppliedQuantity(k, "PRODUCT_RESERVED")'
               out2 == AppliedQuantity(k, "PRODUCT_RELEASED")'
    <3>1. /\ in \in Nat /\ out \in Nat
          /\ in2 = in + (IF WritesStock /\ ev.type = "PRODUCT_RESERVED" /\ here
                         THEN ev.quantity ELSE 0)
          /\ out2 = out + (IF WritesStock /\ ev.type = "PRODUCT_RELEASED" /\ here
                           THEN ev.quantity ELSE 0)
      BY QuantityStep
    <3>2. /\ inventory'[k].reserved - Held(k)'
               = inventory[k].reserved - Held(k)
                   + (IF WritesStock THEN Reservation(ev, k) ELSE 0)
          /\ Held(k) \in Nat /\ Held(k)' \in Nat
          /\ inventory[k].reserved \in Nat /\ inventory'[k].reserved \in Nat
      BY ReserveStep, ReserveTyped
    <3>3. inventory[k].reserved = in - out + Held(k)
      OBVIOUS
    <3>4. CASE WritesStock /\ here /\ ev.type \in {"PRODUCT_RESERVED", "PRODUCT_RELEASED"}
      <4>1. WellFormed(ev) /\ ev \in Events
        BY <3>4, StockWritten, BatchWrites DEF WritesStock
      <4>2. ev.quantity \in Nat
        BY <3>4, <4>1, EventFields DEF WellFormed, IsQuantity
      <4> HIDE DEF in, out, in2, out2
      <4>3. CASE ev.type = "PRODUCT_RESERVED"
        <5>1. Reservation(ev, k) = ev.quantity
          BY <3>4, <4>3 DEF Reservation
        <5>2. in2 = in + ev.quantity /\ out2 = out + 0
          BY <3>1, <3>4, <4>3
        <5>3. inventory'[k].reserved - Held(k)' = inventory[k].reserved - Held(k) + ev.quantity
          BY <3>2, <3>4, <5>1
        <5>4. inventory'[k].reserved = in2 - out2 + Held(k)'
          BY <3>1, <3>2, <3>3, <4>2, <5>2, <5>3
        <5> QED
          BY <5>4 DEF in2, out2
      <4>4. CASE ev.type = "PRODUCT_RELEASED"
        <5>1. Reservation(ev, k) = -ev.quantity
          BY <3>4, <4>4 DEF Reservation
        <5>2. in2 = in + 0 /\ out2 = out + ev.quantity
          BY <3>1, <3>4, <4>4
        <5>3. inventory'[k].reserved - Held(k)'
                = inventory[k].reserved - Held(k) + (-ev.quantity)
          BY <3>2, <3>4, <5>1
        <5>4. inventory'[k].reserved = in2 - out2 + Held(k)'
          BY <3>1, <3>2, <3>3, <4>2, <5>2, <5>3
        <5> QED
          BY <5>4 DEF in2, out2
      <4> QED
        BY <3>4, <4>3, <4>4
    <3>5. CASE ~(WritesStock /\ here /\ ev.type \in {"PRODUCT_RESERVED", "PRODUCT_RELEASED"})
      <4>1. WritesStock => Reservation(ev, k) = 0
        BY <3>5 DEF Reservation
      <4> HIDE DEF in, out, in2, out2
      <4>2. in2 = in + 0 /\ out2 = out + 0
        BY <3>1, <3>5
      <4>3. inventory'[k].reserved - Held(k)' = inventory[k].reserved - Held(k) + 0
        BY <3>2, <4>1
      <4>4. inventory'[k].reserved = in2 - out2 + Held(k)'
        BY <3>1, <3>2, <3>3, <4>2, <4>3
      <4> QED
        BY <4>4 DEF in2, out2
    <3> QED
      BY <3>4, <3>5
  <2> QED
    BY <2>1, <2>2
<1>3. Explained => ReservedIsExplained
  BY DEF ReservedIsExplained, SumOver, AppliedQuantity, Held
<1> HIDE DEF Explained
<1> QED
  BY <1>1, <1>2, <1>3, Invariance, AggInvariance, StockInvariance, PTL DEF Spec
=============================================================================
