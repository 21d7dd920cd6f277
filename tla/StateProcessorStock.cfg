\* Every inventory event and an order, in any order, with every failure.
CONSTANTS
    Products = {"p"}
    Zones = {"z1", "z2"}
    Orders = {"o1"}
    Suppliers = {"s"}
    RowOrder <- OneProduct
    RawIds <- StockIds
    Trim <- Unpadded
    Events <- StockEvents
    None = None
    Resolution = 3
    MaxInt = 3
SPECIFICATION Spec
INVARIANTS
    StockNonNegative
    ProjectionsAgree
    TotalsNeverRefuse
    ReservedIsExplained
PROPERTIES
    VersionsNeverRegress
    NewestWins
    DuplicatesHarmless
    ImplementsLedger
