\* Five events that share rows, any number of batches late, one at a time.
CONSTANTS
    Products = {"p"}
    Zones = {"z1", "z2"}
    Orders = {"o1"}
    Suppliers = {}
    RowOrder <- OneProduct
    RawIds <- LateIds
    Trim <- Unpadded
    Events <- LateEvents
    None = None
    Resolution = 3
    MaxInt = 4
SPECIFICATION LateSpec
INVARIANTS
    StockNonNegative
PROPERTIES
    OrdersNeverReopen
