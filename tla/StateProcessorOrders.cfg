\* Two orders compete for the stock of two products; nothing is released.
CONSTANTS
    Products = {"p", "q"}
    Zones = {" ", "z1", "z2"}
    Orders = {"o1", "o2", "o3"}
    Suppliers = {"s"}
    RowOrder <- WithBlankZone
    RawIds <- OrderIds
    Trim <- Unpadded
    Events <- OrderEvents
    None = None
    Resolution = 3
    MaxInt = 4
SPECIFICATION Spec
INVARIANTS
    TypeOK
    OrdersFullyBooked
    AllocationHolds
    OpenOrdersCompletable
PROPERTIES
    OrderLifecycle
    ImplementsLedger
