\* One receipt of stock, retried while its batch is under way.
CONSTANTS
    Products = {"p"}
    Zones = {"z1"}
    Orders = {}
    Suppliers = {}
    RowOrder <- OneKey
    RawIds <- ReceiptId
    Trim <- Unpadded
    Events <- OneReceipt
    None = None
    Resolution = 1
    MaxInt = 4
SPECIFICATION LateSpec
INVARIANTS
    NothingCountedTwice
