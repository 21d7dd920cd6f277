\* Events closer than a millisecond, the resolution of a stored timestamp.
CONSTANTS
    Products = {"p"}
    Zones = {"z1"}
    Orders = {}
    Suppliers = {}
    RowOrder <- OneKey
    RawIds <- MicroIds
    Trim <- Unpadded
    Events <- MicroEvents
    None = None
    Resolution = 4
    MaxInt = 4
SPECIFICATION Spec
PROPERTIES
    OlderIsStale
