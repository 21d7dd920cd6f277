\* An event_id that ends in a blank.
CONSTANTS
    Products = {"p"}
    Zones = {"z1"}
    Orders = {}
    Suppliers = {}
    RowOrder <- OneKey
    RawIds <- PaddedIds
    Trim <- Padded
    Events <- PaddedEvents
    None = None
    Resolution = 4
    MaxInt = 4
SPECIFICATION Spec
PROPERTIES
    DuplicatesHarmless
