\* Nothing but well-formed events that no handler refuses.
CONSTANTS
    p1 = p1
    p2 = p2
    e1 = e1
    bad = bad
    Partitions <- OnePartition
    EventIds = {e1}
    Undecodable = {}
    Malformed = {}
    Refusable = {}
    Unwritable = {}
    Schemas <- MCOneSchema
    SchemaOf <- MCSchemaOf
    NoSlot = NoSlot
    CanCrash = TRUE
    MaxLog <- MCLogs
    MaxLate <- NoneLate
SPECIFICATION Spec
INVARIANTS
    OnlyInvalidDeadLettered
