\* Two partitions, a good event published any number of times and an
\* undecodable one, crashes, lost answers and rebalances at any point.
CONSTANTS
    p1 = p1
    p2 = p2
    e1 = e1
    bad = bad
    Partitions <- TwoPartitions
    EventIds <- MCEvents
    Undecodable <- MCBad
    Malformed = {}
    Refusable = {e1}
    Unwritable = {}
    Schemas <- MCOneSchema
    SchemaOf <- MCSchemaOf
    NoSlot = NoSlot
    CanCrash = TRUE
    MaxLog <- MCLogs
    MaxLate <- OneLate
SPECIFICATION Spec
INVARIANTS
    TypeOK
    NoLoss
    NothingSkipped
    CountedOnce
PROPERTIES
    ImplementsContract
