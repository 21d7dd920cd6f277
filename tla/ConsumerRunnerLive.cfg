\* One partition; crashes, failures and rebalances may repeat, and SIGTERM may come
\* at any point. The loop only has its own time limits (LoopSpec).
CONSTANTS
    p1 = p1
    p2 = p2
    e1 = e1
    bad = bad
    Partitions <- OnePartition
    EventIds <- MCEvents
    Undecodable = {}
    Malformed <- MCBad
    Refusable = {e1}
    Unwritable = {}
    Schemas <- MCOneSchema
    SchemaOf <- MCSchemaOf
    NoSlot = NoSlot
    CanCrash = TRUE
    MaxLog <- MCLogs
    MaxLate <- NoneLate
SPECIFICATION LoopSpec
PROPERTIES
    EveryMessageSettles
    StopEnds
