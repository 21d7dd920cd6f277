\* No crash and no restart: does the loop survive a consumer error?
CONSTANTS
    p1 = p1
    p2 = p2
    e1 = e1
    bad = bad
    Partitions <- OnePartition
    EventIds <- MCEvents
    Undecodable <- MCBad
    Malformed = {}
    Refusable = {e1}
    Unwritable = {}
    Schemas <- MCOneSchema
    SchemaOf <- MCSchemaOf
    NoSlot = NoSlot
    CanCrash = FALSE
    MaxLog <- MCLogs
    MaxLate <- NoneLate
SPECIFICATION UnattendedSpec
PROPERTIES
    ConsumerErrorSurvived
