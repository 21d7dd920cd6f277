\* One thread for a bulk, a single event, a refused one and a health check, and
\* a Kafka that may never answer. When all are answered, nothing moves.
CONSTANTS
    Requests = {"bulk", "one", "bad", "health"}
    Bulk = {"bulk"}
    Events = {"a", "b", "x", "y"}
    Body <- MCBody
    Malformed = {"x"}
    Unserializable = {"y"}
    Partitions = {0, 1}
    PartitionOf <- MCPartitionOf
    Versions = {1, 2}
    VersionOf <- MCVersionOf
    Threads = 1
    MaxQueue = 3
    MaxCopies = 1
SPECIFICATION FairSpec
CHECK_DEADLOCK FALSE
INVARIANTS
    TypeOK
PROPERTIES
    EveryRequestAnswered
