\* Two bulks, one of which fails in the middle, and a single event over two
\* threads. Requests are finitely many: when all are answered, nothing moves.
CONSTANTS
    Requests = {"bulk", "one", "odd"}
    Bulk = {"bulk", "odd"}
    Events = {"a", "b", "x", "y"}
    Body <- MCBody
    Malformed = {"x"}
    Unserializable = {"y"}
    Partitions = {0}
    PartitionOf <- OnePartition
    Versions = {1, 2}
    VersionOf <- MCVersionOf
    Threads = 2
    MaxQueue = 2
    MaxCopies = 2
SPECIFICATION FairSpec
CHECK_DEADLOCK FALSE
INVARIANTS
    AnswerHolds
    RefusedUnpublished
    BulkInOrder
PROPERTIES
    EveryRequestAnswered
    ImplementsPromise
