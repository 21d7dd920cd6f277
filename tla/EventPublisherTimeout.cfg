\* A single event and a bulk in two threads: whose delivery timed out?
CONSTANTS
    Requests = {"one", "bulk"}
    Bulk = {"bulk"}
    Events = {"a", "b", "x", "y"}
    Body <- MCBody
    Malformed = {"x"}
    Unserializable = {"y"}
    Partitions = {0, 1}
    PartitionOf <- MCPartitionOf
    Versions = {1, 2}
    VersionOf <- MCVersionOf
    Threads = 2
    MaxQueue = 3
    MaxCopies = 1
SPECIFICATION Spec
CHECK_DEADLOCK FALSE
PROPERTIES
    TimeoutIsOwn
