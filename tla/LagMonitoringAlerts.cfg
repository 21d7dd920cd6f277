\* Two partitions, alerts that need two evaluations, one failed call; nothing is
\* checked. A stopped exporter and a full log do nothing more.
CONSTANTS
    Partitions = {0, 1}
    MaxEnd = 1
    MaxTroubles = 1
    Threshold = 0
    For = 1
    Slos <- NoSlosToCheck
    OtherAnswers = {}
SPECIFICATION FairSpec
CHECK_DEADLOCK FALSE
INVARIANTS
    TypeOK
PROPERTIES
    AlertsSettle
