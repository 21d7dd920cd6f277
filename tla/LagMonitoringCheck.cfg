\* Two partitions and a check of two SLOs while the lag comes and goes, one failed
\* call. A stopped exporter, a full log and an ended check do nothing more.
CONSTANTS
    Partitions = {0, 1}
    MaxEnd = 1
    MaxTroubles = 1
    Threshold = 0
    For = 0
    Slos <- MCSlos
    OtherAnswers <- MCAnswers
SPECIFICATION FairSpec
CHECK_DEADLOCK FALSE
INVARIANTS
    NeverUnderstated
PROPERTIES
    LagConverges
    StopEnds
    AlertsSettle
    BreachTurnsRed
