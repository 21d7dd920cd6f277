\* The check of the freshness SLO before the exporter has ever reached Kafka.
CONSTANTS
    Partitions = {0}
    MaxEnd = 2
    MaxTroubles = 1
    Threshold = 1
    For = 0
    Slos <- MCSlos
    OtherAnswers <- MCAnswers
SPECIFICATION FairSpec
CHECK_DEADLOCK FALSE
PROPERTIES
    GreenMeansFresh
