\* Two partitions, sweeps that messages and commits overtake, two failed calls.
\* A stopped exporter on a full log does nothing more.
CONSTANTS
    Partitions = {0, 1}
    MaxEnd = 3
    MaxTroubles = 2
SPECIFICATION FairLagSpec
CHECK_DEADLOCK FALSE
INVARIANTS
    LagTypeOK
    NeverUnderstated
PROPERTIES
    LagConverges
    StopEnds
