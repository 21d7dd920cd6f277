\* Two processes, three attempts each, two restarts. A process that failed for the
\* last time does nothing more.
CONSTANTS
    w1 = w1
    w2 = w2
    Processes = {w1, w2}
    Retries = 3
    MaxRestarts = 2
SPECIFICATION FairSpec
CHECK_DEADLOCK FALSE
INVARIANTS
    RegistryInOrder
    ServingMeansRegistered
PROPERTIES
    StartEnds
