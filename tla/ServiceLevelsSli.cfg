\* Two requests and an event that three scrapes of each service overlap with.
\* Afterwards nothing more happens.
CONSTANTS
    r1 = r1
    r2 = r2
    Requests = {r1, r2}
    MaxScrapes = 3
    Floor = 1
    MaxProcessed = 1
SPECIFICATION Spec
SYMMETRY RequestSymmetry
CHECK_DEADLOCK FALSE
INVARIANTS
    MetricsAgree
    PagesConsistent
    AvailabilityMeasured
