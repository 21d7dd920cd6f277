\* Three requests that two scrapes overlap with. Afterwards nothing more happens.
CONSTANTS
    r1 = r1
    r2 = r2
    r3 = r3
    Requests = {r1, r2, r3}
    MaxScrapes = 2
SPECIFICATION HttpSpec
SYMMETRY RequestSymmetry
CHECK_DEADLOCK FALSE
INVARIANTS
    HttpTypeOK
    MetricsAgree
    PagesConsistent
