\* A WMS that had a request before the first scrape and has none after it.
CONSTANTS
    r1 = r1
    Requests = {r1}
    MaxScrapes = 2
    Floor = 1
    MaxProcessed = 0
SPECIFICATION Spec
SYMMETRY RequestSymmetry
CHECK_DEADLOCK FALSE
INVARIANTS
    NoTrafficIsPerfect
