\* Clients that send invalid events.
CONSTANTS
    r1 = r1
    r2 = r2
    Requests = {r1, r2}
    MaxScrapes = 2
    Floor = 1
    MaxProcessed = 0
SPECIFICATION Spec
SYMMETRY RequestSymmetry
CHECK_DEADLOCK FALSE
INVARIANTS
    ClientErrorsDoNotAlert
