\* With every client done and the server stopped there is nothing left to do.
CHECK_DEADLOCK FALSE
SPECIFICATION Spec
CONSTANTS
    None = None
    Clients = {c1, c2}
    KeyIds = {k1, k2}
    Capacity = 1
    MaxCrashes = 1
INVARIANTS
    BadRequestMeansIllegal
