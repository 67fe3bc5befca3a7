CONSTANTS
    c1 = c1
    c2 = c2
    Clients = {c1, c2}
    NFilters = 1
    Drivers = {"sw"}
    NoClient = NoClient
SPECIFICATION Spec
INVARIANT SyncIsBarrier
