CONSTANTS
    c1 = c1
    c2 = c2
    Clients = {c1, c2}
    NFilters = 1
    Drivers = {"hw", "sw"}
    NoClient = NoClient
SPECIFICATION LiveSpec
INVARIANTS HwSyncIsBarrier ThreadMatchesOpen NoLostWakeup
PROPERTIES GateSpec CallsReturn
