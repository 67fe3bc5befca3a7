CONSTANTS
    Size = 4
    SubSize = 2
    Chunks = {1, 2}
    Offsets = {1, 9}
    Products = {0, 3}
    Timers = {"never", "open", "late"}
    Faults = TRUE
    MaxWritten = 6
SPECIFICATION Spec
INVARIANTS TypeOK RingConsistent InOrder NoLostWakeup
CHECK_DEADLOCK FALSE
