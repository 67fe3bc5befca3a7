CONSTANTS
    CaSeq <- MCCaSeq
    Ci = "ci"
    AutoDisabled = {}
    Callbacks = {"ci"}
    s1 = s1
    s2 = s2
    Services <- MCServices
    Ids <- MCIds
    Accepts <- MCAccepts
    MaxCalls = 3
    MaxChanges = 1
    MaxFend = 1
    MaxMsgs = 1
    MaxRounds = 1
    Budget = 3
SPECIFICATION Spec
SYMMETRY MCSymmetry
CONSTRAINT Followed
INVARIANTS TypeOK PmtOfService TablesWatched NothingFreedIsUsed OpenCaIsHeard OnlyTheCamBlocks
CHECK_DEADLOCK FALSE
