CONSTANTS
    Again = {"cat", "sdt"}
    Timed = {"eit"}
    Silent = {"eit"}
    DoneOrder <- MCDoneOrder
    ModeOrder <- MCModeOrder
    NFids = 2
    Callers = {c1}
    NoCall = NoCall
SPECIFICATION Spec
INVARIANTS NoStaleSection NothingAfterGone NothingForgotten TimedModeHolds NoLostWakeup
CHECK_DEADLOCK FALSE
