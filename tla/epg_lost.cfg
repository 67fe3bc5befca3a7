CONSTANTS
    Again = {"sdt"}
    Timed = {"tot"}
    Silent = {}
    DoneOrder <- MCDoneOrder2
    ModeOrder <- MCModeOrder2
    NFids = 2
    Callers = {c1}
    NoCall = NoCall
SPECIFICATION Spec
INVARIANTS NoLostTable
CHECK_DEADLOCK FALSE
