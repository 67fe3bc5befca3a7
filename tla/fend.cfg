CONSTANTS
    c1 = c1
    c2 = c2
    p1 = p1
    p2 = p2
    last = last
    s1 = s1
    Lockers = {c1}
    Scanners = {c2}
    Last = last
    Strays = {s1}
    Params = {p1, p2}
    CheckPara = TRUE
    AppCb = AppCb
    NoCb = NoCb
    NoPara = NoPara
    NoStatus = NoStatus
SPECIFICATION LiveSpec
INVARIANTS LockStatusIsOwn ContextAlive NoBlindCallbackAfterExit
PROPERTIES CallbackSwapIsQuiet CallsReturn
