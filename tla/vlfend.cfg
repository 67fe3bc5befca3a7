CONSTANTS
    c1 = c1
    c2 = c2
    p1 = p1
    p2 = p2
    last = last
    s1 = s1
    Lockers = {c1}
    Scanners = {}
    Last = last
    Strays = {}
    Params = {p1, p2}
    CheckPara = FALSE
    AppCb = AppCb
    NoCb = NoCb
    NoPara = NoPara
    NoStatus = NoStatus
SPECIFICATION Spec
INVARIANT LockStatusIsOwn
