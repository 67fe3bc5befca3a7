CONSTANTS
    m1 = m1
    m2 = m2
    d1 = d1
    d2 = d2
    cbEpg = cbEpg
    cbScan = cbScan
    Monitors = {m1, m2}
    Devices = {d1, d2}
    Callbacks = {cbEpg, cbScan}
    CallbackOf <- TwoKinds
    NoThread = NoThread
    NoNode = NoNode
SPECIFICATION LiveSpec
INVARIANTS CallbackOnLiveObject DestroyedLockIsFree
PROPERTY SignalReturns
