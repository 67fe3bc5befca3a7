---------------------------- MODULE AmFendProofs ----------------------------
(* Proofs about AmFend: the user count and the blind scan for any number   *)
(* of threads; the record and the status of AM_FEND_Lock for one thread    *)
(* that tunes and any number of others.                                    *)
EXTENDS AmFend, FiniteSetTheorems, TLAPS

\* One more user is counted once.
LEMMA UserEnters ==
    ASSUME TypeOK, NEW c \in Clients, pc[c] = "out", pc' = [pc EXCEPT ![c] = "idle"]
    PROVE  Cardinality(Users') = Cardinality(Users) + 1
<1>1. IsFiniteSet(Users)
  BY ClientsAssumption, FS_Subset DEF Users
<1>2. c \notin Users /\ Users' = Users \cup {c}
  BY DEF Users, TypeOK
<1> QED BY <1>1, <1>2, FS_AddElement

\* One user less is counted once.
LEMMA UserLeaves ==
    ASSUME TypeOK, NEW c \in Clients, pc[c] # "out", pc' = [pc EXCEPT ![c] = "out"]
    PROVE  Cardinality(Users') = Cardinality(Users) - 1
<1>1. IsFiniteSet(Users)
  BY ClientsAssumption, FS_Subset DEF Users
<1>2. c \in Users /\ Users' = Users \ {c}
  BY DEF Users, TypeOK
<1> QED BY <1>1, <1>2, FS_RemoveElement

\* Nobody uses a device that is closed.
LEMMA NoUserWhenClosed ==
    ASSUME CountExact, openCount = 0
    PROVE  \A c \in Clients : pc[c] = "out"
<1>1. IsFiniteSet(Users)
  BY ClientsAssumption, FS_Subset DEF Users
<1>2. Users = {}
  BY <1>1, FS_EmptySet DEF CountExact
<1> QED BY <1>2 DEF Users

\* The only user of a device that is open once.
LEMMA OnlyUser ==
    ASSUME CountExact, openCount = 1, NEW c \in Clients, pc[c] # "out"
    PROVE  \A d \in Clients : d # c => pc[d] = "out"
<1>1. IsFiniteSet(Users)
  BY ClientsAssumption, FS_Subset DEF Users
<1>2. PICK x : Users = {x}
  BY <1>1, FS_Singleton DEF CountExact
<1> QED BY <1>2 DEF Users

\* A broadcast moves waiting threads on and nobody else.
LEMMA WokenMoves ==
    ASSUME TypeOK, pc' = pc \/ pc' = Woken
    PROVE  /\ pc' \in [Clients -> ClientStates]
           /\ \A c \in Clients :
                 /\ pc'[c] # pc[c] =>
                       /\ pc[c] \in Waits
                       /\ pc'[c] \in {"prewoken", "lockwoken", "setwoken"}
                 /\ InLock(c)' <=> InLock(c)
                 /\ pc'[c] \in {"prewait", "prewoken"} <=> pc[c] \in {"prewait", "prewoken"}
  BY DEF Woken, TypeOK, ClientStates, Waits, InLock

\* Nor does it make a user.
LEMMA WokenUsers ==
    ASSUME TypeOK, pc' = pc \/ pc' = Woken
    PROVE  Users' = Users
  BY WokenMoves DEF Users, Waits, TypeOK

LEMMA DeviceInit == Init => DeviceInv
<1> SUFFICES ASSUME Init PROVE DeviceInv
    OBVIOUS
<1>1. Users = {} /\ Cardinality(Users) = 0
  BY FS_EmptySet DEF Init, Users
<1>2. TypeOK
  BY DEF Init, TypeOK, ClientStates
<1> QED BY <1>1, <1>2
    DEF Init, DeviceInv, CountExact, Closing, RunFlag, ScanOwner, Working, Scans

-----------------------------------------------------------------------------
(* The device.                                                             *)

LEMMA TypeStep ==
    ASSUME DeviceInv, Next
    PROVE  TypeOK'
<1> USE
    DEF DeviceInv, TypeOK, ClientStates, ToSignal, Scans, Working, Goto, Forget, Waits, devVars,
        monitorVars, lockVars, scanVars
<1>0. \A c \in Clients : pc[c] # "out" => openCount > 0
  BY NoUserWhenClosed
<1>1. ASSUME NEW c \in Clients, OpenClose(c) PROVE TypeOK'
  <2>1. CASE OpenAgain(c)
    BY <2>1 DEF OpenAgain
  <2>2. CASE OpenFirst(c)
    BY <2>2 DEF OpenFirst
  <2>3. CASE OpenFail(c)
    BY <2>3 DEF OpenFail
  <2>4. CASE Close(c)
    BY <2>4 DEF Close
  <2>5. CASE CloseShared(c)
    BY <2>5, <1>0 DEF CloseShared
  <2>6. CASE CloseLast(c)
    BY <2>6 DEF CloseLast
  <2>7. CASE CloseJoin(c)
    <3>1. openCount' = 0
      BY <2>7 DEF CloseJoin, Closing
    <3>2. {enableThread, enableCb, enableBs, runCb, lockFlag}' \subseteq BOOLEAN
      BY <2>7 DEF CloseJoin
    <3> QED BY <2>7, <3>1, <3>2 DEF CloseJoin
  <2> QED BY <1>1, <2>1, <2>2, <2>3, <2>4, <2>5, <2>6, <2>7 DEF OpenClose
<1>2. ASSUME NEW c \in Lockers, LockerNext(c), ~OpenClose(c) PROVE TypeOK'
  <2> c \in Clients
    BY DEF Clients
  <2>1. CASE LockPrewoken(c)
    <3>1. CASE runCb
      BY <2>1, <3>1 DEF LockPrewoken
    <3>2. CASE ~runCb /\ cb' = c
      BY <2>1, <3>2 DEF LockPrewoken, LockBegin
    <3>3. CASE ~runCb /\ UNCHANGED <<cb, old, tuned>>
      BY <2>1, <3>3 DEF LockPrewoken, LockBegin
    <3> QED BY <2>1, <3>1, <3>2, <3>3 DEF LockPrewoken, LockBegin
  <2>2. CASE LockWoken(c)
    BY <2>2 DEF LockWoken
  <2>3. CASE SetCallback(c)
    BY <2>3 DEF SetCallback
  <2>4. CASE SetCallbackWoken(c)
    BY <2>4 DEF SetCallbackWoken
  <2>5. ASSUME NEW p \in Params, Lock(c, p) PROVE TypeOK'
    BY <2>5 DEF Lock
  <2>6. ASSUME NEW p \in Params, SetPara(c, p) PROVE TypeOK'
    BY <2>6 DEF SetPara
  <2> QED BY <1>2, <2>1, <2>2, <2>3, <2>4, <2>5, <2>6 DEF LockerNext
<1>3. ASSUME NEW c \in Scanners, ScannerNext(c), ~OpenClose(c) PROVE TypeOK'
  <2> c \in Clients
    BY DEF Clients
  <2>1. CASE SetActionCallback(c)
    BY <2>1 DEF SetActionCallback
  <2>2. CASE BlindScan(c)
    BY <2>2 DEF BlindScan
  <2>3. CASE BlindExit(c)
    BY <2>3 DEF BlindExit
  <2>4. CASE BlindExitJoin(c)
    BY <2>4 DEF BlindExitJoin
  <2> QED BY <1>3, <2>1, <2>2, <2>3, <2>4 DEF ScannerNext
<1>4. CASE MonitorStep
  <2>1. CASE MonitorExit
    BY <2>1 DEF MonitorExit
  <2>2. CASE MonitorTimeout
    BY <2>2 DEF MonitorTimeout
  <2>3. CASE MonitorEvent
    BY <2>3 DEF MonitorEvent
  <2>4. CASE MonitorSetRun
    BY <2>4 DEF MonitorSetRun
  <2>5. CASE MonitorRun
    BY <2>5 DEF MonitorRun
  <2>6. CASE CallbackReturn
    <3>1. pc' \in [Clients -> ClientStates]
      BY <2>6, WokenMoves DEF CallbackReturn, WakeIfNested
    <3> QED BY <2>6, <3>1 DEF CallbackReturn
  <2>7. CASE MonitorClear
    BY <2>7 DEF MonitorClear
  <2>8. CASE MonitorBroadcast
    <3>1. pc' \in [Clients -> ClientStates]
      BY <2>8, WokenMoves DEF MonitorBroadcast, WakeIfNested
    <3> QED BY <2>8, <3>1 DEF MonitorBroadcast
  <2>9. ASSUME NEW w \in Clients, LockCbOther(w) PROVE TypeOK'
    <3>1. pc' \in [Clients -> ClientStates]
      BY <2>9, WokenMoves DEF LockCbOther, WakeIfNested
    <3> QED BY <2>9, <3>1 DEF LockCbOther
  <2>10. ASSUME NEW w \in Clients, LockCb(w) PROVE TypeOK'
    BY <2>10 DEF LockCb
  <2>11. ASSUME NEW w \in Clients, LockCbChain(w) PROVE TypeOK'
    <3>1. pc' \in [Clients -> ClientStates]
      BY <2>11, WokenMoves DEF LockCbChain, WakeIfNested
    <3> QED BY <2>11, <3>1 DEF LockCbChain
  <2> QED BY <1>4, <2>1, <2>2, <2>3, <2>4, <2>5, <2>6, <2>7, <2>8, <2>9, <2>10,
      <2>11
      DEF MonitorStep
<1>5. ASSUME NEW s \in Scans, BlindStep(s) PROVE TypeOK'
  BY <1>5
     DEF BlindStep, BlindRun, BlindStart, BlindEvent, BlindCallbackReturn,
         BlindCancel, BlindGoto
<1> QED BY <1>1, <1>2, <1>3, <1>4, <1>5 DEF Next, Clients

LEMMA CountStep ==
    ASSUME DeviceInv, Next
    PROVE  CountExact'
<1>0. /\ TypeOK /\ CountExact
      /\ openCount = 0 => \A c \in Clients : pc[c] = "out"
  BY NoUserWhenClosed DEF DeviceInv
<1>1. ASSUME Users' = Users, openCount' = openCount PROVE CountExact'
  BY <1>0, <1>1 DEF CountExact
<1>2. ASSUME NEW c \in Clients, OpenClose(c) PROVE CountExact'
  <2>1. CASE OpenAgain(c) \/ OpenFirst(c)
    <3>1. pc[c] = "out" /\ pc' = [pc EXCEPT ![c] = "idle"] /\ openCount' = openCount + 1
      BY <2>1 DEF OpenAgain, OpenFirst, Goto
    <3> QED BY <1>0, <3>1, UserEnters DEF CountExact
  <2>2. CASE CloseShared(c) \/ CloseJoin(c)
    <3>1. pc[c] # "out" /\ pc' = [pc EXCEPT ![c] = "out"] /\ openCount' = openCount - 1
      BY <2>2 DEF CloseShared, CloseJoin, Goto
    <3> QED BY <1>0, <3>1, UserLeaves DEF CountExact
  <2>3. CASE OpenFail(c) \/ Close(c) \/ CloseLast(c)
    <3>1. Users' = Users /\ openCount' = openCount
      BY <1>0, <2>3
         DEF OpenFail, Close, CloseLast, Goto, Users, TypeOK, Ready, devVars
    <3> QED BY <1>1, <3>1
  <2> QED BY <1>2, <2>1, <2>2, <2>3 DEF OpenClose
<1>3. ASSUME NEW c \in Clients,
             LockerNext(c) \/ ScannerNext(c), ~OpenClose(c)
      PROVE  CountExact'
  <2>1. /\ openCount' = openCount /\ pc[c] # "out"
        /\ \E s \in ClientStates \ {"out"} : pc' = [pc EXCEPT ![c] = s]
    BY <1>0, <1>3
       DEF LockerNext, ScannerNext, Lock, SetPara, LockPrewoken, LockBegin,
           LockWoken, SetCallback, SetCallbackWoken, SetActionCallback, BlindScan,
           BlindExit, BlindExitJoin, Goto, Ready, TypeOK, ClientStates, Waits,
           devVars
  <2>2. Users' = Users
    BY <1>0, <2>1 DEF Users, TypeOK
  <2> QED BY <1>1, <2>1, <2>2
<1>4. CASE MonitorStep
  <2>1. openCount' = openCount /\ (pc' = pc \/ pc' = Woken)
    BY <1>4
       DEF MonitorStep, MonitorExit, MonitorTimeout, MonitorEvent, MonitorSetRun,
           MonitorRun, CallbackReturn, MonitorClear, MonitorBroadcast, LockCbOther,
           LockCb, LockCbChain, WakeIfNested, devVars
  <2> QED BY <1>0, <1>1, <2>1, WokenUsers
<1>5. ASSUME NEW s \in Scans, BlindStep(s) PROVE CountExact'
  <2>1. UNCHANGED <<openCount, pc>>
    BY <1>5
       DEF BlindStep, BlindRun, BlindStart, BlindEvent, BlindCallbackReturn,
           BlindCancel, BlindGoto, devVars
  <2> QED BY <1>1, <2>1 DEF Users
<1> QED BY <1>2, <1>3, <1>4, <1>5 DEF Next, Clients

LEMMA DeviceStep ==
    ASSUME DeviceInv, Next
    PROVE  Closing' /\ RunFlag' /\ ScanOwner'
<1>0. /\ TypeOK
      /\ openCount = 0 => \A c \in Clients : pc[c] = "out"
      /\ openCount = 1 => \A c, d \in Clients : pc[c] # "out" /\ pc[d] # "out" => c = d
  BY NoUserWhenClosed, OnlyUser DEF DeviceInv
<1> USE <1>0, ClientsAssumption
    DEF DeviceInv, TypeOK, Closing, RunFlag, ScanOwner, ClientStates, ToSignal,
        Working, Scans, Goto, Ready,
        Waits, devVars, monitorVars, lockVars, scanVars
<1>1. ASSUME NEW c \in Clients, OpenClose(c) PROVE Closing' /\ RunFlag' /\ ScanOwner'
  <2>1. CASE OpenAgain(c)
    BY <2>1 DEF OpenAgain
  <2>2. CASE OpenFirst(c)
    BY <2>2 DEF OpenFirst
  <2>3. CASE OpenFail(c)
    BY <2>3 DEF OpenFail
  <2>4. CASE Close(c)
    BY <2>4 DEF Close
  <2>5. CASE CloseShared(c)
    BY <2>5 DEF CloseShared
  <2>6. CASE CloseLast(c)
    BY <2>6 DEF CloseLast
  <2>7. CASE CloseJoin(c)
    BY <2>7 DEF CloseJoin
  <2> QED BY <1>1, <2>1, <2>2, <2>3, <2>4, <2>5, <2>6, <2>7 DEF OpenClose
<1>2. ASSUME NEW c \in Lockers, LockerNext(c), ~OpenClose(c) PROVE Closing' /\ RunFlag' /\ ScanOwner'
  <2> c \in Clients
    BY DEF Clients
  <2>1. CASE LockPrewoken(c)
    <3>1. CASE runCb
      BY <2>1, <3>1 DEF LockPrewoken
    <3>2. CASE ~runCb
      BY <2>1, <3>2 DEF LockPrewoken, LockBegin
    <3> QED BY <3>1, <3>2
  <2>2. CASE LockWoken(c)
    BY <2>2 DEF LockWoken
  <2>3. CASE SetCallback(c)
    BY <2>3 DEF SetCallback
  <2>4. CASE SetCallbackWoken(c)
    BY <2>4 DEF SetCallbackWoken
  <2>5. ASSUME NEW p \in Params, Lock(c, p) PROVE Closing' /\ RunFlag' /\ ScanOwner'
    BY <2>5 DEF Lock
  <2>6. ASSUME NEW p \in Params, SetPara(c, p) PROVE Closing' /\ RunFlag' /\ ScanOwner'
    BY <2>6 DEF SetPara
  <2> QED BY <1>2, <2>1, <2>2, <2>3, <2>4, <2>5, <2>6 DEF LockerNext
<1>3. ASSUME NEW c \in Scanners, ScannerNext(c), ~OpenClose(c) PROVE Closing' /\ RunFlag' /\ ScanOwner'
  <2> c \in Clients
    BY DEF Clients
  <2>1. CASE SetActionCallback(c)
    BY <2>1 DEF SetActionCallback
  <2>2. CASE BlindScan(c)
    BY <2>2 DEF BlindScan
  <2>3. CASE BlindExit(c)
    BY <2>3 DEF BlindExit
  <2>4. CASE BlindExitJoin(c)
    BY <2>4 DEF BlindExitJoin
  <2> QED BY <1>3, <2>1, <2>2, <2>3, <2>4 DEF ScannerNext
<1>4. CASE MonitorStep
  <2>1. CASE MonitorExit
    BY <2>1 DEF MonitorExit
  <2>2. CASE MonitorTimeout
    BY <2>2 DEF MonitorTimeout
  <2>3. CASE MonitorEvent
    BY <2>3 DEF MonitorEvent
  <2>4. CASE MonitorSetRun
    BY <2>4 DEF MonitorSetRun
  <2>5. CASE MonitorRun
    BY <2>5 DEF MonitorRun
  <2>6. CASE CallbackReturn
    <3>1. pc' = pc \/ pc' = Woken
      BY <2>6 DEF CallbackReturn, WakeIfNested
    <3> QED BY <2>6, <3>1, WokenMoves DEF CallbackReturn
  <2>7. CASE MonitorClear
    BY <2>7 DEF MonitorClear
  <2>8. CASE MonitorBroadcast
    <3>1. pc' = pc \/ pc' = Woken
      BY <2>8 DEF MonitorBroadcast, WakeIfNested
    <3> QED BY <2>8, <3>1, WokenMoves DEF MonitorBroadcast
  <2>9. ASSUME NEW w \in Clients, LockCbOther(w) PROVE Closing' /\ RunFlag' /\ ScanOwner'
    <3>1. pc' = pc \/ pc' = Woken
      BY <2>9 DEF LockCbOther, WakeIfNested
    <3> QED BY <2>9, <3>1, WokenMoves DEF LockCbOther
  <2>10. ASSUME NEW w \in Clients, LockCb(w) PROVE Closing' /\ RunFlag' /\ ScanOwner'
    BY <2>10 DEF LockCb
  <2>11. ASSUME NEW w \in Clients, LockCbChain(w) PROVE Closing' /\ RunFlag' /\ ScanOwner'
    <3>1. pc' = pc \/ pc' = Woken
      BY <2>11 DEF LockCbChain, WakeIfNested
    <3> QED BY <2>11, <3>1, WokenMoves DEF LockCbChain
  <2> QED BY <1>4, <2>1, <2>2, <2>3, <2>4, <2>5, <2>6, <2>7, <2>8, <2>9, <2>10,
      <2>11
      DEF MonitorStep
<1>5. ASSUME NEW s \in Scans, BlindStep(s) PROVE Closing' /\ RunFlag' /\ ScanOwner'
  BY <1>5
     DEF BlindStep, BlindRun, BlindStart, BlindEvent, BlindCallbackReturn,
         BlindCancel, BlindGoto
<1> QED BY <1>1, <1>2, <1>3, <1>4, <1>5 DEF Next, Clients

-----------------------------------------------------------------------------
(* AM_FEND_Lock.                                                           *)

\* The record of AM_FEND_Lock, when one thread tunes.
LEMMA RecordStep ==
    ASSUME OneLocker, DeviceInv, RecordHeld, Next
    PROVE  RecordHeld'
<1>0. /\ TypeOK /\ RunFlag /\ Lockers \subseteq Clients
      /\ openCount = 0 => \A c \in Clients : pc[c] = "out"
  BY NoUserWhenClosed DEF DeviceInv, Clients
<1> USE <1>0, ClientsAssumption
    DEF TypeOK, RunFlag, OneLocker, RecordHeld, InLock, ClientStates, ToSignal, Goto, Ready,
        Waits, Forget, devVars, monitorVars, lockVars, scanVars
<1>1. ASSUME NEW c \in Clients, OpenClose(c) PROVE RecordHeld'
  <2>1. CASE OpenAgain(c)
    BY <2>1 DEF OpenAgain
  <2>2. CASE OpenFirst(c)
    BY <2>2 DEF OpenFirst
  <2>3. CASE OpenFail(c)
    BY <2>3 DEF OpenFail
  <2>4. CASE Close(c)
    BY <2>4 DEF Close
  <2>5. CASE CloseShared(c)
    BY <2>5 DEF CloseShared
  <2>6. CASE CloseLast(c)
    BY <2>6 DEF CloseLast
  <2>7. CASE CloseJoin(c)
    BY <2>7 DEF CloseJoin
  <2> QED BY <1>1, <2>1, <2>2, <2>3, <2>4, <2>5, <2>6, <2>7 DEF OpenClose
<1>2. ASSUME NEW c \in Lockers, LockerNext(c), ~OpenClose(c) PROVE RecordHeld'
  <2> c \in Clients
    BY DEF Clients
  <2>1. CASE LockPrewoken(c)
    <3>1. CASE runCb
      BY <2>1, <3>1 DEF LockPrewoken
    <3>2. CASE ~runCb
      BY <2>1, <3>2 DEF LockPrewoken, LockBegin
    <3> QED BY <3>1, <3>2
  <2>2. CASE LockWoken(c)
    BY <2>2 DEF LockWoken
  <2>3. CASE SetCallback(c)
    BY <2>3 DEF SetCallback
  <2>4. CASE SetCallbackWoken(c)
    BY <2>4 DEF SetCallbackWoken
  <2>5. ASSUME NEW p \in Params, Lock(c, p) PROVE RecordHeld'
    BY <2>5 DEF Lock
  <2>6. ASSUME NEW p \in Params, SetPara(c, p) PROVE RecordHeld'
    BY <2>6 DEF SetPara
  <2> QED BY <1>2, <2>1, <2>2, <2>3, <2>4, <2>5, <2>6 DEF LockerNext
<1>3. ASSUME NEW c \in Scanners, ScannerNext(c), ~OpenClose(c) PROVE RecordHeld'
  <2> c \in Clients
    BY DEF Clients
  <2>1. CASE SetActionCallback(c)
    BY <2>1 DEF SetActionCallback
  <2>2. CASE BlindScan(c)
    BY <2>2 DEF BlindScan
  <2>3. CASE BlindExit(c)
    BY <2>3 DEF BlindExit
  <2>4. CASE BlindExitJoin(c)
    BY <2>4 DEF BlindExitJoin
  <2> QED BY <1>3, <2>1, <2>2, <2>3, <2>4 DEF ScannerNext
<1>4. CASE MonitorStep
  <2>1. CASE MonitorExit
    BY <2>1 DEF MonitorExit
  <2>2. CASE MonitorTimeout
    BY <2>2 DEF MonitorTimeout
  <2>3. CASE MonitorEvent
    BY <2>3 DEF MonitorEvent
  <2>4. CASE MonitorSetRun
    BY <2>4 DEF MonitorSetRun
  <2>5. CASE MonitorRun
    BY <2>5 DEF MonitorRun
  <2>6. CASE CallbackReturn
    <3>1. pc' = pc \/ pc' = Woken
      BY <2>6 DEF CallbackReturn, WakeIfNested
    <3> QED BY <2>6, <3>1, WokenMoves DEF CallbackReturn
  <2>7. CASE MonitorClear
    BY <2>7 DEF MonitorClear
  <2>8. CASE MonitorBroadcast
    <3>1. pc' = pc \/ pc' = Woken
      BY <2>8 DEF MonitorBroadcast, WakeIfNested
    <3> QED BY <2>8, <3>1, WokenMoves DEF MonitorBroadcast
  <2>9. ASSUME NEW w \in Clients, LockCbOther(w) PROVE RecordHeld'
    <3>1. pc' = pc \/ pc' = Woken
      BY <2>9 DEF LockCbOther, WakeIfNested
    <3> QED BY <2>9, <3>1, WokenMoves DEF LockCbOther
  <2>10. ASSUME NEW w \in Clients, LockCb(w) PROVE RecordHeld'
    BY <2>10 DEF LockCb
  <2>11. ASSUME NEW w \in Clients, LockCbChain(w) PROVE RecordHeld'
    <3>1. pc' = pc \/ pc' = Woken
      BY <2>11 DEF LockCbChain, WakeIfNested
    <3> QED BY <2>11, <3>1, WokenMoves DEF LockCbChain
  <2> QED BY <1>4, <2>1, <2>2, <2>3, <2>4, <2>5, <2>6, <2>7, <2>8, <2>9, <2>10,
      <2>11
      DEF MonitorStep
<1>5. ASSUME NEW s \in Scans, BlindStep(s) PROVE RecordHeld'
  BY <1>5
     DEF BlindStep, BlindRun, BlindStart, BlindEvent, BlindCallbackReturn,
         BlindCancel, BlindGoto
<1> QED BY <1>1, <1>2, <1>3, <1>4, <1>5 DEF Next, Clients

\* The status of AM_FEND_Lock, when the event's parameters are compared.
LEMMA StatusStep ==
    ASSUME OneLocker, CheckPara, DeviceInv, RecordHeld, StatusStored, Next
    PROVE  StatusStored'
<1>0. /\ TypeOK /\ Lockers \subseteq Clients
      /\ openCount = 0 => \A c \in Clients : pc[c] = "out"
      /\ fpc \in {"call", "chain"} /\ tcb \in Clients => tcb \in Lockers /\ InLock(tcb)
  BY NoUserWhenClosed DEF DeviceInv, RecordHeld, Clients
<1> USE <1>0, ClientsAssumption
    DEF TypeOK, OneLocker, StatusStored, InLock, ClientStates, ToSignal, Goto, Ready,
        Waits,
        devVars, monitorVars, lockVars, scanVars
<1>1. ASSUME NEW c \in Clients, OpenClose(c) PROVE StatusStored'
  <2>1. CASE OpenAgain(c)
    BY <2>1 DEF OpenAgain
  <2>2. CASE OpenFirst(c)
    BY <2>2 DEF OpenFirst
  <2>3. CASE OpenFail(c)
    BY <2>3 DEF OpenFail
  <2>4. CASE Close(c)
    BY <2>4 DEF Close
  <2>5. CASE CloseShared(c)
    BY <2>5 DEF CloseShared
  <2>6. CASE CloseLast(c)
    BY <2>6 DEF CloseLast
  <2>7. CASE CloseJoin(c)
    BY <2>7 DEF CloseJoin
  <2> QED BY <1>1, <2>1, <2>2, <2>3, <2>4, <2>5, <2>6, <2>7 DEF OpenClose
<1>2. ASSUME NEW c \in Lockers, LockerNext(c), ~OpenClose(c) PROVE StatusStored'
  <2> c \in Clients
    BY DEF Clients
  <2>1. CASE LockPrewoken(c)
    <3>1. CASE runCb
      BY <2>1, <3>1 DEF LockPrewoken
    <3>2. CASE ~runCb
      BY <2>1, <3>2 DEF LockPrewoken, LockBegin
    <3> QED BY <3>1, <3>2
  <2>2. CASE LockWoken(c)
    BY <2>2 DEF LockWoken
  <2>3. CASE SetCallback(c)
    BY <2>3 DEF SetCallback
  <2>4. CASE SetCallbackWoken(c)
    BY <2>4 DEF SetCallbackWoken
  <2>5. ASSUME NEW p \in Params, Lock(c, p) PROVE StatusStored'
    BY <2>5 DEF Lock
  <2>6. ASSUME NEW p \in Params, SetPara(c, p) PROVE StatusStored'
    BY <2>6 DEF SetPara
  <2> QED BY <1>2, <2>1, <2>2, <2>3, <2>4, <2>5, <2>6 DEF LockerNext
<1>3. ASSUME NEW c \in Scanners, ScannerNext(c), ~OpenClose(c) PROVE StatusStored'
  <2> c \in Clients
    BY DEF Clients
  <2>1. CASE SetActionCallback(c)
    BY <2>1 DEF SetActionCallback
  <2>2. CASE BlindScan(c)
    BY <2>2 DEF BlindScan
  <2>3. CASE BlindExit(c)
    BY <2>3 DEF BlindExit
  <2>4. CASE BlindExitJoin(c)
    BY <2>4 DEF BlindExitJoin
  <2> QED BY <1>3, <2>1, <2>2, <2>3, <2>4 DEF ScannerNext
<1>4. CASE MonitorStep
  <2>1. CASE MonitorExit
    BY <2>1 DEF MonitorExit
  <2>2. CASE MonitorTimeout
    BY <2>2 DEF MonitorTimeout
  <2>3. CASE MonitorEvent
    BY <2>3 DEF MonitorEvent
  <2>4. CASE MonitorSetRun
    BY <2>4 DEF MonitorSetRun
  <2>5. CASE MonitorRun
    BY <2>5 DEF MonitorRun
  <2>6. CASE CallbackReturn
    <3>1. pc' = pc \/ pc' = Woken
      BY <2>6 DEF CallbackReturn, WakeIfNested
    <3> QED BY <2>6, <3>1, WokenMoves DEF CallbackReturn
  <2>7. CASE MonitorClear
    BY <2>7 DEF MonitorClear
  <2>8. CASE MonitorBroadcast
    <3>1. pc' = pc \/ pc' = Woken
      BY <2>8 DEF MonitorBroadcast, WakeIfNested
    <3> QED BY <2>8, <3>1, WokenMoves DEF MonitorBroadcast
  <2>9. ASSUME NEW w \in Clients, LockCbOther(w) PROVE StatusStored'
    <3>1. pc' = pc \/ pc' = Woken
      BY <2>9 DEF LockCbOther, WakeIfNested
    <3> QED BY <2>9, <3>1, WokenMoves DEF LockCbOther
  <2>10. ASSUME NEW w \in Clients, LockCb(w) PROVE StatusStored'
    BY <2>10 DEF LockCb
  <2>11. ASSUME NEW w \in Clients, LockCbChain(w) PROVE StatusStored'
    <3>1. pc' = pc \/ pc' = Woken
      BY <2>11 DEF LockCbChain, WakeIfNested
    <3> QED BY <2>11, <3>1, WokenMoves DEF LockCbChain
  <2> QED BY <1>4, <2>1, <2>2, <2>3, <2>4, <2>5, <2>6, <2>7, <2>8, <2>9, <2>10,
      <2>11
      DEF MonitorStep
<1>5. ASSUME NEW s \in Scans, BlindStep(s) PROVE StatusStored'
  BY <1>5
     DEF BlindStep, BlindRun, BlindStart, BlindEvent, BlindCallbackReturn,
         BlindCancel, BlindGoto
<1> QED BY <1>1, <1>2, <1>3, <1>4, <1>5 DEF Next, Clients

\* The registered callback is replaced only with FEND_FL_RUN_CB down.
LEMMA SwapStep ==
    ASSUME DeviceInv, Next, cb' # cb
    PROVE  ~runCb
<1>1. \A c \in Clients : Ready(c) => enableThread
  BY OnlyUser DEF DeviceInv, Closing, Ready
<1> QED
  BY <1>1
     DEF Next, LockerNext, ScannerNext, OpenClose, MonitorStep, BlindStep, BlindRun,
         OpenAgain, OpenFirst, OpenFail, Close, CloseShared, CloseLast, CloseJoin,
         Lock, SetPara, LockPrewoken, LockBegin, LockWoken, SetCallback,
         SetCallbackWoken, SetActionCallback, BlindScan, BlindExit, BlindExitJoin,
         MonitorExit, MonitorTimeout, MonitorEvent, MonitorSetRun, MonitorRun,
         CallbackReturn, MonitorClear, MonitorBroadcast, LockCbOther, LockCb,
         LockCbChain, BlindStart, BlindEvent, BlindCallbackReturn, BlindCancel,
         BlindGoto, devVars, Clients

-----------------------------------------------------------------------------
(* The theorems.                                                           *)

LEMMA Stutter ==
    ASSUME UNCHANGED vars
    PROVE  /\ DeviceInv => DeviceInv'
           /\ RecordHeld => RecordHeld'
           /\ StatusStored => StatusStored'
  BY
     DEF vars, devVars, monitorVars, lockVars, scanVars, DeviceInv, TypeOK,
         CountExact, Users, Closing, RunFlag, ScanOwner, Working, RecordHeld, StatusStored,
         InLock

\* The device's invariant is inductive.
THEOREM DeviceCorrect == Spec => []DeviceInv
<1>1. DeviceInv /\ [Next]_vars => DeviceInv'
  BY TypeStep, CountStep, DeviceStep, Stutter DEF DeviceInv
<1> QED BY <1>1, DeviceInit, PTL DEF Spec

\* The types of the state, for every instance.
THEOREM TypeCorrect == Spec => []TypeOK
  BY DeviceCorrect, PTL DEF DeviceInv

\* The blind scan AM_FEND_BlindExit joins works only for a client that has started
\* and not ended it, on an open device, however many scans are started over it.
THEOREM BlindCorrect == Spec => []NoBlindCallbackAfterExit
<1>1. DeviceInv => NoBlindCallbackAfterExit
  BY NoUserWhenClosed DEF DeviceInv, TypeOK, ScanOwner, NoBlindCallbackAfterExit
<1> QED BY <1>1, DeviceCorrect, PTL

\* Nobody replaces the registered callback while one runs.
THEOREM SwapCorrect == Spec => CallbackSwapIsQuiet
<1>1. DeviceInv /\ [Next]_vars => [cb' # cb => ~runCb]_vars
  BY SwapStep
<1> QED BY <1>1, DeviceCorrect, PTL DEF Spec, CallbackSwapIsQuiet

\* With one thread that tunes, the record on its stack is used only while it waits.
THEOREM RecordCorrect ==
    ASSUME OneLocker
    PROVE  Spec => []ContextAlive
<1>1. Init => RecordHeld
  BY ClientsAssumption DEF Init, RecordHeld, InLock, Clients
<1>2. DeviceInv /\ RecordHeld /\ [Next]_vars => RecordHeld'
  BY RecordStep, Stutter
<1>3. RecordHeld => ContextAlive
  BY ClientsAssumption DEF RecordHeld, ContextAlive, Clients
<1> QED BY <1>1, <1>2, <1>3, DeviceCorrect, PTL DEF Spec

\* ... and the status AM_FEND_Lock gives is of its own parameters, on a device that
\* compares them (am_fend.c does, am_vlfend.c does not).
THEOREM StatusCorrect ==
    ASSUME OneLocker, CheckPara
    PROVE  Spec => []LockStatusIsOwn
<1>1. Init => RecordHeld /\ StatusStored
  BY ClientsAssumption DEF Init, RecordHeld, StatusStored, InLock, Clients
<1>2. DeviceInv /\ RecordHeld /\ StatusStored /\ [Next]_vars => (RecordHeld /\ StatusStored)'
  BY RecordStep, StatusStep, Stutter
<1>3. StatusStored => LockStatusIsOwn
  BY DEF StatusStored, LockStatusIsOwn
<1> QED BY <1>1, <1>2, <1>3, DeviceCorrect, PTL DEF Spec
=============================================================================
