---------------------------- MODULE AmEvtProofs ----------------------------
(* Proofs of the safety properties of AmEvt, for any set of monitors, any  *)
(* set of device threads and any assignment of callbacks to monitors.      *)
EXTENDS AmEvt, TLAPS

\* The table starts empty and every monitor dead.
LEMMA InvInit == Init => Inv
  BY ThreadAssumption, NodeAssumption
  DEF Init, Inv, TypeOK, WalkInTable, TableOfLiveObjects, LockOwners, Threads,
      MonitorStates

\* The node a monitor inserts and removes is a well-formed registration.
LEMMA NodeOfType == \A m \in Monitors : NodeOf(m) \in Node /\ NodeOf(m).data = m
  BY CallbackAssumption DEF NodeOf, Node

LEMMA InvMonitor == Inv /\ (\E m \in Monitors : MonitorNext(m)) => Inv'
<1> SUFFICES ASSUME Inv, NEW m \in Monitors, MonitorNext(m)
             PROVE  Inv'
    OBVIOUS
<1> USE ThreadAssumption, NodeAssumption, NodeOfType
    DEF Inv, TypeOK, WalkInTable, TableOfLiveObjects, LockOwners, Threads,
        MonitorStates, Node
<1>1. CASE Create(m)
  BY <1>1 DEF Create
<1>2. CASE SubscribeCheck(m)
  BY <1>2 DEF SubscribeCheck
<1>3. CASE SubscribeInsert(m)
  BY <1>3 DEF SubscribeInsert, NodeOf
<1>4. CASE SubscribeNoMem(m)
  BY <1>4 DEF SubscribeNoMem
<1>5. CASE MonitorLock(m)
  BY <1>5 DEF MonitorLock
<1>6. CASE MonitorWait(m)
  BY <1>6 DEF MonitorWait
<1>7. CASE MonitorSignal(m)
  BY <1>7 DEF MonitorSignal
<1>8. CASE MonitorSignalDone(m)
  BY <1>8 DEF MonitorSignalDone
<1>9. CASE MonitorRelock(m)
  BY <1>9 DEF MonitorRelock
<1>10. CASE MonitorQuit(m)
  BY <1>10 DEF MonitorQuit
<1>11. CASE Unsubscribe(m)
  BY <1>11 DEF Unsubscribe, NodeOf
<1>12. CASE Destroy(m)
  BY <1>12 DEF Destroy
<1> QED BY <1>1, <1>2, <1>3, <1>4, <1>5, <1>6, <1>7, <1>8, <1>9, <1>10, <1>11, <1>12
        DEF MonitorNext

LEMMA InvDevice == Inv /\ (\E d \in Devices : DeviceNext(d)) => Inv'
<1> SUFFICES ASSUME Inv, NEW d \in Devices, DeviceNext(d)
             PROVE  Inv'
    OBVIOUS
<1> USE ThreadAssumption, NodeAssumption
    DEF Inv, TypeOK, WalkInTable, TableOfLiveObjects, LockOwners, Threads,
        MonitorStates, Node
<1>1. CASE Signal(d)
  BY <1>1 DEF Signal
<1>2. CASE SignalCall(d)
  BY <1>2 DEF SignalCall
<1>3. CASE CallbackLock(d)
  BY <1>3 DEF CallbackLock
<1>4. CASE CallbackReturn(d)
  BY <1>4 DEF CallbackReturn
<1>5. CASE SignalDone(d)
  BY <1>5 DEF SignalDone
<1> QED BY <1>1, <1>2, <1>3, <1>4, <1>5 DEF DeviceNext

\* The strengthening is inductive.
THEOREM InvCorrect == Spec => []Inv
<1>1. Init => Inv
  BY InvInit
<1>2. Inv /\ [Next]_vars => Inv'
  <2> SUFFICES ASSUME Inv, [Next]_vars
               PROVE  Inv'
      OBVIOUS
  <2>1. CASE \E m \in Monitors : MonitorNext(m)
    BY <2>1, InvMonitor
  <2>2. CASE \E d \in Devices : DeviceNext(d)
    BY <2>2, InvDevice
  <2>3. CASE UNCHANGED vars
    BY <2>3 DEF vars, Inv, TypeOK, WalkInTable, TableOfLiveObjects, LockOwners
  <2> QED BY <2>1, <2>2, <2>3 DEF Next
<1> QED BY <1>1, <1>2, PTL DEF Spec

\* The types of the state: the table holds registrations, the lock its readers.
THEOREM TypeCorrect == Spec => []TypeOK
  BY InvCorrect, PTL DEF Inv

\* Once AM_EVT_Unsubscribe has returned, no AM_EVT_Signal of any thread is in a
\* callback of the registration, so the monitor may destroy its lock.
THEOREM CallbackSafe == Spec => []CallbackOnLiveObject
<1>1. Inv => CallbackOnLiveObject
  BY DEF Inv, WalkInTable, TableOfLiveObjects, CallbackOnLiveObject
<1> QED BY <1>1, InvCorrect, PTL

\* pthread_mutex_destroy is never called on a mutex somebody holds.
THEOREM LockSafe == Spec => []DestroyedLockIsFree
<1>1. Inv => DestroyedLockIsFree
  <2> SUFFICES ASSUME Inv, NEW m \in Monitors, mpc[m] \in {"dead", "destroy"}
               PROVE  mlock[m] = NoThread
      BY DEF DestroyedLockIsFree
  <2>1. mlock[m] \in {m, NoThread} \cup Devices
    BY DEF Inv, LockOwners
  <2>2. mlock[m] # m
    BY DEF Inv, LockOwners
  <2>3. ASSUME NEW d \in Devices, mlock[m] = d PROVE FALSE
    BY <2>3, CallbackAssumption
    DEF Inv, LockOwners, WalkInTable, TableOfLiveObjects
  <2> QED BY <2>1, <2>2, <2>3
<1> QED BY <1>1, InvCorrect, PTL
=============================================================================
