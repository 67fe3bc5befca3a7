---------------------------- MODULE AmDmxProofs ----------------------------
(* Proofs about AmDmx: the inductive invariant, the barrier AM_DMX_Sync    *)
(* gives on the hardware driver, the user count, the wake-up, and that the *)
(* device implements CallbackGate, for any number of clients and filters.  *)
EXTENDS AmDmx, FiniteSetTheorems, TLAPS

Users == {c \in Clients : pc[c] # "out"}

\* One more user is counted once.
LEMMA UserEnters ==
    ASSUME TypeOK, NEW c \in Clients, pc[c] = "out",
           NEW s \in ClientStates \ {"out"},
           pc' = [pc EXCEPT ![c] = s]
    PROVE  Cardinality(Users') = Cardinality(Users) + 1
<1>1. IsFiniteSet(Users)
  BY ClientsAssumption, FS_Subset DEF Users
<1>2. c \notin Users /\ Users' = Users \cup {c}
  BY DEF Users, TypeOK
<1> QED BY <1>1, <1>2, FS_AddElement

\* One user less is counted once.
LEMMA UserLeaves ==
    ASSUME TypeOK, NEW c \in Clients, pc[c] # "out",
           pc' = [pc EXCEPT ![c] = "out"]
    PROVE  Cardinality(Users') = Cardinality(Users) - 1
<1>1. IsFiniteSet(Users)
  BY ClientsAssumption, FS_Subset DEF Users
<1>2. c \in Users /\ Users' = Users \ {c}
  BY DEF Users, TypeOK
<1> QED BY <1>1, <1>2, FS_RemoveElement

\* A step that moves a client inside the API keeps the users.
LEMMA UserStays ==
    ASSUME TypeOK, NEW c \in Clients, pc[c] # "out",
           NEW s \in ClientStates \ {"out"},
           pc' = [pc EXCEPT ![c] = s]
    PROVE  Users' = Users
  BY DEF Users, TypeOK

\* Nobody uses a device that is closed.
LEMMA NoUserWhenClosed ==
    ASSUME OpenCountExact, openCount = 0
    PROVE  \A c \in Clients : pc[c] = "out"
<1>1. IsFiniteSet(Users)
  BY ClientsAssumption, FS_Subset DEF Users
<1>2. Users = {}
  BY <1>1, FS_EmptySet DEF OpenCountExact, Users
<1> QED BY <1>2 DEF Users

\* The only user of a device that is open once.
LEMMA OnlyUser ==
    ASSUME OpenCountExact, openCount = 1, NEW c \in Clients, pc[c] # "out"
    PROVE  \A d \in Clients : d # c => pc[d] = "out"
<1>1. IsFiniteSet(Users)
  BY ClientsAssumption, FS_Subset DEF Users
<1>2. PICK x : Users = {x}
  BY <1>1, FS_Singleton DEF OpenCountExact, Users
<1> QED BY <1>2 DEF Users

LEMMA InvInit == Init => Inv
<1> SUFFICES ASSUME Init PROVE Inv
    OBVIOUS
<1>1. Users = {}
  BY DEF Init, Users
<1>2. OpenCountExact
  BY <1>1, FS_EmptySet DEF Init, OpenCountExact, Users
<1>3. TypeOK
  BY ClientsAssumption, NFiltersAssumption
  DEF Init, TypeOK, Fids, NoFid, ThreadStates, ClientStates
<1>4. RunFlag /\ DriverStates /\ Closing /\ EnabledIsUsed /\ ThreadMatchesOpen
  BY ClientsAssumption
  DEF Init, RunFlag, DriverStates, Closing, EnabledIsUsed, ThreadMatchesOpen
<1>5. QuietIsQuiet /\ Handles /\ NoLostWakeup
  BY DEF Init, QuietIsQuiet, Handles, NoLostWakeup, Delivering
<1> QED
  BY <1>2, <1>3, <1>4, <1>5 DEF Init, Inv

-----------------------------------------------------------------------------
(* Opening and closing.                                                    *)

LEMMA InvOpenClose == Inv /\ (\E c \in Clients : OpenClose(c)) => Inv'
<1> SUFFICES ASSUME Inv, NEW c \in Clients, OpenClose(c)
             PROVE  Inv'
    OBVIOUS
<1> USE ClientsAssumption, DriversAssumption
    DEF devVars, filterVars, threadVars, clientVars, ThreadStates, ClientStates
<1>0. TypeOK /\ OpenCountExact
  BY DEF Inv
<1>1. CASE OpenAgain(c)
  <2>1. Cardinality(Users') = Cardinality(Users) + 1
    BY <1>0, <1>1, UserEnters DEF OpenAgain
  <2>2. OpenCountExact'
    BY <1>0, <1>1, <2>1 DEF OpenAgain, OpenCountExact, Users
  <2> QED BY <1>1, <2>2
      DEF OpenAgain, Inv, TypeOK, RunFlag, DriverStates, Closing,
          EnabledIsUsed, QuietIsQuiet, Handles, ThreadMatchesOpen, NoLostWakeup,
          Delivering
<1>2. CASE OpenFirst(c)
  <2>1. Cardinality(Users') = Cardinality(Users) + 1
    BY <1>0, <1>2, UserEnters DEF OpenFirst
  <2>2. openCount = 0 /\ Cardinality(Users) = 0 /\ openCount' = 1
    BY <1>0, <1>2 DEF OpenFirst, OpenCountExact, Users
  <2>3. OpenCountExact'
    BY <2>1, <2>2 DEF OpenCountExact, Users
  <2>4. \A d \in Clients : pc[d] = "out"
    BY <1>0, <2>2, NoUserWhenClosed
  <2>5. TypeOK'
    BY <1>0, <1>2 DEF OpenFirst, TypeOK
  <2>6. (RunFlag /\ DriverStates /\ ThreadMatchesOpen)'
    BY <1>2, <2>2 DEF OpenFirst, RunFlag, DriverStates, ThreadMatchesOpen
  <2>7. (Closing /\ NoLostWakeup)'
    BY <1>0, <1>2, <2>4
    DEF OpenFirst, Closing, NoLostWakeup, TypeOK, Inv
  <2>8. (EnabledIsUsed /\ Handles /\ QuietIsQuiet /\ (tpc = "cb" => tcb # NoClient))'
    BY <1>2
    DEF OpenFirst, EnabledIsUsed, Handles, QuietIsQuiet, Delivering, Inv
  <2> QED BY <2>3, <2>5, <2>6, <2>7, <2>8 DEF Inv
<1>3. CASE OpenFail(c)
  <2>1. tpc = "none" /\ runCb = FALSE
    BY <1>3 DEF OpenFail, Inv, ThreadMatchesOpen, RunFlag, TypeOK
  <2>2. TypeOK'
    BY <1>0, <1>3 DEF OpenFail, TypeOK
  <2>3. UNCHANGED <<openCount, adpLock, runCb>>
    BY <1>3, <2>1 DEF OpenFail
  <2> QED BY <1>3, <2>1, <2>2, <2>3
      DEF OpenFail, Inv, RunFlag, DriverStates, Closing, EnabledIsUsed,
          QuietIsQuiet, Handles, ThreadMatchesOpen, NoLostWakeup, Delivering,
          OpenCountExact
<1>4. CASE Close(c)
  <2>1. Users' = Users
    BY <1>0, <1>4, UserStays DEF Close
  <2>2. OpenCountExact'
    BY <1>0, <1>4, <2>1 DEF Close, OpenCountExact, Users
  <2> QED BY <1>4, <2>2
      DEF Close, Inv, TypeOK, RunFlag, DriverStates, Closing, EnabledIsUsed,
          QuietIsQuiet, Handles, ThreadMatchesOpen, NoLostWakeup, Delivering
<1>5. CASE CloseShared(c)
  <2>1. Cardinality(Users') = Cardinality(Users) - 1
    BY <1>0, <1>5, UserLeaves DEF CloseShared
  <2>2. OpenCountExact'
    BY <1>0, <1>5, <2>1 DEF CloseShared, OpenCountExact, Users
  <2>3. openCount > 1
    BY <1>0, <1>5, NoUserWhenClosed DEF CloseShared, TypeOK
  <2>4. TypeOK'
    BY <1>0, <1>5, <2>3 DEF CloseShared, TypeOK
  <2>5. (Closing /\ ThreadMatchesOpen)'
    BY <1>0, <1>5, <2>3 DEF CloseShared, Closing, ThreadMatchesOpen, Inv, TypeOK
  <2>6. (Handles /\ NoLostWakeup)'
    BY <1>0, <1>5 DEF CloseShared, Handles, NoLostWakeup, Inv, TypeOK
  <2> QED BY <1>5, <2>2, <2>4, <2>5, <2>6
      DEF CloseShared, Inv, RunFlag, DriverStates, EnabledIsUsed, QuietIsQuiet,
          Delivering
<1>6. CASE CloseLast(c)
  <2>1. Users' = Users
    BY <1>0, <1>6, UserStays DEF CloseLast
  <2>2. OpenCountExact'
    BY <1>0, <1>6, <2>1 DEF CloseLast, OpenCountExact, Users
  <2>3. TypeOK'
    BY <1>0, <1>6 DEF CloseLast, TypeOK
  <2>4. (Closing /\ ThreadMatchesOpen)'
    BY <1>0, <1>6 DEF CloseLast, Closing, ThreadMatchesOpen, Inv, TypeOK
  <2>5. (Handles /\ NoLostWakeup)'
    BY <1>0, <1>6 DEF CloseLast, Handles, NoLostWakeup, Inv, TypeOK
  <2> QED BY <1>6, <2>2, <2>3, <2>4, <2>5
      DEF CloseLast, Inv, RunFlag, DriverStates, EnabledIsUsed, QuietIsQuiet,
          Delivering
<1>7. CASE CloseJoin(c)
  <2>1. Cardinality(Users') = Cardinality(Users) - 1
    BY <1>0, <1>7, UserLeaves DEF CloseJoin
  <2>2. OpenCountExact'
    BY <1>0, <1>7, <2>1 DEF CloseJoin, OpenCountExact, Users
  <2>3. openCount = 1 /\ \A d \in Clients : d # c => pc[d] = "out"
    <3>1. openCount = 1 /\ pc[c] = "join"
      BY <1>7 DEF CloseJoin, Inv, Closing
    <3> QED BY <1>0, <3>1, OnlyUser DEF OpenCountExact
  <2>4. /\ used' \in [Fids -> BOOLEAN]
        /\ enable' = [f \in Fids |-> FALSE]
    BY <1>7 DEF CloseJoin, FreeAll, Inv, TypeOK
  <2> QED BY <1>7, <2>2, <2>3, <2>4
      DEF CloseJoin, Inv, TypeOK, RunFlag, DriverStates, Closing,
          EnabledIsUsed, QuietIsQuiet, Handles, ThreadMatchesOpen, NoLostWakeup,
          Delivering
<1> QED BY <1>1, <1>2, <1>3, <1>4, <1>5, <1>6, <1>7 DEF OpenClose

-----------------------------------------------------------------------------
(* The API of an open device.                                              *)

\* The operations on filters move no client and no thread.
LEMMA InvFilterOps ==
    ASSUME Inv, NEW c \in Clients,
           \/ AllocateFilter(c) \/ SetCallback(c) \/ SetFilter(c)
           \/ StartFilter(c) \/ StopFilter(c) \/ FreeFilter(c)
    PROVE  Inv'
<1> USE ClientsAssumption DEF Ready, ReadyFilter
<1>1. UNCHANGED <<devVars, threadVars, pc>>
  BY DEF AllocateFilter, SetCallback, SetFilter, StartFilter, StopFilter,
         FreeFilter, filterVars, clientVars
<1>2. (RunFlag /\ DriverStates /\ Closing /\ OpenCountExact /\ NoLostWakeup
       /\ (tpc = "cb" => tcb # NoClient))'
  BY <1>1 DEF Inv, RunFlag, DriverStates, Closing, OpenCountExact, NoLostWakeup,
              devVars, threadVars
<1>3. openCount > 0
  BY DEF AllocateFilter, SetCallback, SetFilter, StartFilter, StopFilter,
         FreeFilter
<1>4. ThreadMatchesOpen'
  BY <1>1, <1>3 DEF Inv, TypeOK, ThreadMatchesOpen, devVars, threadVars
<1>5. (TypeOK /\ EnabledIsUsed /\ Handles /\ QuietIsQuiet)'
  <2> USE DEF Inv, TypeOK, EnabledIsUsed, Handles, QuietIsQuiet, Delivering, devVars,
              threadVars, clientVars
  <2>1. CASE AllocateFilter(c)
    BY <2>1 DEF AllocateFilter
  <2>2. CASE SetCallback(c)
    <3>1. PICK v \in {c, NoClient} :
            /\ cb' = [cb EXCEPT ![hnd[c]] = v]
            /\ quiet' = [quiet EXCEPT ![c] = quiet[c] /\ ~(v = c /\ enable[hnd[c]])]
      BY <2>2 DEF SetCallback
    <3>2. /\ hnd[c] \in Fids
          /\ UNCHANGED <<used, enable, chan, tpc, tcb>>
      BY <2>2 DEF SetCallback, NoFid
    <3>3. TypeOK' /\ EnabledIsUsed' /\ Handles'
      BY <2>2, <3>1, <3>2 DEF SetCallback
    <3>4. ASSUME NEW d \in Clients, quiet'[d]
          PROVE  ~Delivering(d)' /\ ~(tpc' = "cb" /\ tcb' = d)
      <4>1. quiet[d] /\ ~Delivering(d) /\ ~(tpc = "cb" /\ tcb = d)
        BY <3>1, <3>4
      <4>2. ASSUME NEW f \in Fids, used[f], enable[f], cb'[f] = d
            PROVE  FALSE
        BY <3>1, <3>2, <3>4, <4>1, <4>2
      <4> QED BY <3>2, <4>1, <4>2
    <3> QED BY <3>3, <3>4
  <2>3. CASE SetFilter(c)
    BY <2>3 DEF SetFilter
  <2>4. CASE StartFilter(c)
    BY <2>4 DEF StartFilter
  <2>5. CASE StopFilter(c)
    BY <2>5 DEF StopFilter
  <2>6. CASE FreeFilter(c)
    <3>1. PICK bad \in SUBSET (MayFailStop \cap {hnd[c]}) :
            FreeAll({hnd[c]}, bad)
      BY <2>6 DEF FreeFilter
    <3> QED BY <2>6, <3>1 DEF FreeFilter, FreeAll
  <2> QED BY <2>1, <2>2, <2>3, <2>4, <2>5, <2>6
<1> QED BY <1>2, <1>4, <1>5 DEF Inv

\* SetSource and Sync move the client and may shut its gate.
LEMMA InvWaitOps ==
    ASSUME Inv, NEW c \in Clients,
           SetSource(c) \/ SetSourceDone(c) \/ Sync(c) \/ SyncWoken(c)
    PROVE  Inv'
<1> USE ClientsAssumption DEF Ready
<1>1. UNCHANGED <<devVars, filterVars, threadVars, hnd>>
  BY DEF SetSource, SetSourceDone, Sync, SyncWoken
<1>2. \E s \in {"setsource", "idle", "syncwait"} :
        /\ pc[c] \notin {"out", "join"}
        /\ pc' = [pc EXCEPT ![c] = s]
        /\ s = "syncwait" => runCb
  <2>1. CASE SetSource(c)
    BY <2>1 DEF SetSource
  <2>2. CASE SetSourceDone(c)
    BY <2>2 DEF SetSourceDone
  <2>3. CASE Sync(c)
    <3>1. CASE runCb
      BY <2>3, <3>1 DEF Sync
    <3>2. CASE ~runCb
      <4>1. pc' = [pc EXCEPT ![c] = "idle"]
        BY <2>3, <3>2 DEF Sync, Inv, TypeOK
      <4> QED BY <2>3, <4>1 DEF Sync
    <3> QED BY <3>1, <3>2
  <2>4. CASE SyncWoken(c)
    BY <2>4 DEF SyncWoken
  <2> QED BY <2>1, <2>2, <2>3, <2>4
<1>3. Users' = Users
  BY <1>2, UserStays DEF Inv, ClientStates
<1>4. OpenCountExact'
  BY <1>1, <1>3 DEF Inv, OpenCountExact, Users, devVars
<1>5. quiet' = quiet \/ (~runCb /\ quiet' = [quiet EXCEPT ![c] = ~Delivering(c)])
  BY DEF SetSource, SetSourceDone, Sync, SyncWoken
<1>6. QuietIsQuiet'
  BY <1>1, <1>5 DEF Inv, TypeOK, RunFlag, QuietIsQuiet, Delivering, filterVars,
                    threadVars
<1>7. TypeOK'
  BY <1>1, <1>2, <1>5 DEF Inv, TypeOK, ClientStates, devVars, filterVars,
                          threadVars
<1>8. (Closing /\ Handles /\ NoLostWakeup)'
  BY <1>1, <1>2
  DEF Inv, TypeOK, Closing, Handles, NoLostWakeup, devVars, filterVars, threadVars
<1> QED
  BY <1>1, <1>4, <1>6, <1>7, <1>8
  DEF Inv, RunFlag, DriverStates, EnabledIsUsed, ThreadMatchesOpen, devVars,
      filterVars, threadVars

LEMMA InvApi == Inv /\ (\E c \in Clients : Api(c)) => Inv'
  BY InvFilterOps, InvWaitOps DEF Api

-----------------------------------------------------------------------------
(* The data thread.                                                        *)

\* The broadcast only moves waiting clients on.
LEMMA InvBroadcast == Inv /\ ThreadBroadcast => Inv'
<1> SUFFICES ASSUME Inv, ThreadBroadcast PROVE Inv'
    OBVIOUS
<1>1. Users' = Users
  BY DEF ThreadBroadcast, Users
<1>2. OpenCountExact'
  BY <1>1 DEF ThreadBroadcast, Inv, OpenCountExact, Users, devVars
<1>3. TypeOK'
  BY DEF ThreadBroadcast, Inv, TypeOK, ClientStates, ThreadStates, devVars,
         filterVars
<1> QED
  BY <1>2, <1>3
  DEF ThreadBroadcast, Inv, RunFlag, DriverStates, Closing, EnabledIsUsed,
      QuietIsQuiet, Handles, ThreadMatchesOpen, NoLostWakeup, Delivering, devVars,
      filterVars

\* Every other step of the thread leaves the clients and the filters alone.
LEMMA InvThread == Inv /\ Thread => Inv'
<1> SUFFICES ASSUME Inv, Thread PROVE Inv'
    OBVIOUS
<1> USE ClientsAssumption
    DEF Inv, TypeOK, RunFlag, DriverStates, Closing, EnabledIsUsed,
        QuietIsQuiet, Handles, ThreadMatchesOpen, OpenCountExact, NoLostWakeup,
        Delivering, devVars, filterVars, clientVars, ThreadStates
<1>1. CASE ThreadPoll
  BY <1>1 DEF ThreadPoll
<1>2. CASE ThreadExit
  BY <1>2 DEF ThreadExit
<1>3. CASE ThreadSetRun
  BY <1>3 DEF ThreadSetRun
<1>4. CASE ThreadCheck
  BY <1>4 DEF ThreadCheck
<1>5. CASE ThreadRead
  <2>1. PICK f \in Fids :
          /\ mask' = mask \ {f}
          /\ \/ /\ enable[f] /\ used[f]
                /\ tcb' = cb[f]
                /\ tpc' = IF cb[f] = NoClient THEN "check" ELSE "cb"
             \/ /\ tpc' = "check"
                /\ UNCHANGED tcb
    BY <1>5 DEF ThreadRead
  <2> QED BY <1>5, <2>1 DEF ThreadRead
<1>6. CASE ThreadReturn
  BY <1>6 DEF ThreadReturn
<1>7. CASE ThreadClear
  BY <1>7 DEF ThreadClear
<1>8. CASE ThreadBroadcast
  BY <1>8, InvBroadcast
<1>9. CASE SwPoll
  BY <1>9 DEF SwPoll
<1>10. CASE SwDeliver
  BY <1>10 DEF SwDeliver
<1>11. CASE SwReturn
  BY <1>11 DEF SwReturn
<1>12. CASE SwPollDone
  BY <1>12 DEF SwPollDone
<1> QED BY <1>1, <1>2, <1>3, <1>4, <1>5, <1>6, <1>7, <1>8, <1>9, <1>10, <1>11,
           <1>12 DEF Thread, ThreadStep

-----------------------------------------------------------------------------
(* The theorems.                                                           *)

LEMMA InvStutter == Inv /\ UNCHANGED vars => Inv'
  BY DEF vars, devVars, filterVars, threadVars, clientVars, Inv, TypeOK, RunFlag,
         DriverStates, Closing, EnabledIsUsed, QuietIsQuiet, Handles, ThreadMatchesOpen,
         OpenCountExact, NoLostWakeup, Delivering

\* The strengthening is inductive.
THEOREM InvCorrect == Spec => []Inv
<1>1. Inv /\ [Next]_vars => Inv'
  BY InvOpenClose, InvApi, InvThread, InvStutter DEF Next
<1> QED BY <1>1, InvInit, PTL DEF Spec

\* The types of the state, for every instance.
THEOREM TypeCorrect == Spec => []TypeOK
  BY InvCorrect, PTL DEF Inv

\* After AM_DMX_Sync has returned to a client that had stopped or freed its
\* filters, no callback of the client runs, on a device of the hardware driver.
THEOREM SyncCorrect == Spec => []HwSyncIsBarrier
<1>1. Inv => HwSyncIsBarrier
  BY DEF Inv, DriverStates, QuietIsQuiet, HwSyncIsBarrier, SyncIsBarrier,
         InCallback
<1> QED BY <1>1, InvCorrect, PTL

\* open_count is the number of clients that use the device.
THEOREM CountCorrect == Spec => []OpenCountExact
  BY InvCorrect, PTL DEF Inv

\* There is a data thread exactly while the device is open, and a closed device
\* runs no filter.
THEOREM ThreadCorrect == Spec => []ThreadMatchesOpen
  BY InvCorrect, PTL DEF Inv

\* No client sleeps in AM_DMX_Sync with nobody left to wake it.
THEOREM WakeupCorrect == Spec => []NoLostWakeup
  BY InvCorrect, PTL DEF Inv

----------------------------------------------------------------------------
(* AmDmx implements CallbackGate: whatever clients and the data thread of  *)
(* a device do, what its clients see of their callbacks is a behaviour of  *)
(* the gate.                                                               *)

\* A step that leaves the filters and the history alone moves no gate.
LEMMA GatesStay ==
    ASSUME UNCHANGED <<used, enable, cb, quiet>>
    PROVE  UNCHANGED [c \in Clients |-> GateOf(c)]
  BY DEF GateOf, Delivering

\* Such a step is one of the gate's, if it starts no callback.
LEMMA GateStutter ==
    ASSUME UNCHANGED <<used, enable, cb, quiet>>, Running' = Running
    PROVE  UNCHANGED Gate!gateVars
  BY GatesStay DEF Gate!gateVars

\* What one client may do to its own gate.
Moves(c) ==
    \/ GateOf(c)' = GateOf(c)
    \/ GateOf(c)' = "open"
    \/ GateOf(c) = "open" /\ GateOf(c)' = "closing"
    \/ GateOf(c) = "closing" /\ GateOf(c)' = "shut" /\ Running # c

LEMMA GateMove ==
    ASSUME NEW c \in Clients, UNCHANGED <<tpc, tcb>>,
           \A d \in Clients \ {c} : GateOf(d)' = GateOf(d),
           Moves(c)
    PROVE  [Gate!GateNext]_(Gate!gateVars)
<1> DEFINE g == [d \in Clients |-> GateOf(d)]
<1>1. Running' = Running
  BY DEF Running
<1>2. g' = [g EXCEPT ![c] = GateOf(c)']
  OBVIOUS
<1>3. CASE GateOf(c)' = GateOf(c)
  BY <1>1, <1>2, <1>3 DEF Gate!gateVars
<1>4. CASE GateOf(c)' = "open"
  BY <1>1, <1>2, <1>4 DEF Gate!GateNext, Gate!Start
<1>5. CASE GateOf(c) = "open" /\ GateOf(c)' = "closing"
  <2>1. Gate!Stop({c})
    BY <1>1, <1>2, <1>5 DEF Gate!Stop
  <2> QED BY <2>1 DEF Gate!GateNext
<1>6. CASE GateOf(c) = "closing" /\ GateOf(c)' = "shut" /\ Running # c
  BY <1>1, <1>2, <1>6 DEF Gate!GateNext, Gate!Barrier
<1> QED BY <1>3, <1>4, <1>5, <1>6 DEF Moves

LEMMA GateStart == Init => Gate!GateInit
  BY DEF Init, Gate!GateInit, GateOf, Running

\* The operations on filters.  A filter that runs leads to the client that
\* holds it, so no other client's gate moves.
LEMMA GateFilterOps ==
    ASSUME Inv, NEW c \in Clients,
           \/ AllocateFilter(c) \/ SetCallback(c) \/ SetFilter(c)
           \/ StartFilter(c) \/ StopFilter(c) \/ FreeFilter(c)
    PROVE  [Gate!GateNext]_(Gate!gateVars)
<1> USE DEF Inv, TypeOK, EnabledIsUsed, Handles, GateOf, Delivering, Moves,
            Ready, ReadyFilter
<1>1. CASE AllocateFilter(c)
  <2>1. \A d \in Clients : Delivering(d)' = Delivering(d)
    BY <1>1 DEF AllocateFilter
  <2>2. \A d \in Clients : GateOf(d)' = GateOf(d)
    BY <1>1, <2>1 DEF AllocateFilter
  <2> QED BY <1>1, <2>2, GateMove DEF AllocateFilter, threadVars
<1>2. CASE SetCallback(c)
  <2>1. PICK v \in {c, NoClient} :
          /\ cb' = [cb EXCEPT ![hnd[c]] = v]
          /\ quiet' = [quiet EXCEPT ![c] = quiet[c] /\ ~(v = c /\ enable[hnd[c]])]
    BY <1>2 DEF SetCallback
  <2>2. hnd[c] \in Fids /\ used[hnd[c]] /\ UNCHANGED <<used, enable, tpc, tcb>>
    BY <1>2 DEF SetCallback, threadVars, NoFid
  <2>3. \A d \in Clients \ {c} : Delivering(d)' = Delivering(d)
    BY <1>2, <2>1, <2>2, ClientsAssumption DEF SetCallback
  <2>4. \A d \in Clients \ {c} : GateOf(d)' = GateOf(d)
    BY <2>1, <2>3
  <2>5. quiet'[c] = (quiet[c] /\ ~(v = c /\ enable[hnd[c]]))
    BY <2>1
  <2>6. v = c /\ enable[hnd[c]] => Delivering(c)'
    BY <2>1, <2>2
  <2>7. Moves(c)
    BY <2>5, <2>6
  <2> QED BY <2>2, <2>4, <2>7, GateMove
<1>3. CASE SetFilter(c)
  <2>1. \A d \in Clients \ {c} : GateOf(d)' = GateOf(d)
    BY <1>3, ClientsAssumption DEF SetFilter, clientVars
  <2>2. Moves(c)
    BY <1>3 DEF SetFilter, clientVars
  <2> QED BY <1>3, <2>1, <2>2, GateMove DEF SetFilter, threadVars
<1>4. CASE StartFilter(c)
  <2>1. \A d \in Clients \ {c} : GateOf(d)' = GateOf(d)
    BY <1>4, ClientsAssumption DEF StartFilter
  <2>2. Moves(c)
    BY <1>4 DEF StartFilter
  <2> QED BY <1>4, <2>1, <2>2, GateMove DEF StartFilter, threadVars
<1>5. CASE StopFilter(c)
  <2>1. \A d \in Clients \ {c} : GateOf(d)' = GateOf(d)
    BY <1>5, ClientsAssumption DEF StopFilter, clientVars
  <2>2. Moves(c)
    BY <1>5 DEF StopFilter, clientVars
  <2> QED BY <1>5, <2>1, <2>2, GateMove DEF StopFilter, threadVars
<1>6. CASE FreeFilter(c)
  <2>1. PICK bad \in SUBSET (MayFailStop \cap {hnd[c]}) : FreeAll({hnd[c]}, bad)
    BY <1>6 DEF FreeFilter
  <2>2. \A d \in Clients \ {c} : GateOf(d)' = GateOf(d)
    BY <1>6, <2>1, ClientsAssumption DEF FreeFilter, FreeAll
  <2>3. Moves(c)
    BY <1>6, <2>1 DEF FreeFilter, FreeAll
  <2> QED BY <1>6, <2>2, <2>3, GateMove DEF FreeFilter, threadVars
<1> QED BY <1>1, <1>2, <1>3, <1>4, <1>5, <1>6

\* The barrier: Sync passes only while no round of callbacks runs.
LEMMA GateWaitOps ==
    ASSUME Inv, NEW c \in Clients,
           SetSource(c) \/ SetSourceDone(c) \/ Sync(c) \/ SyncWoken(c)
    PROVE  [Gate!GateNext]_(Gate!gateVars)
<1>1. UNCHANGED <<used, enable, cb, tpc, tcb>>
  BY DEF SetSource, SetSourceDone, Sync, SyncWoken, filterVars, threadVars
<1>2. quiet' = quiet \/ (~runCb /\ quiet' = [quiet EXCEPT ![c] = ~Delivering(c)])
  BY DEF SetSource, SetSourceDone, Sync, SyncWoken
<1>3. CASE quiet' = quiet
  <2>1. Running' = Running
    BY <1>1 DEF Running
  <2> QED BY <1>1, <1>3, <2>1, GateStutter
<1>4. CASE ~runCb /\ quiet' = [quiet EXCEPT ![c] = ~Delivering(c)]
  <2>1. \A d \in Clients : Delivering(d)' = Delivering(d)
    BY <1>1 DEF Delivering
  <2>2. \A d \in Clients \ {c} : GateOf(d)' = GateOf(d)
    BY <1>4, <2>1 DEF GateOf, Inv, TypeOK
  <2>3. Running = NoClient
    BY <1>4 DEF Inv, RunFlag, Running
  <2>4. quiet'[c] = ~Delivering(c)
    BY <1>4 DEF Inv, TypeOK
  <2>5. Moves(c)
    BY <2>1, <2>3, <2>4, ClientsAssumption DEF Moves, GateOf, Inv, QuietIsQuiet
  <2> QED BY <1>1, <2>2, <2>5, GateMove
<1> QED BY <1>2, <1>3, <1>4

\* The last close stops everybody's filters at once.
LEMMA GateOpenClose ==
    ASSUME Inv, NEW c \in Clients, OpenClose(c)
    PROVE  [Gate!GateNext]_(Gate!gateVars)
<1>1. CASE OpenFirst(c)
  <2>1. tpc = "none"
    BY <1>1 DEF OpenFirst, Inv, ThreadMatchesOpen
  <2>2. Running' = Running
    BY <1>1, <2>1 DEF OpenFirst, Running
  <2> QED BY <1>1, <2>2, GateStutter DEF OpenFirst
<1>2. CASE CloseJoin(c)
  <2> DEFINE S == {d \in Clients : GateOf(d) = "open"}
  <2>1. PICK bad \in SUBSET MayFailStop : FreeAll(Fids, bad)
    BY <1>2 DEF CloseJoin
  <2>2. \A d \in Clients : ~Delivering(d)' /\ quiet'[d] = quiet[d]
    BY <1>2, <2>1 DEF CloseJoin, FreeAll, Delivering, Inv, TypeOK
  <2>3. \A d \in Clients : GateOf(d)' = IF d \in S THEN "closing" ELSE GateOf(d)
    BY <2>2 DEF GateOf
  <2>4. Running' = Running
    BY <1>2 DEF CloseJoin, Running
  <2>5. Gate!Stop(S)
    BY <2>3, <2>4 DEF Gate!Stop
  <2> QED BY <2>5 DEF Gate!GateNext
<1>3. CASE OpenAgain(c) \/ OpenFail(c) \/ Close(c) \/ CloseShared(c) \/ CloseLast(c)
  <2>1. UNCHANGED <<used, enable, cb, quiet, tpc, tcb>>
    BY <1>3 DEF OpenAgain, OpenFail, Close, CloseShared, CloseLast, filterVars,
                threadVars, clientVars
  <2>2. Running' = Running
    BY <2>1 DEF Running
  <2> QED BY <2>1, <2>2, GateStutter
<1> QED BY <1>1, <1>2, <1>3 DEF OpenClose

\* The data thread moves no gate: it runs a callback of an open or closing one.
LEMMA GateThread ==
    ASSUME Inv, Thread
    PROVE  [Gate!GateNext]_(Gate!gateVars)
<1>1. UNCHANGED <<used, enable, cb, quiet>>
  BY DEF Thread, ThreadStep, ThreadPoll, ThreadExit, ThreadSetRun, ThreadCheck,
         ThreadRead, ThreadReturn, ThreadClear, ThreadBroadcast, SwPoll,
         SwDeliver, SwReturn, SwPollDone, filterVars, clientVars
<1>2. UNCHANGED [d \in Clients |-> GateOf(d)]
  BY <1>1, GatesStay
<1>3. CASE ThreadRead
  <2>1. Running = NoClient
    BY <1>3 DEF ThreadRead, Running
  <2>2. CASE tpc' # "cb"
    BY <1>1, <2>1, <2>2, GateStutter DEF Running
  <2>3. CASE tpc' = "cb"
    <3>1. PICK f \in Fids : /\ used[f] /\ enable[f] /\ cb[f] # NoClient
                            /\ tcb' = cb[f]
      BY <1>3, <2>3 DEF ThreadRead
    <3>2. cb[f] \in Clients /\ Delivering(cb[f]) /\ Running' = cb[f]
      BY <2>3, <3>1 DEF Delivering, Running, Inv, TypeOK
    <3>3. GateOf(cb[f]) # "shut"
      BY <3>2 DEF GateOf, Inv, QuietIsQuiet
    <3>4. Gate!Run(cb[f])
      BY <1>2, <2>1, <3>2, <3>3 DEF Gate!Run
    <3> QED BY <3>2, <3>4 DEF Gate!GateNext
  <2> QED BY <2>2, <2>3
<1>4. CASE ThreadReturn
  <2>1. Running # NoClient /\ Running' = NoClient
    BY <1>4 DEF ThreadReturn, Running, Inv
  <2>2. Gate!Return
    BY <1>2, <2>1 DEF Gate!Return
  <2> QED BY <2>2 DEF Gate!GateNext
<1>5. CASE ~ThreadRead /\ ~ThreadReturn
  <2>1. Running = NoClient /\ Running' = NoClient
    BY <1>5 DEF Thread, ThreadStep, ThreadPoll, ThreadExit, ThreadSetRun,
           ThreadCheck, ThreadClear, ThreadBroadcast, SwPoll, SwDeliver,
           SwReturn, SwPollDone, Running
  <2> QED BY <1>1, <2>1, GateStutter
<1> QED BY <1>3, <1>4, <1>5

\* The demux device implements the callback gate: with the hardware driver, a
\* client that has stopped or freed its filters and passed AM_DMX_Sync sees no
\* callback until it starts one again, and callbacks run one at a time.
THEOREM GateCorrect == Spec => GateSpec
<1>1. Inv /\ [Next]_vars => [Gate!GateNext]_(Gate!gateVars)
  <2> SUFFICES ASSUME Inv, [Next]_vars PROVE [Gate!GateNext]_(Gate!gateVars)
      OBVIOUS
  <2>1. CASE UNCHANGED vars
    <3>1. UNCHANGED <<used, enable, cb, quiet>> /\ Running' = Running
      BY <2>1 DEF vars, filterVars, threadVars, clientVars, Running
    <3> QED BY <3>1, GateStutter
  <2>2. CASE \E c \in Clients : OpenClose(c)
    BY <2>2, GateOpenClose
  <2>3. CASE \E c \in Clients : Api(c)
    BY <2>3, GateFilterOps, GateWaitOps DEF Api
  <2>4. CASE Thread
    BY <2>4, GateThread
  <2> QED BY <2>1, <2>2, <2>3, <2>4 DEF Next
<1>2. GateSpec <=> Gate!GateSpec
  BY DEF GateSpec
<1> QED BY <1>1, <1>2, GateStart, InvCorrect, PTL DEF Spec, Gate!GateSpec
=============================================================================
