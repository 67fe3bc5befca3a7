---------------------------- MODULE AmEpgProofs ----------------------------
(* Proofs of the safety properties of AmEpg, for any tables, any number of *)
(* filters and any number of application threads.                          *)
EXTENDS AmEpg, SequenceTheorems, TLAPS

\* The lists of tasks are made from the orders of the source.
LEMMA TasksType ==
    ASSUME NEW op \in {"done", "mode"}, NEW order \in {DoneOrder, ModeOrder}
    PROVE  /\ TasksOf(op, order) \in Seq(Tasks)
           /\ Len(TasksOf(op, order)) = Len(order)
           /\ \A i \in 1 .. Len(order) :
                TasksOf(op, order)[i] = [op |-> op, table |-> order[i]]
<1>1. order \in Seq(Tables)
  BY OrderAssumption
<1> QED BY <1>1 DEF TasksOf, Tasks

\* A list of tasks has one for every table.
LEMMA TasksCover ==
    ASSUME NEW op \in {"done", "mode"}, NEW order \in {DoneOrder, ModeOrder},
           NEW tasks, tasks = TasksOf(op, order)
    PROVE  /\ \A t \in Tables : \E i \in 1 .. Len(tasks) : tasks[i].table = t
           /\ \A i \in 1 .. Len(tasks) : tasks[i].op = op
<1>1. /\ Len(tasks) = Len(order)
      /\ \A i \in 1 .. Len(order) : tasks[i] = [op |-> op, table |-> order[i]]
  BY TasksType
<1>2. ASSUME NEW i \in 1 .. Len(tasks)
      PROVE  tasks[i].op = op /\ tasks[i].table = order[i]
  <2>1. i \in 1 .. Len(order)
    BY <1>1, <1>2
  <2>2. tasks[i] = [op |-> op, table |-> order[i]]
    BY <1>1, <2>1
  <2> QED BY <2>2
<1>3. ASSUME NEW t \in Tables
      PROVE  \E i \in 1 .. Len(tasks) : tasks[i].table = t
  <2>1. \E i \in 1 .. Len(order) : order[i] = t
    BY OrderAssumption
  <2> QED BY <1>1, <1>2, <2>1
<1> QED BY <1>2, <1>3

\* A batch is a list of tasks, whether it holds a mode change or not.
LEMMA BatchType ==
    TasksOf("done", DoneOrder) \o
        (IF "setmode" \in evt THEN TasksOf("mode", ModeOrder) ELSE <<>>) \in Seq(Tasks)
  BY TasksType

\* The first of the tasks and the rest.
LEMMA TailOfTasks ==
    ASSUME todo \in Seq(Tasks), todo # <<>>
    PROVE  /\ Tail(todo) \in Seq(Tasks)
           /\ Head(todo) = todo[1]
           /\ Len(todo) \in Nat \ {0}
           /\ Len(Tail(todo)) = Len(todo) - 1
           /\ \A i \in 1 .. Len(todo) - 1 : Tail(todo)[i] = todo[i + 1]
  OBVIOUS

-----------------------------------------------------------------------------
(* Type correctness.                                                       *)

LEMMA RequestType ==
    ASSUME TypeOK, NEW t \in Tables, Request(t)
    PROVE  /\ fid' \in [Tables -> Fids \cup {NoFid}]
           /\ started' \in [Tables -> BOOLEAN]
           /\ complete' \in [Tables -> BOOLEAN]
           /\ failed' \subseteq Tables
  BY DEF TypeOK, Request

LEMMA WakeType ==
    ASSUME NEW pc \in [Callers -> CallerStates], WakeCaller(pc)
    PROVE  apc' \in [Callers -> CallerStates]
  BY DEF WakeCaller, Waiters, CallerStates

LEMMA SignalType ==
    ASSUME TypeOK, NEW pc \in [Callers -> CallerStates], CondSignal(pc)
    PROVE  apc' \in [Callers -> CallerStates] /\ mpc' \in MonitorStates
  BY WakeType DEF CondSignal, TypeOK, MonitorStates

LEMMA TypeInit == Init => TypeOK
<1> SUFFICES ASSUME Init PROVE TypeOK
    OBVIOUS
<1>1. todo \in Seq(Tasks)
  BY EmptySeq DEF Init
<1> QED BY <1>1 DEF Init, TypeOK, MonitorStates, CallerStates

LEMMA TypeMonitorTable ==
    ASSUME TypeOK, NEW t \in Tables, MonitorTable(t)
    PROVE  TypeOK'
<1> USE DEF tableVars, monitorVars, NextTask, Working, Notified, MonitorStates
<1>1. todo # <<>> => Tail(todo) \in Seq(Tasks)
  BY TailOfTasks DEF TypeOK
<1>2. CASE MonitorRefresh(t)
  BY <1>1, <1>2, RequestType DEF MonitorRefresh, TypeOK
<1>3. CASE MonitorSkip(t)
  BY <1>1, <1>3 DEF MonitorSkip, TypeOK
<1>4. CASE MonitorModeOn(t)
  BY <1>1, <1>4, RequestType DEF MonitorModeOn, TypeOK
<1>5. CASE MonitorModeOff(t)
  BY <1>1, <1>5 DEF MonitorModeOff, TypeOK
<1>6. CASE MonitorNotify(t)
  BY <1>1, <1>6 DEF MonitorNotify, TypeOK
<1>7. CASE MonitorDoneAgain(t)
  BY <1>1, <1>7, RequestType DEF MonitorDoneAgain, TypeOK
<1>8. CASE MonitorDoneTimed(t)
  BY <1>1, <1>8 DEF MonitorDoneTimed, TypeOK
<1>9. ASSUME NEW op \in {"done", "mode"}, MonitorFree(op, t)
      PROVE  TypeOK'
  BY <1>9 DEF MonitorFree, Free, TypeOK
<1>10. ASSUME NEW op \in {"done", "mode"}, MonitorNothingToFree(op, t)
      PROVE  TypeOK'
  BY <1>10 DEF MonitorNothingToFree, TypeOK
<1> QED BY <1>2, <1>3, <1>4, <1>5, <1>6, <1>7, <1>8, <1>9, <1>10 DEF MonitorTable

LEMMA TypeMonitor == TypeOK /\ Monitor => TypeOK'
<1> SUFFICES ASSUME TypeOK, Monitor PROVE TypeOK'
    OBVIOUS
<1> USE DEF tableVars, monitorVars, MonitorStates, Events
<1>1. CASE MonitorWait
  BY <1>1 DEF MonitorWait, TypeOK
<1>2. CASE MonitorRelock
  BY <1>2 DEF MonitorRelock, TypeOK
<1>3. CASE MonitorGo
  BY <1>3 DEF MonitorGo, TypeOK
<1>4. CASE MonitorHandle
  BY <1>4, BatchType DEF MonitorHandle, TypeOK
<1>5. CASE MonitorSynced
  BY <1>5 DEF MonitorSynced, TypeOK
<1>6. CASE MonitorBatchEnd
  BY <1>6, WakeType DEF MonitorBatchEnd, TypeOK
<1>7. CASE MonitorQuit
  BY <1>7, TasksType DEF MonitorQuit, TypeOK
<1>8. CASE MonitorLastSync
  BY <1>8 DEF MonitorLastSync, TypeOK
<1>9. CASE MonitorGone
  BY <1>9 DEF MonitorGone, TypeOK
<1> QED BY <1>1, <1>2, <1>3, <1>4, <1>5, <1>6, <1>7, <1>8, <1>9, TypeMonitorTable DEF Monitor

LEMMA TypeCaller ==
    ASSUME TypeOK, NEW c \in Callers, Caller(c)
    PROVE  TypeOK'
<1> USE DEF tableVars, monitorVars, Events, Goto
<1>0. /\ [apc EXCEPT ![c] = "idle"] \in [Callers -> CallerStates]
      /\ [apc EXCEPT ![c] = "join"] \in [Callers -> CallerStates]
      /\ [apc EXCEPT ![c] = "condwait"] \in [Callers -> CallerStates]
      /\ [apc EXCEPT ![c] = "quitsignal"] \in [Callers -> CallerStates]
      /\ [apc EXCEPT ![c] = "done"] \in [Callers -> CallerStates]
  BY DEF TypeOK, CallerStates
<1>1. CASE ChangeModeWait(c)
  BY <1>0, <1>1 DEF ChangeModeWait, TypeOK
<1>2. CASE ChangeMode(c)
  BY <1>0, <1>2, SignalType DEF ChangeMode, TypeOK
<1>3. CASE ChangeModeSame(c)
  BY <1>0, <1>3 DEF ChangeModeSame, TypeOK
<1>4. CASE Destroy(c)
  BY <1>0, <1>4 DEF Destroy, TypeOK
<1>5. CASE DestroySignal(c)
  BY <1>0, <1>5, SignalType DEF DestroySignal, TypeOK
<1>6. CASE DestroyJoin(c)
  BY <1>0, <1>6 DEF DestroyJoin, TypeOK
<1> QED BY <1>1, <1>2, <1>3, <1>4, <1>5, <1>6 DEF Caller, ChangeModeReturn, Destroying

LEMMA TypeStep == TypeOK /\ FiltersApart /\ [Next]_vars => TypeOK'
<1> SUFFICES ASSUME TypeOK, FiltersApart, [Next]_vars PROVE TypeOK'
    OBVIOUS
<1> USE DEF tableVars, monitorVars, MonitorStates, Events
<1>1. CASE Capture
  BY <1>1 DEF Capture, TypeOK, FiltersApart
<1>2. CASE Demux
  <2>1. CASE SectionUnknown
    BY <2>1 DEF SectionUnknown, TypeOK
  <2>2. CASE SectionIgnored
    BY <2>2 DEF SectionIgnored, TypeOK
  <2>3. CASE SectionCompletes
    BY <2>3, SignalType DEF SectionCompletes, TableDone, TypeOK
  <2> QED BY <1>2, <2>1, <2>2, <2>3 DEF Demux
<1>3. CASE Monitor
  BY <1>3, TypeMonitor
<1>4. CASE MonitorTimeout
  BY <1>4 DEF MonitorTimeout, TypeOK
<1>5. CASE \E c \in Callers : Caller(c)
  BY <1>5, TypeCaller
<1>6. CASE UNCHANGED vars
  BY <1>6 DEF vars, TypeOK
<1> QED BY <1>1, <1>2, <1>3, <1>4, <1>5, <1>6 DEF Next

-----------------------------------------------------------------------------
(* The other conjuncts.                                                    *)

\* A request gives a table without a filter one that no table has.
LEMMA RequestFacts ==
    ASSUME TypeOK, FiltersApart, NEW t \in Tables, fid[t] = NoFid, Request(t)
    PROVE  /\ FiltersApart'
           /\ \A u \in Tables : u # t => fid'[u] = fid[u]
           /\ \A u \in Tables : fid[u] # NoFid => fid'[u] = fid[u]
<1>1. PICK f \in Fids \cup {NoFid} :
        /\ f # NoFid => \A u \in Tables : fid[u] # f
        /\ fid' = [fid EXCEPT ![t] = f]
        /\ \E ok \in BOOLEAN : /\ ok => f # NoFid
                               /\ started' = [started EXCEPT ![t] = ok]
  BY DEF Request, Fids, NoFid
<1> QED BY <1>1 DEF TypeOK, FiltersApart

LEMMA FreeFacts ==
    ASSUME TypeOK, FiltersApart, NEW t \in Tables, Free(t)
    PROVE  /\ FiltersApart'
           /\ fid'[t] = NoFid
           /\ \A u \in Tables : u # t => fid'[u] = fid[u]
  BY DEF Free, TypeOK, FiltersApart

\* Tasks that are left when the first is done.
LEMMA DropTask ==
    ASSUME TypeOK, FreedIsFree, Leaving, todo # <<>>,
           todo' = Tail(todo), UNCHANGED <<fid, mode, evt, exiting>>,
           mpc = "after", mpc' = "work"
    PROVE  Leaving'
<1>1. fid[todo[1].table] = NoFid
  BY TailOfTasks DEF TypeOK, FreedIsFree
<1>2. ASSUME exiting, NEW t \in Tables, fid[t] # NoFid
      PROVE  \E i \in 1 .. Len(Tail(todo)) : Tail(todo)[i].table = t
  <2>1. PICK i \in 1 .. Len(todo) : todo[i].table = t
    BY <1>2 DEF Leaving
  <2>2. i # 1
    BY <1>1, <1>2, <2>1
  <2>3. i - 1 \in 1 .. Len(Tail(todo)) /\ Tail(todo)[i - 1] = todo[i]
    BY <2>2, TailOfTasks DEF TypeOK
  <2> QED BY <2>1, <2>3
<1>3. ASSUME exiting
      PROVE  \A i \in 1 .. Len(Tail(todo)) : Tail(todo)[i].op = "mode"
  BY <1>3, TailOfTasks DEF TypeOK, Leaving
<1> QED BY <1>2, <1>3 DEF Leaving

\* A request made by the monitor, in its loop, for a table without a filter.
LEMMA RequestInv ==
    ASSUME Inv, NEW t \in Tables, fid[t] = NoFid, Request(t), ~exiting, mpc # "sync",
           UNCHANGED <<exiting, dmx>>, mpc' \in {"top", "work"}
    PROVE  FiltersApart' /\ CallsAccountedFor' /\ Leaving'
<1>1. FiltersApart' /\ \A u \in Tables : fid[u] # NoFid => fid'[u] = fid[u]
  BY RequestFacts DEF Inv
<1>2. CallsAccountedFor'
  BY <1>1 DEF Inv, TypeOK, CallsAccountedFor, Fids, NoFid
<1>3. Leaving'
  BY DEF Leaving
<1> QED BY <1>1, <1>2, <1>3

LEMMA InvMonitorTable ==
    ASSUME Inv, NEW t \in Tables, MonitorTable(t), TypeOK'
    PROVE  Inv'
<1> USE DEF tableVars, monitorVars, Inv, NextTask, Working, Notified
<1>0. todo # <<>> => Head(todo) = todo[1] /\ 1 \in 1 .. Len(todo)
  BY TailOfTasks DEF TypeOK
<1>1. CASE MonitorRefresh(t)
  <2>1. ~exiting
    BY <1>1 DEF MonitorRefresh, Leaving
  <2>2. CASE fid[t] = NoFid
    <3>1. FiltersApart' /\ CallsAccountedFor' /\ Leaving'
      BY <1>1, <2>1, <2>2, RequestInv DEF MonitorRefresh
    <3> QED BY <1>1, <3>1 DEF MonitorRefresh, BatchIsUp, FreedIsFree
  <2>3. CASE fid[t] # NoFid
    BY <1>1, <2>1, <2>3 DEF MonitorRefresh, FiltersApart, CallsAccountedFor, BatchIsUp, Leaving, FreedIsFree
  <2> QED BY <2>2, <2>3
<1>2. CASE MonitorSkip(t)
  BY <1>0, <1>2 DEF MonitorSkip, FiltersApart, CallsAccountedFor, BatchIsUp, Leaving, FreedIsFree, TypeOK
<1>3. CASE MonitorModeOn(t)
  <2>1. ~exiting
    BY <1>3 DEF MonitorModeOn, Leaving
  <2>2. CASE fid[t] = NoFid
    <3>1. FiltersApart' /\ CallsAccountedFor' /\ Leaving'
      BY <1>3, <2>1, <2>2, RequestInv DEF MonitorModeOn
    <3> QED BY <1>3, <3>1 DEF MonitorModeOn, BatchIsUp, FreedIsFree
  <2>3. CASE fid[t] # NoFid
    BY <1>3, <2>1, <2>3 DEF MonitorModeOn, FiltersApart, CallsAccountedFor, BatchIsUp, Leaving, FreedIsFree
  <2> QED BY <2>2, <2>3
<1>4. CASE MonitorModeOff(t)
  BY <1>0, <1>4, DropTask DEF MonitorModeOff, FiltersApart, CallsAccountedFor, BatchIsUp, Leaving, FreedIsFree, TypeOK
<1>5. CASE MonitorNotify(t)
  BY <1>0, <1>5 DEF MonitorNotify, FiltersApart, CallsAccountedFor, BatchIsUp, Leaving, FreedIsFree, TypeOK
<1>6. CASE MonitorDoneAgain(t)
  <2>1. ~exiting
    BY <1>0, <1>6 DEF MonitorDoneAgain, Leaving
  <2>2. fid[t] = NoFid /\ mpc \in {"after", "notify"}
    BY <1>6 DEF MonitorDoneAgain, FreedIsFree
  <2>3. FiltersApart' /\ CallsAccountedFor' /\ Leaving'
    BY <1>6, <2>1, <2>2, RequestInv DEF MonitorDoneAgain
  <2> QED BY <1>6, <2>2, <2>3 DEF MonitorDoneAgain, BatchIsUp, FreedIsFree
<1>7. CASE MonitorDoneTimed(t)
  BY <1>0, <1>7 DEF MonitorDoneTimed, FiltersApart, CallsAccountedFor, BatchIsUp, Leaving, FreedIsFree, TypeOK
<1>8. ASSUME NEW op \in {"done", "mode"}, MonitorFree(op, t)
      PROVE  Inv'
  BY <1>0, <1>8, FreeFacts DEF MonitorFree, FiltersApart, CallsAccountedFor, BatchIsUp, Leaving, FreedIsFree, TypeOK
<1>9. ASSUME NEW op \in {"done", "mode"}, MonitorNothingToFree(op, t)
      PROVE  Inv'
  BY <1>0, <1>9 DEF MonitorNothingToFree, FiltersApart, CallsAccountedFor, BatchIsUp, Leaving, FreedIsFree, TypeOK
<1> QED BY <1>1, <1>2, <1>3, <1>4, <1>5, <1>6, <1>7, <1>8, <1>9 DEF MonitorTable

LEMMA InvMonitor ==
    ASSUME Inv, Monitor, TypeOK'
    PROVE  Inv'
<1> USE DEF tableVars, monitorVars, Inv
<1>1. CASE MonitorWait
  BY <1>1 DEF MonitorWait, FiltersApart, CallsAccountedFor, BatchIsUp, Leaving, FreedIsFree, TypeOK
<1>2. CASE MonitorRelock
  BY <1>2 DEF MonitorRelock, FiltersApart, CallsAccountedFor, BatchIsUp, Leaving, FreedIsFree, TypeOK
<1>3. CASE MonitorGo
  BY <1>3 DEF MonitorGo, FiltersApart, CallsAccountedFor, BatchIsUp, Leaving, FreedIsFree, TypeOK
<1>4. CASE MonitorHandle
  BY <1>4 DEF MonitorHandle, FiltersApart, CallsAccountedFor, BatchIsUp, Leaving, FreedIsFree, TypeOK
<1>5. CASE MonitorSynced
  BY <1>5 DEF MonitorSynced, FiltersApart, CallsAccountedFor, BatchIsUp, Leaving, FreedIsFree, TypeOK
<1>6. CASE MonitorBatchEnd
  BY <1>6 DEF MonitorBatchEnd, FiltersApart, CallsAccountedFor, BatchIsUp, Leaving, FreedIsFree, TypeOK
<1>7. CASE MonitorQuit
  <2>1. /\ \A t \in Tables : \E i \in 1 .. Len(todo') : todo'[i].table = t
        /\ \A i \in 1 .. Len(todo') : todo'[i].op = "mode"
    BY <1>7, TasksCover DEF MonitorQuit
  <2>2. /\ exiting' /\ mode' = {} /\ mpc' = "work"
        /\ "quit" \in evt'
    BY <1>7 DEF MonitorQuit, BatchIsUp
  <2>3. Leaving'
    BY <2>1, <2>2 DEF Leaving
  <2> QED BY <1>7, <2>3 DEF MonitorQuit, FiltersApart, CallsAccountedFor, BatchIsUp, FreedIsFree, TypeOK
<1>8. CASE MonitorLastSync
  BY <1>8 DEF MonitorLastSync, FiltersApart, CallsAccountedFor, BatchIsUp, Leaving, FreedIsFree, TypeOK
<1>9. CASE MonitorGone
  BY <1>9 DEF MonitorGone, FiltersApart, CallsAccountedFor, BatchIsUp, Leaving, FreedIsFree, TypeOK
<1> QED BY <1>1, <1>2, <1>3, <1>4, <1>5, <1>6, <1>7, <1>8, <1>9, InvMonitorTable DEF Monitor

LEMMA InvStep == Inv /\ [Next]_vars => Inv'
<1> SUFFICES ASSUME Inv, [Next]_vars PROVE Inv'
    OBVIOUS
<1>0. TypeOK'
  BY TypeStep DEF Inv
<1> USE <1>0 DEF tableVars, monitorVars, Inv, CondSignal
<1>1. CASE Capture
  BY <1>1 DEF Capture, FiltersApart, CallsAccountedFor, BatchIsUp, Leaving, FreedIsFree, TypeOK
<1>2. CASE SectionUnknown
  BY <1>2 DEF SectionUnknown, FiltersApart, CallsAccountedFor, BatchIsUp, Leaving, FreedIsFree, TypeOK
<1>3. CASE SectionIgnored
  BY <1>3 DEF SectionIgnored, FiltersApart, CallsAccountedFor, BatchIsUp, Leaving, FreedIsFree, TypeOK
<1>4. CASE SectionCompletes
  BY <1>4 DEF SectionCompletes, TableDone, FiltersApart, CallsAccountedFor, BatchIsUp, Leaving, FreedIsFree, TypeOK
<1>5. CASE Monitor
  BY <1>5, InvMonitor
<1>6. CASE MonitorTimeout
  BY <1>6 DEF MonitorTimeout, FiltersApart, CallsAccountedFor, BatchIsUp, Leaving, FreedIsFree, TypeOK
<1>7. ASSUME NEW c \in Callers, Caller(c)
      PROVE  Inv'
  BY <1>7 DEF Caller, ChangeModeReturn, Destroying, ChangeModeWait, ChangeMode, ChangeModeSame,
              Destroy, DestroySignal, DestroyJoin, FiltersApart, CallsAccountedFor, BatchIsUp, Leaving, FreedIsFree, TypeOK
<1>8. CASE UNCHANGED vars
  BY <1>8 DEF vars, FiltersApart, CallsAccountedFor, BatchIsUp, Leaving, FreedIsFree, TypeOK
<1> QED BY <1>1, <1>2, <1>3, <1>4, <1>5, <1>6, <1>7, <1>8 DEF Next, Demux

LEMMA InvInit == Init => Inv
  BY TypeInit DEF Init, Inv, FiltersApart, CallsAccountedFor, BatchIsUp, Leaving, FreedIsFree, TypeOK

\* The inductive invariant.
THEOREM InvCorrect == Spec => []Inv
  BY InvInit, InvStep, PTL DEF Spec

\* Every variable keeps its type.
THEOREM TypeCorrect == Spec => []TypeOK
  BY InvCorrect, PTL DEF Inv

\* A section never reaches a table it was not taken for: when the callback looks
\* its fid up, the fid is the one it was captured with, or nobody's.
THEOREM SectionCorrect == Spec => []NoStaleSection
<1>1. Inv => NoStaleSection
  BY DEF Inv, TypeOK, FiltersApart, CallsAccountedFor, NoStaleSection, Fids, NoFid
<1> QED BY <1>1, InvCorrect, PTL

\* When the monitor thread has ended, nothing is on its way to it and none of
\* its filters is left.
THEOREM GoneCorrect == Spec => []NothingAfterGone
<1>1. Inv => NothingAfterGone
  BY DEF Inv, TypeOK, Leaving, NothingAfterGone
<1> QED BY <1>1, InvCorrect, PTL

-----------------------------------------------------------------------------
(* Wake-ups, with one application thread.                                  *)

SingleCaller == \A c, d \in Callers : c = d

\* What pthread_cond_signal does then: it wakes the monitor if it waits, and
\* whoever waits for the events to be handled if the monitor does not.
LEMMA SignalWakes ==
    ASSUME TypeOK, SingleCaller, NEW c \in Callers,
           NEW pc \in [Callers -> CallerStates], CondSignal(pc),
           apc[c] = "condwait" => mpc # "wait"
    PROVE  /\ mpc' # "wait"
           /\ \A d \in Callers : apc'[d] = "condwait" => pc[d] = "condwait"
<1>1. mpc = "wait" => Waiters = {}
  BY DEF Waiters, SingleCaller
<1> QED BY <1>1 DEF CondSignal, WakeCaller, Waiters, CallerStates

LEMMA WakeMonitor ==
    ASSUME WakeInv, SingleCaller, Monitor \/ MonitorTimeout
    PROVE  WaitersHaveEvents' /\ NoLostWakeup'
<1> USE DEF WakeInv, WaitersHaveEvents, NoLostWakeup, tableVars, monitorVars
<1>1. CASE MonitorWait
  BY <1>1 DEF MonitorWait
<1>2. CASE MonitorRelock
  BY <1>2 DEF MonitorRelock
<1>3. CASE MonitorGo
  BY <1>3 DEF MonitorGo
<1>4. CASE MonitorHandle
  BY <1>4 DEF MonitorHandle
<1>5. CASE MonitorSynced
  BY <1>5 DEF MonitorSynced
<1>6. CASE MonitorBatchEnd
  <2>1. CASE evt' = {}
    <3>1. WakeCaller(apc) /\ mpc' # "wait"
      BY <1>6, <2>1 DEF MonitorBatchEnd
    <3>2. \A c \in Callers : apc'[c] # "condwait"
      BY <3>1 DEF WakeCaller, Waiters, SingleCaller, TypeOK
    <3> QED BY <3>1, <3>2
  <2>2. CASE evt' # {}
    BY <1>6, <2>2 DEF MonitorBatchEnd
  <2> QED BY <2>1, <2>2
<1>7. CASE MonitorQuit
  BY <1>7 DEF MonitorQuit
<1>8. CASE MonitorLastSync
  BY <1>8 DEF MonitorLastSync
<1>9. CASE MonitorGone
  BY <1>9 DEF MonitorGone
<1>10. ASSUME NEW t \in Tables, MonitorTable(t)
       PROVE  UNCHANGED <<evt, apc>> /\ mpc # "wait" /\ mpc' # "wait"
  BY <1>10 DEF MonitorTable, MonitorRefresh, MonitorSkip, MonitorModeOn, MonitorModeOff,
               MonitorNotify, MonitorDoneAgain, MonitorDoneTimed, Notified, MonitorFree,
               MonitorNothingToFree
<1>11. CASE MonitorTimeout
  BY <1>11 DEF MonitorTimeout
<1> QED BY <1>1, <1>2, <1>3, <1>4, <1>5, <1>6, <1>7, <1>8, <1>9, <1>10, <1>11 DEF Monitor

LEMMA WakeCallers ==
    ASSUME WakeInv, SingleCaller, NEW c \in Callers, Caller(c)
    PROVE  WaitersHaveEvents' /\ NoLostWakeup'
<1> USE DEF WakeInv, WaitersHaveEvents, NoLostWakeup, tableVars, monitorVars, SingleCaller
<1>1. CASE ChangeModeWait(c)
  BY <1>1 DEF ChangeModeWait, TypeOK, Goto
<1>2. CASE ChangeMode(c)
  <2> DEFINE pc == [apc EXCEPT ![c] = "idle"]
  <2>1. /\ pc \in [Callers -> CallerStates] /\ CondSignal(pc)
        /\ apc[c] # "condwait" /\ evt' # {}
    BY <1>2 DEF ChangeMode, TypeOK, CallerStates
  <2> QED BY <2>1, SignalWakes
<1>3. CASE ChangeModeSame(c)
  BY <1>3 DEF ChangeModeSame, TypeOK, Goto
<1>4. CASE Destroy(c)
  BY <1>4 DEF Destroy, TypeOK, Goto
<1>5. CASE DestroySignal(c)
  <2> DEFINE pc == [apc EXCEPT ![c] = "join"]
  <2>1. /\ pc \in [Callers -> CallerStates] /\ CondSignal(pc)
        /\ apc[c] # "condwait" /\ pc[c] # "condwait" /\ UNCHANGED evt
    BY <1>5 DEF DestroySignal, TypeOK, CallerStates
  <2> QED BY <2>1, SignalWakes
<1>6. CASE DestroyJoin(c)
  BY <1>6 DEF DestroyJoin, TypeOK, Goto
<1> QED BY <1>1, <1>2, <1>3, <1>4, <1>5, <1>6 DEF Caller, ChangeModeReturn, Destroying

\* The demux callback's signal, when it raises a bit.
LEMMA WakeTableDone ==
    ASSUME WakeInv, SingleCaller, NEW t \in Tables, TableDone(t)
    PROVE  WaitersHaveEvents' /\ NoLostWakeup'
<1> USE DEF WakeInv, WaitersHaveEvents, NoLostWakeup
<1>1. CASE t \in evt
  BY <1>1 DEF TableDone
<1>2. CASE t \notin evt
  <2>1. evt' # {} /\ CondSignal(apc) /\ apc \in [Callers -> CallerStates]
    BY <1>2 DEF TableDone, TypeOK
  <2>2. \A c \in Callers : apc[c] = "condwait" => mpc # "wait"
    BY DEF SingleCaller
  <2>3. CASE Callers = {}
    BY <2>1, <2>3 DEF CondSignal, Waiters, WakeCaller
  <2>4. CASE Callers # {}
    BY <2>1, <2>2, <2>4, SignalWakes
  <2> QED BY <2>3, <2>4
<1> QED BY <1>1, <1>2

LEMMA WakeStep ==
    ASSUME Inv, WakeInv, SingleCaller, [Next]_vars
    PROVE  WakeInv'
<1>0. TypeOK'
  BY TypeStep DEF Inv
<1> USE DEF tableVars, monitorVars
<1>1. CASE Capture
  BY <1>0, <1>1 DEF Capture, WakeInv, WaitersHaveEvents, NoLostWakeup
<1>2. CASE SectionUnknown \/ SectionIgnored
  BY <1>0, <1>2 DEF SectionUnknown, SectionIgnored, WakeInv, WaitersHaveEvents, NoLostWakeup
<1>3. CASE SectionCompletes
  BY <1>0, <1>3, WakeTableDone DEF SectionCompletes, WakeInv
<1>4. CASE Monitor \/ MonitorTimeout
  BY <1>0, <1>4, WakeMonitor DEF WakeInv
<1>5. CASE \E c \in Callers : Caller(c)
  BY <1>0, <1>5, WakeCallers DEF WakeInv
<1>6. CASE UNCHANGED vars
  BY <1>0, <1>6 DEF vars, WakeInv, WaitersHaveEvents, NoLostWakeup
<1> QED BY <1>1, <1>2, <1>3, <1>4, <1>5, <1>6 DEF Next, Demux

\* With one application thread at a time, the monitor never sleeps on an event:
\* one condition variable for both kinds of waiting is enough then, because the
\* application waits only while the monitor has something to do.
THEOREM WakeCorrect ==
    ASSUME SingleCaller
    PROVE  Spec => []NoLostWakeup
<1>1. Init => WakeInv
  BY TypeInit DEF Init, WakeInv, WaitersHaveEvents, NoLostWakeup
<1>2. Inv /\ WakeInv /\ [Next]_vars => WakeInv'
  BY WakeStep
<1>3. WakeInv => NoLostWakeup
  BY DEF WakeInv
<1> QED BY <1>1, <1>2, <1>3, InvCorrect, PTL DEF Spec

-----------------------------------------------------------------------------
(* The tables that are monitored, and those that are not.                  *)

\* A task stays on the list until it is done.
LEMMA KeepsTask ==
    ASSUME todo \in Seq(Tasks), todo # <<>>, NEW task, task # Head(todo),
           \E i \in 1 .. Len(todo) : todo[i] = task
    PROVE  \E i \in 1 .. Len(Tail(todo)) : Tail(todo)[i] = task
<1>1. PICK i \in 1 .. Len(todo) : todo[i] = task
  OBVIOUS
<1>2. i # 1
  BY <1>1, TailOfTasks
<1>3. i - 1 \in 1 .. Len(Tail(todo)) /\ Tail(todo)[i - 1] = todo[i]
  BY <1>2, TailOfTasks
<1> QED BY <1>1, <1>3

\* ... and none is added.
LEMMA AddsNoTask ==
    ASSUME todo \in Seq(Tasks), todo # <<>>, NEW op,
           \E i \in 1 .. Len(Tail(todo)) : Tail(todo)[i].op = op
    PROVE  \E i \in 1 .. Len(todo) : todo[i].op = op
<1>1. PICK i \in 1 .. Len(Tail(todo)) : Tail(todo)[i].op = op
  OBVIOUS
<1>2. i + 1 \in 1 .. Len(todo) /\ Tail(todo)[i] = todo[i + 1]
  BY TailOfTasks
<1> QED BY <1>1, <1>2

\* A request gives the table a filter, or is noted to have failed.
LEMMA RequestGives ==
    ASSUME TypeOK, NEW t \in Tables, Request(t)
    PROVE  /\ fid'[t] # NoFid \/ t \in failed'
           /\ \A u \in Tables : u # t => fid'[u] = fid[u] /\ (u \in failed' <=> u \in failed)
<1>1. PICK f \in Fids \cup {NoFid}, ok \in BOOLEAN :
        /\ f \in Fids \/ ~ok
        /\ fid' = [fid EXCEPT ![t] = f]
        /\ failed' = IF ok THEN failed \ {t} ELSE failed \cup {t}
  BY Zenon DEF Request
<1>2. f \in Fids => f # NoFid
  BY DEF Fids, NoFid
<1> QED BY <1>1, <1>2 DEF TypeOK

\* Steps that touch neither a table, nor the list, nor the mode.
LEMMA ModeFrame ==
    ASSUME ModeInv, UNCHANGED <<mode, fid, checkTime, failed, batch, todo, exiting>>,
           "setmode" \in evt => "setmode" \in evt', InBatch' <=> InBatch,
           mpc' \in {"sync", "after", "notify"} <=> mpc \in {"sync", "after", "notify"},
           TimerCovers'
    PROVE  ModeInv'
<1>1. Monitored'
  <2>1. \A t : /\ ModePending(t) => ModePending(t)'
               /\ InHandler(t) => InHandler(t)'
    BY DEF ModePending, InHandler, NextTask
  <2> QED BY <2>1 DEF ModeInv, Monitored
<1>2. ModeTasks'
  BY DEF ModeInv, ModeTasks
<1> QED BY <1>1, <1>2 DEF ModeInv

\* A task that is done leaves what is pending for the other tables.
LEMMA ModeDrop ==
    ASSUME TypeOK, ModeInv, NEW op \in {"done", "mode"}, NEW t \in Tables, NextTask(op, t),
           todo' = Tail(todo), UNCHANGED <<mode, evt, batch, exiting>>,
           InBatch, mpc' = "work"
    PROVE  /\ \A u \in Tables : ModePending(u) /\ (op = "mode" => u # t) => ModePending(u)'
           /\ \A u \in Tables : InHandler(u) => op = "done" /\ u = t
           /\ ModeTasks' /\ TimerCovers'
<1>1. todo \in Seq(Tasks) /\ todo # <<>> /\ Head(todo) = [op |-> op, table |-> t]
  BY DEF TypeOK, NextTask
<1>2. InBatch'
  BY DEF InBatch
<1>3. ASSUME NEW u \in Tables, ModePending(u), op = "mode" => u # t
      PROVE  ModePending(u)'
  <2> DEFINE task == [op |-> "mode", table |-> u]
  <2>1. task # Head(todo)
    BY <1>1, <1>3
  <2>2. (\E i \in 1 .. Len(todo) : todo[i] = task) =>
            \E i \in 1 .. Len(todo') : todo'[i] = task
    BY <1>1, <2>1, KeepsTask
  <2> QED BY <1>2, <1>3, <2>2 DEF ModePending
<1>4. ASSUME NEW u \in Tables, InHandler(u)
      PROVE  op = "done" /\ u = t
  BY <1>1, <1>4 DEF InHandler, NextTask
<1>5. ModeTasks'
  <2>1. (\E i \in 1 .. Len(todo') : todo'[i].op = "mode") =>
            \E i \in 1 .. Len(todo) : todo[i].op = "mode"
    BY <1>1, AddsNoTask
  <2> QED BY <2>1 DEF ModeInv, ModeTasks
<1>6. TimerCovers'
  BY DEF TimerCovers, Asleep
<1> QED BY <1>3, <1>4, <1>5, <1>6

LEMMA ModeTable ==
    ASSUME Inv, ModeInv, NEW t \in Tables, MonitorTable(t)
    PROVE  ModeInv'
<1> USE DEF tableVars, monitorVars, Working, Notified
<1>1. CASE MonitorRefresh(t)
  <2>1. /\ mpc = "top" /\ mpc' = "top" /\ t \in mode
        /\ UNCHANGED <<mode, evt, batch, todo, exiting>>
        /\ \A u \in Tables : u # t => checkTime'[u] = checkTime[u]
    BY <1>1 DEF MonitorRefresh, Inv, TypeOK
  <2>2. /\ fid'[t] # NoFid \/ t \in failed'
        /\ \A u \in Tables : u # t => fid'[u] = fid[u] /\ (u \in failed' <=> u \in failed)
    BY <1>1, RequestGives DEF MonitorRefresh, Inv
  <2>3. \A u \in Tables : (ModePending(u) => ModePending(u)') /\ ~InHandler(u)
    BY <2>1 DEF ModePending, InHandler, InBatch
  <2>4. Monitored'
    BY <2>1, <2>2, <2>3 DEF ModeInv, Monitored, Inv, TypeOK, Tables
  <2>5. ModeTasks' /\ TimerCovers'
    BY <2>1 DEF ModeTasks, TimerCovers, InBatch, Asleep
  <2> QED BY <2>4, <2>5 DEF ModeInv
<1>2. CASE MonitorSkip(t)
  <2>1. /\ \A u \in Tables : ModePending(u) => ModePending(u)'
        /\ ModeTasks' /\ TimerCovers'
    BY <1>2, ModeDrop DEF MonitorSkip, InBatch, Inv
  <2>2. \A u \in Tables : ~InHandler(u)
    BY <1>2 DEF MonitorSkip, InHandler
  <2>3. Monitored'
    BY <1>2, <2>1, <2>2 DEF MonitorSkip, ModeInv, Monitored, Inv, TypeOK, Tables
  <2> QED BY <2>1, <2>3 DEF ModeInv
<1>3. CASE MonitorModeOn(t)
  <2>1. /\ \A u \in Tables : u # t /\ ModePending(u) => ModePending(u)'
        /\ ModeTasks' /\ TimerCovers'
    BY <1>3, ModeDrop DEF MonitorModeOn, InBatch, Inv
  <2>2. \A u \in Tables : ~InHandler(u)
    BY <1>3 DEF MonitorModeOn, InHandler
  <2>3. /\ fid'[t] # NoFid \/ t \in failed'
        /\ \A u \in Tables : u # t => fid'[u] = fid[u] /\ (u \in failed' <=> u \in failed)
        /\ t \in mode /\ UNCHANGED <<mode, checkTime>>
    BY <1>3, RequestGives DEF MonitorModeOn, Inv
  <2>4. Monitored'
    BY <2>1, <2>2, <2>3 DEF ModeInv, Monitored, Inv, TypeOK, Tables
  <2> QED BY <2>1, <2>4 DEF ModeInv
<1>4. CASE MonitorModeOff(t)
  <2>1. /\ \A u \in Tables : u # t /\ ModePending(u) => ModePending(u)'
        /\ \A u \in Tables : ~InHandler(u)
        /\ ModeTasks' /\ TimerCovers'
    BY <1>4, ModeDrop DEF MonitorModeOff, InBatch, Inv
  <2>2. /\ t \notin mode /\ fid[t] = NoFid
        /\ \A u \in Tables : u # t => checkTime'[u] = checkTime[u]
        /\ UNCHANGED <<mode, fid, failed>>
    BY <1>4 DEF MonitorModeOff, NextTask, ModeInv, ModeTasks, Inv, FreedIsFree, TypeOK
  <2>3. Monitored'
    BY <2>1, <2>2 DEF ModeInv, Monitored, Inv, TypeOK, Tables
  <2> QED BY <2>1, <2>3 DEF ModeInv
<1>5. CASE MonitorNotify(t)
  <2>1. TimerCovers'
    BY <1>5 DEF MonitorNotify, TimerCovers, Asleep
  <2> QED BY <1>5, <2>1, ModeFrame DEF MonitorNotify, InBatch
<1>6. CASE MonitorDoneAgain(t)
  <2>1. /\ \A u \in Tables : ModePending(u) => ModePending(u)'
        /\ \A u \in Tables : InHandler(u) => u = t
        /\ ModeTasks' /\ TimerCovers'
    BY <1>6, ModeDrop DEF MonitorDoneAgain, InBatch, Inv
  <2>2. /\ fid'[t] # NoFid \/ t \in failed'
        /\ \A u \in Tables : u # t => fid'[u] = fid[u] /\ (u \in failed' <=> u \in failed)
        /\ t \notin Timed /\ UNCHANGED <<mode, checkTime>>
    BY <1>6, RequestGives, TablesAssumption DEF MonitorDoneAgain, Inv
  <2>3. Monitored'
    BY <2>1, <2>2 DEF ModeInv, Monitored, Inv, TypeOK, Tables
  <2> QED BY <2>1, <2>3 DEF ModeInv
<1>7. CASE MonitorDoneTimed(t)
  <2>1. /\ \A u \in Tables : ModePending(u) => ModePending(u)'
        /\ \A u \in Tables : InHandler(u) => u = t
        /\ ModeTasks' /\ TimerCovers'
    BY <1>7, ModeDrop DEF MonitorDoneTimed, InBatch, Inv
  <2>2. /\ t \in Timed /\ checkTime'[t] /\ UNCHANGED <<mode, fid, failed>>
        /\ \A u \in Tables : checkTime[u] => checkTime'[u]
    BY <1>7 DEF MonitorDoneTimed, Inv, TypeOK
  <2>3. Monitored'
    BY <2>1, <2>2 DEF ModeInv, Monitored, Inv, TypeOK, Tables
  <2> QED BY <2>1, <2>3 DEF ModeInv
<1>8. ASSUME NEW op \in {"done", "mode"}, MonitorFree(op, t) \/ MonitorNothingToFree(op, t)
      PROVE  ModeInv'
  <2>1. /\ mpc = "work" /\ mpc' \in {"sync", "after"} /\ Working(op, t)
        /\ op = "mode" => t \notin mode
        /\ fid'[t] = NoFid /\ \A u \in Tables : u # t => fid'[u] = fid[u]
        /\ UNCHANGED <<mode, evt, checkTime, failed, batch, todo, exiting>>
    BY <1>8, FreeFacts DEF MonitorFree, MonitorNothingToFree, Inv
  <2>2. /\ \A u \in Tables : (ModePending(u) => ModePending(u)') /\ ~InHandler(u)
        /\ op = "done" => InHandler(t)'
    BY <2>1 DEF ModePending, InHandler, InBatch, NextTask
  <2>3. \A u \in mode' \ failed' : u = t => InHandler(t)'
    BY <2>1, <2>2
  <2>4. Monitored'
    BY <2>1, <2>2, <2>3 DEF ModeInv, Monitored, Inv, TypeOK, Tables
  <2>5. ModeTasks' /\ TimerCovers'
    BY <2>1 DEF ModeInv, ModeTasks, TimerCovers, InBatch, Asleep, NextTask
  <2> QED BY <2>4, <2>5 DEF ModeInv
<1> QED BY <1>1, <1>2, <1>3, <1>4, <1>5, <1>6, <1>7, <1>8 DEF MonitorTable

LEMMA ModeMonitor ==
    ASSUME Inv, ModeInv, Monitor
    PROVE  ModeInv'
<1> USE DEF tableVars, monitorVars
<1>1. CASE MonitorWait
  <2>1. TimerCovers'
    BY <1>1 DEF MonitorWait, TimerCovers
  <2> QED BY <1>1, <2>1, ModeFrame DEF MonitorWait, InBatch
<1>2. CASE MonitorRelock
  <2>1. TimerCovers'
    BY <1>2 DEF MonitorRelock, TimerCovers, Asleep
  <2> QED BY <1>2, <2>1, ModeFrame DEF MonitorRelock, InBatch
<1>3. CASE MonitorGo
  <2>1. TimerCovers'
    BY <1>3 DEF MonitorGo, TimerCovers, Asleep
  <2> QED BY <1>3, <2>1, ModeFrame DEF MonitorGo, InBatch
<1>4. CASE MonitorHandle
  <2>1. /\ mpc = "handle" /\ mpc' = "work" /\ batch' = evt
        /\ UNCHANGED <<mode, evt, fid, checkTime, failed, exiting>>
    BY <1>4 DEF MonitorHandle
  <2>2. ASSUME "setmode" \in evt, NEW t \in Tables
        PROVE  \E i \in 1 .. Len(todo') : todo'[i] = [op |-> "mode", table |-> t]
    <3> DEFINE first == TasksOf("done", DoneOrder)
               last  == TasksOf("mode", ModeOrder)
    <3>1. todo' = first \o last /\ first \in Seq(Tasks) /\ last \in Seq(Tasks)
      BY <1>4, <2>2, TasksType DEF MonitorHandle
    <3>2. /\ Len(last) = Len(ModeOrder)
          /\ \A i \in 1 .. Len(ModeOrder) : last[i] = [op |-> "mode", table |-> ModeOrder[i]]
      BY TasksType
    <3>3. PICK i \in 1 .. Len(ModeOrder) : ModeOrder[i] = t
      BY OrderAssumption
    <3> HIDE DEF first, last
    <3>4. Len(first) + i \in 1 .. Len(todo') /\ todo'[Len(first) + i] = last[i]
      BY <3>1, <3>2, <3>3
    <3> QED BY <3>2, <3>3, <3>4
  <2>3. \A t \in Tables : (ModePending(t) => ModePending(t)') /\ ~InHandler(t)
    BY <2>1, <2>2 DEF ModePending, InHandler, InBatch
  <2>4. Monitored'
    BY <2>1, <2>3 DEF ModeInv, Monitored, Inv, TypeOK, Tables
  <2>5. (\E i \in 1 .. Len(todo') : todo'[i].op = "mode") => "setmode" \in batch'
    <3>1. SUFFICES ASSUME "setmode" \notin evt
                   PROVE  \A i \in 1 .. Len(todo') : todo'[i].op = "done"
      BY <2>1
    <3>2. todo' = TasksOf("done", DoneOrder)
      BY <1>4, <3>1, TasksType DEF MonitorHandle
    <3> QED BY <3>2, TasksCover
  <2>6. ModeTasks' /\ TimerCovers'
    BY <2>1, <2>5 DEF ModeTasks, TimerCovers, Asleep
  <2> QED BY <2>4, <2>6 DEF ModeInv
<1>5. CASE MonitorSynced
  <2>1. TimerCovers'
    BY <1>5 DEF MonitorSynced, TimerCovers, Asleep
  <2> QED BY <1>5, <2>1, ModeFrame DEF MonitorSynced, InBatch
<1>6. CASE MonitorBatchEnd
  <2>1. /\ mpc = "work" /\ mpc' \in {"handle", "top"} /\ todo = <<>> /\ evt' = evt \ batch
        /\ UNCHANGED <<mode, fid, checkTime, failed>>
    BY <1>6 DEF MonitorBatchEnd
  <2>2. \A t \in Tables : (ModePending(t) => ModePending(t)') /\ ~InHandler(t)
    BY <2>1 DEF ModePending, InHandler, InBatch
  <2>3. Monitored'
    BY <2>1, <2>2 DEF ModeInv, Monitored, Inv, TypeOK, Tables
  <2>4. ModeTasks' /\ TimerCovers'
    BY <2>1 DEF ModeTasks, TimerCovers, Asleep, InBatch
  <2> QED BY <2>3, <2>4 DEF ModeInv
<1>7. CASE MonitorQuit
  <2>1. /\ mpc = "work" /\ mpc' = "work" /\ exiting' /\ mode' = {}
        /\ todo' = TasksOf("mode", ModeOrder)
    BY <1>7 DEF MonitorQuit
  <2>2. \A t \in Tables : ModePending(t)'
    <3>1. ASSUME NEW t \in Tables
          PROVE  \E i \in 1 .. Len(todo') : todo'[i] = [op |-> "mode", table |-> t]
      <4>1. PICK i \in 1 .. Len(ModeOrder) : ModeOrder[i] = t
        BY OrderAssumption
      <4>2. Len(todo') = Len(ModeOrder) /\ todo'[i] = [op |-> "mode", table |-> ModeOrder[i]]
        BY <2>1, TasksType
      <4> QED BY <4>1, <4>2
    <3> QED BY <2>1, <3>1 DEF ModePending, InBatch
  <2>3. Monitored'
    BY <2>1, <2>2 DEF Monitored, Tables
  <2>4. ModeTasks' /\ TimerCovers'
    BY <2>1 DEF ModeTasks, TimerCovers, Asleep
  <2> QED BY <2>3, <2>4 DEF ModeInv
<1>8. CASE MonitorLastSync \/ MonitorGone
  <2>1. /\ mode' = {} /\ mpc' \in {"lastsync", "gone"}
        /\ \A t \in Tables : fid'[t] = NoFid
    BY <1>8 DEF MonitorLastSync, MonitorGone, Inv, Leaving
  <2> QED BY <2>1 DEF ModeInv, Monitored, ModeTasks, TimerCovers, InBatch, Asleep, Tables
<1> QED BY <1>1, <1>2, <1>3, <1>4, <1>5, <1>6, <1>7, <1>8, ModeTable DEF Monitor

\* A call that changes the mode finds no batch at work on an older change.
LEMMA ModeChanged ==
    ASSUME Inv, ModeInv, NEW c \in Callers, ChangeMode(c)
    PROVE  ModeInv'
<1>1. /\ evt = {} /\ evt' = {"setmode"} /\ UNCHANGED <<batch, todo, exiting>>
      /\ mode' \subseteq Tables
      /\ mpc' = mpc \/ (mpc = "wait" /\ mpc' = "woken")
  BY DEF ChangeMode, CondSignal
<1>2. InBatch' => InBatch /\ batch = {}
  BY <1>1 DEF InBatch, Inv, BatchIsUp
<1>3. \A t \in Tables : ModePending(t)'
  BY <1>1, <1>2 DEF ModePending
<1>4. ModeTasks'
  <2>1. InBatch' => ~exiting /\ "setmode" \notin batch
    BY <1>1, <1>2 DEF Inv, Leaving
  <2>2. InBatch' => ~\E i \in 1 .. Len(todo) : todo[i].op = "mode"
    BY <1>2, <2>1 DEF ModeInv, ModeTasks
  <2>3. ASSUME mpc' \in {"sync", "after", "notify"}
        PROVE  Head(todo).op # "mode"
    <3>1. todo # <<>> /\ todo \in Seq(Tasks)
      BY <1>1, <2>3 DEF Inv, FreedIsFree, TypeOK
    <3>2. Head(todo) = todo[1] /\ 1 \in 1 .. Len(todo)
      BY <3>1, TailOfTasks
    <3> QED BY <2>2, <2>3, <3>2 DEF InBatch
  <2> QED BY <1>1, <2>2, <2>3 DEF ModeTasks
<1>5. Monitored'
  BY <1>1, <1>3 DEF Monitored, Tables
<1>6. TimerCovers'
  BY <1>1 DEF TimerCovers, Asleep
<1> QED BY <1>4, <1>5, <1>6 DEF ModeInv

LEMMA ModeStep == Inv /\ ModeInv /\ [Next]_vars => ModeInv'
<1> SUFFICES ASSUME Inv, ModeInv, [Next]_vars PROVE ModeInv'
    OBVIOUS
<1> USE DEF tableVars, monitorVars
<1>1. CASE Capture \/ SectionUnknown \/ SectionIgnored
  <2>1. UNCHANGED <<mode, evt, tableVars, monitorVars>>
    BY <1>1 DEF Capture, SectionUnknown, SectionIgnored
  <2>2. TimerCovers'
    BY <2>1 DEF ModeInv, TimerCovers, Asleep
  <2> QED BY <2>1, <2>2, ModeFrame DEF InBatch
<1>2. CASE SectionCompletes
  <2>1. /\ UNCHANGED <<mode, fid, checkTime, failed, timer, batch, todo, exiting>>
        /\ (evt' = evt /\ mpc' = mpc) \/ evt' # {}
        /\ evt \subseteq evt'
        /\ mpc' = mpc \/ (mpc = "wait" /\ mpc' = "woken")
    BY <1>2 DEF SectionCompletes, TableDone, CondSignal
  <2>2. TimerCovers'
    BY <2>1 DEF ModeInv, TimerCovers, Asleep
  <2> QED BY <2>1, <2>2, ModeFrame DEF InBatch
<1>3. CASE Monitor
  BY <1>3, ModeMonitor
<1>4. CASE MonitorTimeout
  <2>1. TimerCovers'
    BY <1>4 DEF MonitorTimeout, TimerCovers, Asleep
  <2> QED BY <1>4, <2>1, ModeFrame DEF MonitorTimeout, InBatch
<1>5. ASSUME NEW c \in Callers, Caller(c)
      PROVE  ModeInv'
  <2>1. CASE ChangeMode(c)
    BY <2>1, ModeChanged
  <2>2. CASE ChangeModeWait(c) \/ ChangeModeSame(c) \/ Destroy(c) \/ Destroying(c)
    <3>1. /\ UNCHANGED <<mode, fid, checkTime, failed, timer, batch, todo, exiting>>
          /\ evt \subseteq evt'
          /\ mpc' = mpc \/ (mpc = "wait" /\ mpc' = "woken")
      BY <2>2 DEF ChangeModeWait, ChangeModeSame, Destroy, Destroying, DestroySignal,
                  DestroyJoin, CondSignal
    <3>2. TimerCovers'
      BY <3>1 DEF ModeInv, TimerCovers, Asleep
    <3> QED BY <3>1, <3>2, ModeFrame DEF InBatch
  <2> QED BY <1>5, <2>1, <2>2 DEF Caller, ChangeModeReturn
<1>6. CASE UNCHANGED vars
  <2>1. TimerCovers'
    BY <1>6 DEF vars, ModeInv, TimerCovers, Asleep
  <2> QED BY <1>6, <2>1, ModeFrame DEF vars, InBatch
<1> QED BY <1>1, <1>2, <1>3, <1>4, <1>5, <1>6 DEF Next, Demux

\* The inductive invariant of the mode.
THEOREM ModeInvCorrect == Spec => []ModeInv
<1>1. Init => ModeInv
  BY EmptySeq DEF Init, ModeInv, Monitored, ModeTasks, TimerCovers, InBatch, Asleep, Tables
<1> QED BY <1>1, ModeStep, InvCorrect, PTL DEF Spec

\* When the monitor sleeps with nothing to do, every table that is monitored has
\* a filter or a time at which the monitor wakes to request it, unless its last
\* request failed: no mode change is overtaken by a batch, and no table that was
\* done is left out.
THEOREM ForgottenCorrect == Spec => []NothingForgotten
<1>1. Inv /\ ModeInv => NothingForgotten
  BY DEF Inv, TypeOK, ModeInv, Monitored, TimerCovers, Asleep, ModePending, InHandler, InBatch,
         NothingForgotten
<1> QED BY <1>1, InvCorrect, ModeInvCorrect, PTL

\* ... and a timed table that was switched off has lost its filter.
THEOREM ModeCorrect == Spec => []TimedModeHolds
<1>1. ModeInv => TimedModeHolds
  BY DEF ModeInv, Monitored, Asleep, ModePending, InBatch, TimedModeHolds
<1> QED BY <1>1, ModeInvCorrect, PTL

============================================================================
