------------------------------- MODULE AmEvt -------------------------------
(***************************************************************************)
(* The event bus of the adaptation layer (am_adp/am_evt/am_evt.c) together *)
(* with the threads that live on it: the middleware monitors that          *)
(* subscribe to it (am_epg_thread, am_scan_thread) and the device threads  *)
(* that signal on it (fend_thread).                                        *)
(*                                                                         *)
(* A registration is a node of a hash table guarded by one rwlock.         *)
(* AM_EVT_Signal runs the callbacks while it holds the lock for reading;   *)
(* AM_EVT_Subscribe and AM_EVT_Unsubscribe change the table while they     *)
(* hold it for writing.  The callbacks of the monitors take the monitor's  *)
(* own mutex (mon->lock); a monitor that signals an event of its own lets  *)
(* go of that mutex around AM_EVT_Signal and takes it again afterwards.    *)
(*                                                                         *)
(* The rwlock is the default pthread one: a reader is only blocked by a    *)
(* writer that HOLDS the lock, never by one that waits for it.  Every      *)
(* write section is a few pointer assignments and is one action here, so   *)
(* the lock is the set of the threads that hold it for reading.            *)
(***************************************************************************)
EXTENDS FiniteSets

CONSTANTS
    Monitors,     \* monitor objects, each with the thread that runs it
    Devices,      \* device threads that signal the monitored event
    Callbacks,    \* callback functions
    CallbackOf,   \* the callback function of a monitor: two monitors of one
                  \* kind (two EPG monitors of one frontend) share it
    NoThread,     \* the mutex is free
    NoNode        \* no callback is running

ASSUME CallbackAssumption == CallbackOf \in [Monitors -> Callbacks]
ASSUME ThreadAssumption == /\ Monitors \cap Devices = {}
                           /\ NoThread \notin Monitors \cup Devices

Threads == Monitors \cup Devices

\* A registration.  The device number and the event type are those of the
\* frontend's "status changed" event in every node, so they are left out; the
\* object handed to the callback (evt->data) is the monitor.
Node == [cb : Callbacks, data : Monitors]

ASSUME NodeAssumption == NoNode \notin Node

VARIABLES
    events,   \* the registrations in the hash table
    readers,  \* threads that hold the rwlock for reading
    todo,     \* for a device thread in AM_EVT_Signal: the nodes it has still to visit
    cur,      \* for a device thread in AM_EVT_Signal: the node whose callback runs
    mpc,      \* where each monitor's thread is
    mlock     \* owner of each monitor's mutex

vars == <<events, readers, todo, cur, mpc, mlock>>

MonitorStates == {"dead", "check", "insert", "run", "locked", "signal",
                  "relock", "unsub", "destroy"}

TypeOK ==
    /\ events \subseteq Node
    /\ readers \subseteq Threads
    /\ todo \in [Devices -> SUBSET Node]
    /\ cur \in [Devices -> Node \cup {NoNode}]
    /\ mpc \in [Monitors -> MonitorStates]
    /\ mlock \in [Monitors -> Threads \cup {NoThread}]

Init ==
    /\ events = {}
    /\ readers = {}
    /\ todo = [d \in Devices |-> {}]
    /\ cur = [d \in Devices |-> NoNode]
    /\ mpc = [m \in Monitors |-> "dead"]
    /\ mlock = [m \in Monitors |-> NoThread]

NodeOf(m) == [cb |-> CallbackOf[m], data |-> m]

-----------------------------------------------------------------------------
(* A monitor's thread.                                                     *)

\* AM_EPG_Create / AM_SCAN_Create: allocate the object, start its thread.
Create(m) ==
    /\ mpc[m] = "dead"
    /\ mpc' = [mpc EXCEPT ![m] = "check"]
    /\ UNCHANGED <<events, readers, todo, cur, mlock>>

\* First half of AM_EVT_Subscribe: under the read lock, look for a node with
\* the same device, type and callback; its data is not compared.
SubscribeCheck(m) ==
    /\ mpc[m] = "check"
    /\ LET same == {n \in events : n.cb = CallbackOf[m]}
       IN mpc' = [mpc EXCEPT ![m] = IF same = {} THEN "insert" ELSE "run"]
    /\ UNCHANGED <<events, readers, todo, cur, mlock>>

\* Second half: malloc, then link the node under the write lock.
SubscribeInsert(m) ==
    /\ mpc[m] = "insert"
    /\ readers = {}
    /\ events' = events \cup {NodeOf(m)}
    /\ mpc' = [mpc EXCEPT ![m] = "run"]
    /\ UNCHANGED <<readers, todo, cur, mlock>>

\* malloc failed: AM_EVT_ERR_NO_MEM, which no monitor looks at.
SubscribeNoMem(m) ==
    /\ mpc[m] = "insert"
    /\ mpc' = [mpc EXCEPT ![m] = "run"]
    /\ UNCHANGED <<events, readers, todo, cur, mlock>>

\* The main loop takes mon->lock, handles the pending events and either waits
\* (which releases the lock), signals an event of its own, or leaves the loop.
MonitorLock(m) ==
    /\ mpc[m] = "run"
    /\ mlock[m] = NoThread
    /\ mlock' = [mlock EXCEPT ![m] = m]
    /\ mpc' = [mpc EXCEPT ![m] = "locked"]
    /\ UNCHANGED <<events, readers, todo, cur>>

MonitorWait(m) ==
    /\ mpc[m] = "locked"
    /\ mlock' = [mlock EXCEPT ![m] = NoThread]
    /\ mpc' = [mpc EXCEPT ![m] = "run"]
    /\ UNCHANGED <<events, readers, todo, cur>>

\* SIGNAL_EVENT in the main loop: unlock mon->lock, call AM_EVT_Signal ...  Its
\* subscribers are applications; they are external and take no lock.
MonitorSignal(m) ==
    /\ mpc[m] = "locked"
    /\ mlock' = [mlock EXCEPT ![m] = NoThread]
    /\ readers' = readers \cup {m}
    /\ mpc' = [mpc EXCEPT ![m] = "signal"]
    /\ UNCHANGED <<events, todo, cur>>

MonitorSignalDone(m) ==
    /\ mpc[m] = "signal"
    /\ readers' = readers \ {m}
    /\ mpc' = [mpc EXCEPT ![m] = "relock"]
    /\ UNCHANGED <<events, todo, cur, mlock>>

\* ... and lock mon->lock again, back in the handling of the batch.
MonitorRelock(m) ==
    /\ mpc[m] = "relock"
    /\ mlock[m] = NoThread
    /\ mlock' = [mlock EXCEPT ![m] = m]
    /\ mpc' = [mpc EXCEPT ![m] = "locked"]
    /\ UNCHANGED <<events, readers, todo, cur>>

\* Mutant: the loop is left with mon->lock still held.
MonitorQuitLocked(m) ==
    /\ mpc[m] = "locked"
    /\ mpc' = [mpc EXCEPT ![m] = "unsub"]
    /\ UNCHANGED <<events, readers, todo, cur, mlock>>

\* The quit event: leave the loop and release mon->lock BEFORE unsubscribing.
MonitorQuit(m) ==
    /\ mpc[m] = "locked"
    /\ mlock' = [mlock EXCEPT ![m] = NoThread]
    /\ mpc' = [mpc EXCEPT ![m] = "unsub"]
    /\ UNCHANGED <<events, readers, todo, cur>>

\* Mutant: the node is unlinked under the read lock.
UnsubscribeShared(m) ==
    /\ mpc[m] = "unsub"
    /\ events' = events \ {NodeOf(m)}
    /\ mpc' = [mpc EXCEPT ![m] = "destroy"]
    /\ UNCHANGED <<readers, todo, cur, mlock>>

\* AM_EVT_Unsubscribe: unlink the node with the same callback and data under
\* the write lock; a monitor that is not registered gets NOT_SUBSCRIBED.
Unsubscribe(m) ==
    /\ mpc[m] = "unsub"
    /\ readers = {}
    /\ events' = events \ {NodeOf(m)}
    /\ mpc' = [mpc EXCEPT ![m] = "destroy"]
    /\ UNCHANGED <<readers, todo, cur, mlock>>

\* pthread_mutex_destroy(&mon->lock) and free(mon).
Destroy(m) ==
    /\ mpc[m] = "destroy"
    /\ mpc' = [mpc EXCEPT ![m] = "dead"]
    /\ UNCHANGED <<events, readers, todo, cur, mlock>>

-----------------------------------------------------------------------------
(* AM_EVT_Signal, called by a device thread.                               *)

Signal(d) ==
    /\ d \notin readers
    /\ readers' = readers \cup {d}
    /\ todo' = [todo EXCEPT ![d] = events]
    /\ UNCHANGED <<events, cur, mpc, mlock>>

\* The walk reaches a node and calls its callback, which blocks on mon->lock.
SignalCall(d) ==
    /\ d \in readers
    /\ cur[d] = NoNode
    /\ \E n \in todo[d] :
        /\ cur' = [cur EXCEPT ![d] = n]
        /\ todo' = [todo EXCEPT ![d] = todo[d] \ {n}]
    /\ UNCHANGED <<events, readers, mpc, mlock>>

\* am_epg_fend_callback: lock, store the event ...
CallbackLock(d) ==
    /\ cur[d] # NoNode
    /\ mlock[cur[d].data] = NoThread
    /\ mlock' = [mlock EXCEPT ![cur[d].data] = d]
    /\ UNCHANGED <<events, readers, todo, cur, mpc>>

\* ... and unlock; the callback returns to AM_EVT_Signal.
CallbackReturn(d) ==
    /\ cur[d] # NoNode
    /\ mlock[cur[d].data] = d
    /\ mlock' = [mlock EXCEPT ![cur[d].data] = NoThread]
    /\ cur' = [cur EXCEPT ![d] = NoNode]
    /\ UNCHANGED <<events, readers, todo, mpc>>

SignalDone(d) ==
    /\ d \in readers
    /\ cur[d] = NoNode
    /\ todo[d] = {}
    /\ readers' = readers \ {d}
    /\ UNCHANGED <<events, todo, cur, mpc, mlock>>

-----------------------------------------------------------------------------
MonitorNext(m) ==
    \/ Create(m) \/ SubscribeCheck(m) \/ SubscribeInsert(m) \/ SubscribeNoMem(m)
    \/ MonitorLock(m) \/ MonitorWait(m) \/ MonitorSignal(m)
    \/ MonitorSignalDone(m) \/ MonitorRelock(m) \/ MonitorQuit(m) \/ Unsubscribe(m) \/ Destroy(m)

DeviceNext(d) ==
    \/ Signal(d) \/ SignalCall(d) \/ CallbackLock(d) \/ CallbackReturn(d)
    \/ SignalDone(d)

Next == \/ \E m \in Monitors : MonitorNext(m)
        \/ \E d \in Devices : DeviceNext(d)

Spec == Init /\ [][Next]_vars

\* A thread that can run does run, and a mutex is granted to a thread that keeps
\* asking for it.  A monitor does not stay in its critical section: it waits on
\* its condition, signals or ends.  Nothing forces anyone to signal, to quit or
\* to be created, and nothing is assumed of the write lock, which readers may
\* starve.
Fairness ==
    /\ \A m \in Monitors :
        /\ WF_vars(MonitorWait(m) \/ MonitorSignal(m) \/ MonitorQuit(m))
        /\ WF_vars(MonitorSignalDone(m))
    /\ \A d \in Devices :
        /\ WF_vars(SignalCall(d))
        /\ SF_vars(CallbackLock(d))
        /\ WF_vars(CallbackReturn(d))
        /\ WF_vars(SignalDone(d))

LiveSpec == Spec /\ Fairness

-----------------------------------------------------------------------------
\* A callback runs only on an object that exists: am_epg_thread destroys
\* mon->lock and its owner frees mon right after AM_EVT_Unsubscribe, so once
\* that call has returned no AM_EVT_Signal may be in, or go into, a callback of
\* that registration.
CallbackOnLiveObject ==
    \A d \in Devices : cur[d] # NoNode =>
        mpc[cur[d].data] \notin {"dead", "destroy"}

\* No mutex outlives its object: a mutex that is destroyed is not held.
DestroyedLockIsFree ==
    \A m \in Monitors : mpc[m] \in {"dead", "destroy"} => mlock[m] = NoThread

\* AM_EVT_Signal returns: a callback waits for a monitor's mutex with the
\* rwlock held, and no thread that waits for the rwlock, or has left its loop,
\* keeps such a mutex, so the locks never close a cycle of waiting threads.
SignalReturns ==
    \A d \in Devices : (d \in readers) ~> (d \notin readers)

-----------------------------------------------------------------------------
(* The inductive invariant behind the two safety properties.               *)

\* A thread is inside Signal exactly while it holds the lock for reading, and
\* what it has still to visit, or is calling, is still in the table: the write
\* lock keeps the table still while anyone walks it.
WalkInTable ==
    \A d \in Devices :
        /\ todo[d] \subseteq events
        /\ cur[d] # NoNode => cur[d] \in events
        /\ d \notin readers => todo[d] = {} /\ cur[d] = NoNode

\* A node in the table belongs to a monitor that has subscribed and has not
\* yet unsubscribed, and it is the node that monitor will remove.
TableOfLiveObjects ==
    \A n \in events :
        /\ mpc[n.data] \in {"run", "locked", "signal", "relock", "unsub"}
        /\ n = NodeOf(n.data)

\* Who holds a monitor's mutex: its own thread inside its critical section, or
\* a device thread whose callback runs on that monitor.
LockOwners ==
    \A m \in Monitors :
        /\ mlock[m] \in {m, NoThread} \cup Devices
        /\ mlock[m] = m <=> mpc[m] = "locked"
        /\ \A d \in Devices : mlock[m] = d => cur[d] # NoNode /\ cur[d].data = m

Inv == TypeOK /\ WalkInTable /\ TableOfLiveObjects /\ LockOwners
=============================================================================
