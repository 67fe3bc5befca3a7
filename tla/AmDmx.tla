------------------------------- MODULE AmDmx -------------------------------
(***************************************************************************)
(* The demux device of the adaptation layer (am_adp/am_dmx/am_dmx.c): the  *)
(* filters of one device, the data thread that reads them and runs the     *)
(* clients' callbacks, and the client threads that call the API.           *)
(*                                                                         *)
(* am_dmx.c is built with DMX_SYNC and without DMX_WAIT_CB: a callback     *)
(* runs with no lock held, dmx_wait_cb does nothing, and the only way to   *)
(* know that a callback has ended is AM_DMX_Sync, which waits until the    *)
(* flag DMX_FL_RUN_CB is clear.                                            *)
(*                                                                         *)
(* Locks.  dev->lock and am_gHwDmxLock are leaf locks: whoever takes them  *)
(* releases them without waiting for anything, so a section under them is  *)
(* one action.  am_gAdpLock is held by AM_DMX_Close while it joins the     *)
(* data thread, so its owner is part of the state.                         *)
(*                                                                         *)
(* Two drivers feed the data thread.  The hardware one (linux_dvb.c)       *)
(* returns from poll the set of filters that have data; the software one   *)
(* (dvr.c) parses the stream inside poll, calls the callbacks itself with  *)
(* dev->lock released, and returns an empty set.                           *)
(***************************************************************************)
EXTENDS Integers, FiniteSets

CONSTANTS
    Clients,    \* threads that use the device, each with its own callback
    NFilters,   \* DMX_FILTER_COUNT
    Drivers,    \* the drivers para->use_sw_filter may choose from
    NoClient    \* a NULL callback; nobody owns a lock

ASSUME ClientsAssumption == IsFiniteSet(Clients) /\ NoClient \notin Clients
ASSUME NFiltersAssumption == NFilters \in Nat \ {0}
ASSUME DriversAssumption == Drivers \subseteq {"hw", "sw"}

Fids == 0 .. NFilters - 1
NoFid == -1

VARIABLES
    openCount,     \* dev->open_count
    drv,           \* the driver of the last AM_DMX_Open
    enableThread,  \* dev->enable_thread
    runCb,         \* dev->flags & DMX_FL_RUN_CB
    used, enable,  \* filter->used, filter->enable
    cb,            \* filter->cb and user_data: the client they lead to
    chan,          \* software driver: filter->drv_data->chan is set
    adpLock,       \* owner of am_gAdpLock
    tpc,           \* where the data thread is
    mask,          \* its local mask: filters of this round still to look at
    tcb,           \* its local cb and data, copied from the filter
    pc,            \* where each client is
    hnd,           \* the filter handle each client keeps
    quiet          \* history: the client has passed a Sync with none of its
                   \* filters enabled and has started none since

devVars == <<openCount, drv, enableThread, runCb, adpLock>>
filterVars == <<used, enable, cb, chan>>
threadVars == <<tpc, mask, tcb>>
clientVars == <<pc, hnd, quiet>>
vars == <<devVars, filterVars, threadVars, clientVars>>

ThreadStates == {"none", "top", "setrun", "check", "read", "cb",
                 "broadcast", "sw", "swcb", "gone"}
ClientStates == {"out", "idle", "setsource", "syncwait", "syncwoken", "close",
                 "join"}

TypeOK ==
    /\ openCount \in Nat
    /\ drv \in {"hw", "sw"}
    /\ enableThread \in BOOLEAN
    /\ runCb \in BOOLEAN
    /\ used \in [Fids -> BOOLEAN]
    /\ enable \in [Fids -> BOOLEAN]
    /\ cb \in [Fids -> Clients \cup {NoClient}]
    /\ chan \in [Fids -> BOOLEAN]
    /\ adpLock \in Clients \cup {NoClient}
    /\ tpc \in ThreadStates
    /\ mask \subseteq Fids
    /\ tcb \in Clients \cup {NoClient}
    /\ pc \in [Clients -> ClientStates]
    /\ hnd \in [Clients -> Fids \cup {NoFid}]
    /\ quiet \in [Clients -> BOOLEAN]

Init ==
    /\ openCount = 0
    /\ drv = "hw"
    /\ enableThread = FALSE
    /\ runCb = FALSE
    /\ used = [f \in Fids |-> FALSE]
    /\ enable = [f \in Fids |-> FALSE]
    /\ cb = [f \in Fids |-> NoClient]
    /\ chan = [f \in Fids |-> FALSE]
    /\ adpLock = NoClient
    /\ tpc = "none"
    /\ mask = {}
    /\ tcb = NoClient
    /\ pc = [c \in Clients |-> "out"]
    /\ hnd = [c \in Clients |-> NoFid]
    /\ quiet = [c \in Clients |-> TRUE]

\* The filter whose callback is the client's is enabled.
Delivering(c) == \E f \in Fids : used[f] /\ enable[f] /\ cb[f] = c

-----------------------------------------------------------------------------
(* Opening and closing.                                                    *)

\* AM_DMX_Open of a device that is open already: count one more user.
OpenAgain(c) ==
    /\ pc[c] = "out"
    /\ adpLock = NoClient
    /\ openCount > 0
    /\ openCount' = openCount + 1
    /\ pc' = [pc EXCEPT ![c] = "idle"]
    /\ UNCHANGED <<drv, enableThread, runCb, adpLock, filterVars, threadVars,
                   hnd, quiet>>

\* The first AM_DMX_Open: choose the driver, reset the flags, start the thread.
\* The software driver allocates its filter table anew (memset 0).
OpenFirst(c) ==
    /\ pc[c] = "out"
    /\ adpLock = NoClient
    /\ openCount = 0
    /\ drv' \in Drivers
    /\ enableThread' = TRUE
    /\ runCb' = FALSE
    /\ openCount' = 1
    /\ tpc' = "top"
    /\ mask' = {}
    /\ tcb' = NoClient
    /\ chan' = [f \in Fids |-> FALSE]
    /\ pc' = [pc EXCEPT ![c] = "idle"]
    /\ UNCHANGED <<adpLock, used, enable, cb, hnd, quiet>>

\* pthread_create failed: the flags are set but nobody runs, and open_count
\* stays 0.
OpenFail(c) ==
    /\ pc[c] = "out"
    /\ adpLock = NoClient
    /\ openCount = 0
    /\ drv' \in Drivers
    /\ enableThread' = TRUE
    /\ runCb' = FALSE
    /\ UNCHANGED <<openCount, adpLock, filterVars, threadVars, clientVars>>

\* AM_DMX_Close up to the lock: the open check comes first and is unlocked.
\* The client forgets its handle; a filter it has not freed stays allocated.
Close(c) ==
    /\ pc[c] = "idle"
    /\ openCount > 0
    /\ pc' = [pc EXCEPT ![c] = "close"]
    /\ hnd' = [hnd EXCEPT ![c] = NoFid]
    /\ UNCHANGED <<devVars, filterVars, threadVars, quiet>>

CloseShared(c) ==
    /\ pc[c] = "close"
    /\ adpLock = NoClient
    /\ openCount # 1
    /\ openCount' = openCount - 1
    /\ pc' = [pc EXCEPT ![c] = "out"]
    /\ UNCHANGED <<drv, enableThread, runCb, adpLock, filterVars, threadVars,
                   hnd, quiet>>

\* Mutant: the thread is not told to stop.
CloseLastNoStop(c) ==
    /\ pc[c] = "close"
    /\ adpLock = NoClient
    /\ openCount = 1
    /\ adpLock' = c
    /\ pc' = [pc EXCEPT ![c] = "join"]
    /\ UNCHANGED <<openCount, drv, enableThread, runCb, filterVars, threadVars,
                   hnd, quiet>>

\* The last close stops the thread and joins it with am_gAdpLock held.
CloseLast(c) ==
    /\ pc[c] = "close"
    /\ adpLock = NoClient
    /\ openCount = 1
    /\ adpLock' = c
    /\ enableThread' = FALSE
    /\ pc' = [pc EXCEPT ![c] = "join"]
    /\ UNCHANGED <<openCount, drv, runCb, filterVars, threadVars, hnd, quiet>>

\* Mutant: the thread is told to stop but not joined.
CloseJoinNoWait(c) ==
    /\ pc[c] = "join"
    /\ tpc' = tpc
    /\ used' = [f \in Fids |-> FALSE]
    /\ enable' = [f \in Fids |-> FALSE]
    /\ openCount' = openCount - 1
    /\ adpLock' = NoClient
    /\ pc' = [pc EXCEPT ![c] = "out"]
    /\ UNCHANGED <<drv, enableThread, runCb, cb, chan, mask, tcb, hnd, quiet>>

\* dmx_free_filter on every filter of a set, where stopping some of them (bad)
\* fails: dmx_stop_filter clears enable all the same (its test is ret>=0 and
\* error codes are positive), but dmx_free_filter then leaves used set.
FreeAll(S, bad) ==
    /\ used' = [f \in Fids |-> used[f] /\ (f \notin S \/ f \in bad)]
    /\ enable' = [f \in Fids |-> enable[f] /\ f \notin S]

\* Filters whose stop may fail: the hardware driver's ioctl is tried on an
\* enabled filter only; the software driver's stop cannot fail.
MayFailStop == IF drv = "hw" THEN {f \in Fids : used[f] /\ enable[f]} ELSE {}

\* pthread_join returns: free every filter, close the driver, destroy the lock.
CloseJoin(c) ==
    /\ pc[c] = "join"
    /\ tpc = "gone"
    /\ tpc' = "none"
    /\ \E bad \in SUBSET MayFailStop : FreeAll(Fids, bad)
    /\ openCount' = openCount - 1
    /\ adpLock' = NoClient
    /\ pc' = [pc EXCEPT ![c] = "out"]
    /\ UNCHANGED <<drv, enableThread, runCb, cb, chan, mask, tcb, hnd, quiet>>

-----------------------------------------------------------------------------
(* The API of an open device.  Every operation first checks that the       *)
(* device is open, without a lock, and then works under the leaf locks.    *)

\* A client that is about to call the API on a device it has opened.
Ready(c) == pc[c] = "idle" /\ openCount > 0

\* A client that is about to call the API on its filter; dmx_get_used_filter
\* accepts the handle.
ReadyFilter(c) == Ready(c) /\ hnd[c] # NoFid /\ used[hnd[c]]

\* AM_DMX_AllocateFilter takes the first filter that is not used; the driver
\* may fail to open it (AllocFail changes nothing and is left out).  Neither
\* the callback nor, in the software driver, the channel is reset.
AllocateFilter(c) ==
    /\ Ready(c)
    /\ hnd[c] = NoFid
    /\ \E f \in Fids :
        /\ ~used[f]
        /\ \A g \in Fids : g < f => used[g]
        /\ used' = [used EXCEPT ![f] = TRUE]
        /\ hnd' = [hnd EXCEPT ![c] = f]
    /\ UNCHANGED <<devVars, enable, cb, chan, threadVars, pc, quiet>>

\* AM_DMX_SetCallback with the client's callback or with NULL.  On a filter
\* that runs this opens the client's gate again.
SetCallback(c) ==
    /\ ReadyFilter(c)
    /\ \E v \in {c, NoClient} :
        /\ cb' = [cb EXCEPT ![hnd[c]] = v]
        /\ quiet' = [quiet EXCEPT ![c] = @ /\ ~(v = c /\ enable[hnd[c]])]
    /\ UNCHANGED <<devVars, used, enable, chan, threadVars, pc, hnd>>

\* AM_DMX_SetSecFilter, AM_DMX_SetPesFilter: the filter is stopped first; what
\* it selects is the driver's affair.
SetFilter(c) ==
    /\ ReadyFilter(c)
    /\ enable' = [enable EXCEPT ![hnd[c]] = FALSE]
    /\ UNCHANGED <<devVars, used, cb, chan, threadVars, clientVars>>

\* AM_DMX_StartFilter, when the driver accepts.  Clients set their callback
\* between allocating a filter and starting it (am_scan.c, am_epg.c,
\* am_caman.c, am_ad.c all do), so no filter starts with an older client's.
StartFilter(c) ==
    /\ ReadyFilter(c)
    /\ cb[hnd[c]] \in {c, NoClient}
    /\ ~enable[hnd[c]]
    /\ enable' = [enable EXCEPT ![hnd[c]] = TRUE]
    /\ chan' = [chan EXCEPT ![hnd[c]] = @ \/ drv = "sw"]
    /\ quiet' = [quiet EXCEPT ![c] = @ /\ cb[hnd[c]] # c]
    /\ UNCHANGED <<devVars, used, cb, threadVars, pc, hnd>>

\* AM_DMX_StopFilter: enable is cleared whether or not the ioctl succeeds.
StopFilter(c) ==
    /\ ReadyFilter(c)
    /\ enable[hnd[c]]
    /\ enable' = [enable EXCEPT ![hnd[c]] = FALSE]
    /\ UNCHANGED <<devVars, used, cb, chan, threadVars, clientVars>>

\* Mutant: the filter is released without being stopped.
FreeFilterRunning(c) ==
    /\ ReadyFilter(c)
    /\ used' = [used EXCEPT ![hnd[c]] = FALSE]
    /\ hnd' = [hnd EXCEPT ![c] = NoFid]
    /\ UNCHANGED <<devVars, enable, cb, chan, threadVars, pc, quiet>>

\* AM_DMX_FreeFilter: stop, then release.  The client forgets the handle even
\* when stopping failed and the filter stays allocated.
FreeFilter(c) ==
    /\ ReadyFilter(c)
    /\ \E bad \in SUBSET (MayFailStop \cap {hnd[c]}) : FreeAll({hnd[c]}, bad)
    /\ hnd' = [hnd EXCEPT ![c] = NoFid]
    /\ UNCHANGED <<devVars, cb, chan, threadVars, pc, quiet>>

\* AM_DMX_SetSource: the driver's part under dev->lock ...
SetSource(c) ==
    /\ Ready(c)
    /\ pc' = [pc EXCEPT ![c] = "setsource"]
    /\ UNCHANGED <<devVars, filterVars, threadVars, hnd, quiet>>

\* ... then dev->src under am_gAdpLock, which a closing thread may hold.
SetSourceDone(c) ==
    /\ pc[c] = "setsource"
    /\ adpLock = NoClient
    /\ pc' = [pc EXCEPT ![c] = "idle"]
    /\ UNCHANGED <<devVars, filterVars, threadVars, hnd, quiet>>

\* AM_DMX_Sync by a client thread: return at once when no round of callbacks is
\* running, otherwise wait on dev->cond.
Sync(c) ==
    /\ Ready(c)
    /\ IF runCb
       THEN /\ pc' = [pc EXCEPT ![c] = "syncwait"]
            /\ UNCHANGED quiet
       ELSE /\ quiet' = [quiet EXCEPT ![c] = ~Delivering(c)]
            /\ UNCHANGED pc
    /\ UNCHANGED <<devVars, filterVars, threadVars, hnd>>

\* Woken by the broadcast: take dev->lock again and look at the flag again.
SyncWoken(c) ==
    /\ pc[c] = "syncwoken"
    /\ IF runCb
       THEN /\ pc' = [pc EXCEPT ![c] = "syncwait"]
            /\ UNCHANGED quiet
       ELSE /\ pc' = [pc EXCEPT ![c] = "idle"]
            /\ quiet' = [quiet EXCEPT ![c] = ~Delivering(c)]
    /\ UNCHANGED <<devVars, filterVars, threadVars, hnd>>

-----------------------------------------------------------------------------
(* The data thread.                                                        *)

\* The loop condition, then the hardware driver's poll.  The set it returns is
\* used later; a filter in it may be stopped or freed by then.
ThreadPoll ==
    /\ tpc = "top"
    /\ enableThread
    /\ drv = "hw"
    /\ \E M \in SUBSET {f \in Fids : used[f]} :
        /\ M # {}
        /\ mask' = M
    /\ tpc' = "setrun"
    /\ UNCHANGED <<devVars, filterVars, tcb, clientVars>>

ThreadExit ==
    /\ tpc = "top"
    /\ ~enableThread
    /\ tpc' = "gone"
    /\ UNCHANGED <<devVars, filterVars, mask, tcb, clientVars>>

\* Under dev->lock, announce that callbacks are about to run.
ThreadSetRun ==
    /\ tpc = "setrun"
    /\ runCb' = TRUE
    /\ tpc' = "check"
    /\ UNCHANGED <<openCount, drv, enableThread, adpLock, filterVars, mask, tcb,
                   clientVars>>

\* The filter the loop over the mask looks at.
Current(f) == f \in mask /\ \A g \in mask : f <= g

\* The first look at the filter takes no lock.
ThreadCheck ==
    /\ tpc = "check"
    /\ \E f \in Fids :
        /\ Current(f)
        /\ IF enable[f] /\ used[f]
           THEN tpc' = "read" /\ UNCHANGED mask
           ELSE mask' = mask \ {f} /\ UNCHANGED tpc
    /\ UNCHANGED <<devVars, filterVars, tcb, clientVars>>

\* Mutant: the callback is copied and the data read on the unlocked look alone.
ThreadReadUnchecked ==
    /\ tpc = "read"
    /\ \E f \in Fids :
        /\ Current(f)
        /\ mask' = mask \ {f}
        /\ tcb' = cb[f]
        /\ tpc' = IF cb[f] = NoClient THEN "check" ELSE "cb"
    /\ UNCHANGED <<devVars, filterVars, clientVars>>

\* Under dev->lock: look again, copy the callback, read.  The read gives data
\* or a timeout, which both lead to the callback, or nothing.
ThreadRead ==
    /\ tpc = "read"
    /\ \E f \in Fids :
        /\ Current(f)
        /\ mask' = mask \ {f}
        /\ \/ /\ enable[f] /\ used[f]
              /\ tcb' = cb[f]
              /\ tpc' = IF cb[f] = NoClient THEN "check" ELSE "cb"
           \/ /\ tpc' = "check"
              /\ UNCHANGED tcb
    /\ UNCHANGED <<devVars, filterVars, clientVars>>

\* The callback, which runs with no lock held, returns.
ThreadReturn ==
    /\ tpc = "cb"
    /\ tpc' = "check"
    /\ tcb' = NoClient
    /\ UNCHANGED <<devVars, filterVars, mask, clientVars>>

\* Mutant: the flag is cleared but nobody is woken.
ThreadClearSilent ==
    /\ tpc = "check"
    /\ mask = {}
    /\ runCb' = FALSE
    /\ tpc' = "top"
    /\ UNCHANGED <<openCount, drv, enableThread, adpLock, filterVars, mask, tcb,
                   clientVars>>

\* The round is over: clear the flag under dev->lock ...
ThreadClear ==
    /\ tpc = "check"
    /\ mask = {}
    /\ runCb' = FALSE
    /\ tpc' = "broadcast"
    /\ UNCHANGED <<openCount, drv, enableThread, adpLock, filterVars, mask, tcb,
                   clientVars>>

\* ... and wake the waiters after releasing it.
ThreadBroadcast ==
    /\ tpc = "broadcast"
    /\ tpc' = "top"
    /\ pc' = [c \in Clients |->
                IF pc[c] = "syncwait" THEN "syncwoken" ELSE pc[c]]
    /\ UNCHANGED <<devVars, filterVars, mask, tcb, hnd, quiet>>

\* The software driver's poll reads the stream and parses it ...
SwPoll ==
    /\ tpc = "top"
    /\ enableThread
    /\ drv = "sw"
    /\ tpc' = "sw"
    /\ UNCHANGED <<devVars, filterVars, mask, tcb, clientVars>>

\* ... and a section on a PID that some enabled filter keeps open goes to a
\* filter allocated on that channel, enabled or not (check_sec, data_cb).  All
\* filters are on one PID here.  dev->lock is released around the callback.
SwDeliver ==
    /\ tpc = "sw"
    /\ \E g \in Fids : used[g] /\ enable[g] /\ chan[g]
    /\ \E f \in Fids :
        /\ used[f] /\ chan[f]
        /\ cb[f] # NoClient
        /\ tcb' = cb[f]
    /\ tpc' = "swcb"
    /\ UNCHANGED <<devVars, filterVars, mask, clientVars>>

SwReturn ==
    /\ tpc = "swcb"
    /\ tpc' = "sw"
    /\ tcb' = NoClient
    /\ UNCHANGED <<devVars, filterVars, mask, clientVars>>

\* The buffer is used up; poll returns with an empty mask, and the thread goes
\* round without touching DMX_FL_RUN_CB.
SwPollDone ==
    /\ tpc = "sw"
    /\ tpc' = "top"
    /\ UNCHANGED <<devVars, filterVars, mask, tcb, clientVars>>

-----------------------------------------------------------------------------
OpenClose(c) ==
    \/ OpenAgain(c) \/ OpenFirst(c) \/ OpenFail(c)
    \/ Close(c) \/ CloseShared(c) \/ CloseLast(c) \/ CloseJoin(c)

Api(c) ==
    \/ AllocateFilter(c) \/ SetCallback(c) \/ SetFilter(c) \/ StartFilter(c)
    \/ StopFilter(c) \/ FreeFilter(c) \/ SetSource(c) \/ SetSourceDone(c)
    \/ Sync(c) \/ SyncWoken(c)

ThreadStep ==
    \/ ThreadSetRun \/ ThreadCheck \/ ThreadRead \/ ThreadReturn \/ ThreadClear
    \/ ThreadBroadcast \/ SwReturn \/ ThreadExit

Thread == ThreadStep \/ ThreadPoll \/ SwPoll \/ SwDeliver \/ SwPollDone

Next == (\E c \in Clients : OpenClose(c) \/ Api(c)) \/ Thread

Spec == Init /\ [][Next]_vars

\* The data thread runs, callbacks return, a buffer holds finitely many
\* sections, and a mutex is granted to a thread that keeps asking.  Data need
\* never come, and no client need call anything.
Fairness ==
    /\ WF_vars(ThreadStep)
    /\ SF_vars(SwPollDone)
    /\ \A c \in Clients :
        /\ SF_vars(CloseShared(c) \/ CloseLast(c))
        /\ WF_vars(CloseJoin(c))
        /\ SF_vars(SetSourceDone(c))
        /\ WF_vars(SyncWoken(c))

LiveSpec == Spec /\ Fairness

-----------------------------------------------------------------------------
(* Properties.                                                             *)

\* The callback the data thread is about to run or is running.
InCallback(c) == tpc \in {"cb", "swcb"} /\ tcb = c

\* AM_DMX_Sync "can be used to wait until the callbacks have ended"
\* (am_dmx.c:842): once it has returned to a client with no enabled filter, its
\* callback does not run.  am_epg_free_filter and am_scan_free_filter free
\* their buffers on the strength of it.
SyncIsBarrier == \A c \in Clients : quiet[c] => ~InCallback(c)

\* The same for devices on the hardware driver.
HwSyncIsBarrier == drv = "hw" => SyncIsBarrier

\* Every thread that is between its open and the end of its close counts once
\* in open_count, so nobody works on a device whose lock is destroyed.
OpenCountExact == openCount = Cardinality({c \in Clients : pc[c] # "out"})

\* The data thread exists exactly while the device is open: a second one is
\* never started, and when the last close returns it is gone and no filter
\* is enabled.
ThreadMatchesOpen ==
    /\ tpc = "none" <=> openCount = 0
    /\ openCount = 0 => \A f \in Fids : ~enable[f]

\* A thread asleep in AM_DMX_Sync still has its wake-up coming.
NoLostWakeup ==
    \A c \in Clients : pc[c] = "syncwait" => runCb \/ tpc = "broadcast"

\* AM_DMX_Close returns, although it joins with am_gAdpLock held, and AM_DMX_Sync
\* returns once the data stops coming.
CallsReturn ==
    \A c \in Clients :
        /\ pc[c] = "close" ~> pc[c] = "out"
        /\ (<>[]~runCb) => (pc[c] = "syncwait" ~> pc[c] = "idle")

\* What the hardware driver's clients are promised, as an abstract gate: shut
\* once the client has passed Sync, open while a filter delivers to it.
GateOf(c) == IF quiet[c] THEN "shut"
             ELSE IF Delivering(c) THEN "open"
             ELSE "closing"

Running == IF tpc = "cb" THEN tcb ELSE NoClient

Gate == INSTANCE CallbackGate WITH
    gate <- [c \in Clients |-> GateOf(c)],
    running <- Running

\* The device implements the gate.
GateSpec == Gate!GateSpec

-----------------------------------------------------------------------------
(* The inductive invariant behind the safety properties.                   *)

\* The flag is up exactly during a round of the hardware driver.
RunFlag == runCb <=> tpc \in {"check", "read", "cb"}

\* Each driver drives the thread through its own part of the loop.
DriverStates ==
    /\ tpc \in {"setrun", "check", "read", "cb", "broadcast"} => drv = "hw"
    /\ tpc \in {"sw", "swcb"} => drv = "sw"

\* am_gAdpLock is held across steps only by the thread that joins, which is
\* then the only user, and the data thread ends for nobody else.
Closing ==
    /\ \A c \in Clients : adpLock = c <=> pc[c] = "join"
    /\ adpLock # NoClient => openCount = 1 /\ ~enableThread
    /\ tpc = "gone" => adpLock # NoClient
    /\ openCount > 0 /\ adpLock = NoClient => enableThread

\* A filter that runs is allocated.
EnabledIsUsed == \A f \in Fids : enable[f] => used[f]

\* A handle is the handle of one client that is inside the API, and a filter
\* runs only with the callback of the client that holds it.
Handles ==
    \A c \in Clients : hnd[c] # NoFid =>
        /\ used[hnd[c]]
        /\ pc[c] \notin {"out", "close", "join"}
        /\ enable[hnd[c]] => cb[hnd[c]] \in {c, NoClient}
        /\ \A d \in Clients : hnd[d] = hnd[c] => d = c

\* A gate is shut only while no filter of the client runs and its callback is
\* not in the thread's hands.
QuietIsQuiet ==
    \A c \in Clients : quiet[c] =>
        /\ ~Delivering(c)
        /\ ~(tpc = "cb" /\ tcb = c)

Inv == /\ TypeOK /\ RunFlag /\ DriverStates /\ Closing /\ EnabledIsUsed
       /\ Handles /\ QuietIsQuiet /\ ThreadMatchesOpen /\ OpenCountExact /\ NoLostWakeup
       /\ tpc = "cb" => tcb # NoClient
=============================================================================
