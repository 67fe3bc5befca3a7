------------------------------- MODULE AmFend -------------------------------
(***************************************************************************)
(* The frontend device (am_adp/am_fend/am_fend.c and its copy for analog   *)
(* tuners, am_vlfend.c): the monitor thread that reads the tuner's events  *)
(* and runs the registered callback, AM_FEND_Lock, which sets parameters   *)
(* and waits for their event by registering a callback of its own, and the *)
(* blind scan threads: one, unless a scan is started over another.         *)
(*                                                                         *)
(* While AM_FEND_Lock waits, dev->cb is fend_lock_cb and dev->user_data    *)
(* points at a record on the stack of the waiting thread, which also holds *)
(* the callback it replaced; fend_lock_cb calls that one in turn.          *)
(*                                                                         *)
(* dev->lock is a leaf lock, so a section under it is one action.          *)
(* am_gAdpLock is held while AM_FEND_Close joins the monitor thread and    *)
(* while AM_FEND_BlindExit joins the blind scan thread.                    *)
(***************************************************************************)
EXTENDS Integers, FiniteSets

CONSTANTS
    Lockers,     \* threads that open, close and tune the device
    Scanners,    \* threads that open, close, blind scan and switch callbacks off
    Last,        \* the blind scan thread dev->blindscan_thread names
    Strays,      \* bound: the threads that a later scan was started over
    Params,      \* tuning parameters
    CheckPara,   \* fend_lock_cb compares the event's parameters with its own:
                 \* it does in am_fend.c and does not in am_vlfend.c
    AppCb,       \* the application's callback
    NoCb,        \* a NULL callback; nobody owns a lock
    NoPara,      \* no parameters; no event
    NoStatus     \* an event whose status is zero

Clients == Lockers \cup Scanners
Scans == Strays \cup {Last}

ASSUME ClientsAssumption == /\ IsFiniteSet(Clients)
                            /\ AppCb \notin Clients
                            /\ NoCb \notin Clients \cup {AppCb}
ASSUME StraysAssumption == Last \notin Strays
ASSUME ParamsAssumption == /\ NoPara \notin Params
                           /\ NoStatus \notin Params \cup {NoPara}
ASSUME CheckParaAssumption == CheckPara \in BOOLEAN

VARIABLES
    openCount,     \* dev->open_count
    enableThread,  \* dev->enable_thread
    enableCb,      \* dev->enable_cb
    enableBs,      \* dev->enable_blindscan_thread
    runCb,         \* dev->flags & FEND_FL_RUN_CB
    lockFlag,      \* dev->flags & FEND_FL_LOCK
    cb,            \* dev->cb: NoCb, AppCb, or the thread whose Lock it serves
    adpLock,       \* owner of am_gAdpLock
    tuned,         \* the tuner: the parameters whose event has not been read
    fpc,           \* where the monitor thread is
    evt,           \* its local evt, until it is done with it
    tcb,           \* the callback it is in
    bpc,           \* where each blind scan thread is
    pc,            \* where each client is
    old,           \* lockp.old_cb of each client in AM_FEND_Lock
    want,          \* the parameters of its last AM_FEND_Lock that did not fail,
                   \* until it closes the device
    status,        \* the parameters *status reports on
    scanning       \* the client has started a blind scan and not ended it

devVars == <<openCount, enableThread, enableCb, enableBs, runCb, lockFlag, cb,
             adpLock>>
monitorVars == <<fpc, evt, tcb>>
lockVars == <<old, want, status>>
scanVars == <<bpc, scanning>>
vars == <<devVars, tuned, monitorVars, pc, lockVars, scanVars>>

Waits == {"prewait", "locking", "setwait"}

ClientStates == {"out", "idle", "close", "join", "bsjoin", "prewoken", "lockwoken",
                 "setwoken"} \cup Waits

TypeOK ==
    /\ openCount \in Nat
    /\ {enableThread, enableCb, enableBs, runCb, lockFlag} \subseteq BOOLEAN
    /\ cb \in Clients \cup {AppCb, NoCb}
    /\ adpLock \in Clients \cup {NoCb}
    /\ tuned \in Params \cup {NoPara}
    /\ fpc \in {"none", "top", "got", "run", "call", "chain", "signal",
                "broadcast", "gone"}
    /\ evt \in Params \cup {NoPara, NoStatus}
    /\ tcb \in Clients \cup {AppCb, NoCb}
    /\ bpc \in [Scans -> {"none", "start", "wait", "cb"}]
    /\ pc \in [Clients -> ClientStates]
    /\ old \in [Clients -> Clients \cup {AppCb, NoCb}]
    /\ want \in [Clients -> Params \cup {NoPara}]
    /\ status \in [Clients -> Params \cup {NoPara}]
    /\ scanning \in [Clients -> BOOLEAN]

Init ==
    /\ openCount = 0
    /\ enableThread = FALSE /\ enableCb = FALSE /\ enableBs = FALSE
    /\ runCb = FALSE /\ lockFlag = FALSE
    /\ cb = NoCb
    /\ adpLock = NoCb
    /\ tuned = NoPara
    /\ fpc = "none" /\ evt = NoPara /\ tcb = NoCb
    /\ bpc = [s \in Scans |-> "none"]
    /\ pc = [c \in Clients |-> "out"]
    /\ old = [c \in Clients |-> NoCb]
    /\ want = [c \in Clients |-> NoPara]
    /\ status = [c \in Clients |-> NoPara]
    /\ scanning = [c \in Clients |-> FALSE]

\* A client inside the API of an open device, about to call it.
Ready(c) == pc[c] = "idle" /\ openCount > 0

Goto(c, s) == pc' = [pc EXCEPT ![c] = s]

\* pthread_cond_broadcast(&dev->cond): whoever waits looks again.
Woken == [c \in Clients |-> CASE pc[c] = "prewait" -> "prewoken"
                              [] pc[c] = "locking" -> "lockwoken"
                              [] pc[c] = "setwait" -> "setwoken"
                              [] OTHER -> pc[c]]

-----------------------------------------------------------------------------
(* Opening and closing.                                                    *)

\* AM_FEND_Open, AM_FEND_OpenEx of a device that is open: one more user.
OpenAgain(c) ==
    /\ pc[c] = "out"
    /\ adpLock = NoCb
    /\ openCount > 0
    /\ openCount' = openCount + 1
    /\ Goto(c, "idle")
    /\ UNCHANGED <<enableThread, enableCb, enableBs, runCb, lockFlag, cb, adpLock,
                   tuned, monitorVars, lockVars, scanVars>>

\* The first open sets the flags and starts the monitor thread.  A callback
\* registered before the last close is still registered.
OpenFirst(c) ==
    /\ pc[c] = "out"
    /\ adpLock = NoCb
    /\ openCount = 0
    /\ openCount' = 1
    /\ enableThread' = TRUE /\ enableCb' = TRUE
    /\ runCb' = FALSE /\ lockFlag' = FALSE
    /\ fpc' = "top"
    /\ Goto(c, "idle")
    /\ UNCHANGED <<enableBs, cb, adpLock, tuned, evt, tcb, lockVars,
                   scanVars>>

\* pthread_create failed.
OpenFail(c) ==
    /\ pc[c] = "out"
    /\ adpLock = NoCb
    /\ openCount = 0
    /\ enableThread' = TRUE /\ enableCb' = TRUE
    /\ runCb' = FALSE /\ lockFlag' = FALSE
    /\ UNCHANGED <<openCount, enableBs, cb, adpLock, tuned, monitorVars, pc,
                   lockVars, scanVars>>

\* AM_FEND_CloseEx: the open check, unlocked.  The scanner ends its blind scan
\* before it closes the device, and what a client got from AM_FEND_Lock is of no
\* more use to it.
Close(c) ==
    /\ Ready(c)
    /\ ~scanning[c]
    /\ Goto(c, "close")
    /\ want' = [want EXCEPT ![c] = NoPara]
    /\ status' = [status EXCEPT ![c] = NoPara]
    /\ UNCHANGED <<devVars, tuned, monitorVars, old, scanVars>>

CloseShared(c) ==
    /\ pc[c] = "close"
    /\ adpLock = NoCb
    /\ openCount # 1
    /\ openCount' = openCount - 1
    /\ Goto(c, "out")
    /\ UNCHANGED <<enableThread, enableCb, enableBs, runCb, lockFlag, cb, adpLock,
                   tuned, monitorVars, lockVars, scanVars>>

\* The last close stops the thread and joins it with am_gAdpLock held; the
\* signal sent to it only cuts its wait for an event short.
CloseLast(c) ==
    /\ pc[c] = "close"
    /\ adpLock = NoCb
    /\ openCount = 1
    /\ adpLock' = c
    /\ enableCb' = FALSE
    /\ enableThread' = FALSE
    /\ Goto(c, "join")
    /\ UNCHANGED <<openCount, enableBs, runCb, lockFlag, cb, tuned,
                   monitorVars, lockVars, scanVars>>

\* Joined: reset and close the tuner, destroy the lock.
CloseJoin(c) ==
    /\ pc[c] = "join"
    /\ fpc = "gone"
    /\ fpc' = "none"
    /\ tuned' = NoPara
    /\ openCount' = openCount - 1
    /\ adpLock' = NoCb
    /\ Goto(c, "out")
    /\ UNCHANGED <<enableThread, enableCb, enableBs, runCb, lockFlag, cb, evt,
                   tcb, lockVars, scanVars>>

-----------------------------------------------------------------------------
(* AM_FEND_Lock.                                                           *)

\* Under dev->lock with no callback running: save the callback, put
\* fend_lock_cb in its place and set the parameters, which empties the tuner's
\* event queue.  If the driver refuses, put the callback back.
LockBegin(c, p) ==
    /\ lockFlag' = TRUE
    /\ \/ /\ cb' = c
          /\ old' = [old EXCEPT ![c] = cb]
          /\ tuned' = p
          /\ Goto(c, "locking")
          /\ UNCHANGED want
       \/ /\ Goto(c, "idle")
          /\ want' = [want EXCEPT ![c] = NoPara]
          /\ UNCHANGED <<cb, old, tuned>>

\* AM_FEND_Lock: wait first until no callback runs.
Lock(c, p) ==
    /\ Ready(c)
    /\ status' = [status EXCEPT ![c] = NoPara]
    /\ want' = [want EXCEPT ![c] = p]
    /\ Goto(c, "prewoken")
    /\ UNCHANGED <<devVars, tuned, monitorVars, old, scanVars>>

LockPrewoken(c) ==
    /\ pc[c] = "prewoken"
    /\ IF runCb
       THEN /\ Goto(c, "prewait")
            /\ UNCHANGED <<lockFlag, cb, tuned, old, want>>
       ELSE LockBegin(c, want[c])
    /\ UNCHANGED <<openCount, enableThread, enableCb, enableBs, runCb, adpLock,
                   monitorVars, status, scanVars>>

\* The record on the stack of AM_FEND_Lock is gone when it returns.
Forget(c) == old' = [old EXCEPT ![c] = NoCb]

\* Mutant: only FEND_FL_LOCK is looked at, not FEND_FL_RUN_CB.
LockWokenInCallback(c) ==
    /\ pc[c] = "lockwoken"
    /\ IF lockFlag
       THEN Goto(c, "locking") /\ UNCHANGED <<cb, old>>
       ELSE Goto(c, "idle") /\ cb' = old[c] /\ Forget(c)
    /\ UNCHANGED <<openCount, enableThread, enableCb, enableBs, runCb, lockFlag,
                   adpLock, tuned, monitorVars, want, status, scanVars>>

\* Mutant: only FEND_FL_RUN_CB is looked at, not FEND_FL_LOCK.
LockWokenEarly(c) ==
    /\ pc[c] = "lockwoken"
    /\ IF runCb
       THEN Goto(c, "locking") /\ UNCHANGED <<cb, old>>
       ELSE Goto(c, "idle") /\ cb' = old[c] /\ Forget(c)
    /\ UNCHANGED <<openCount, enableThread, enableCb, enableBs, runCb, lockFlag,
                   adpLock, tuned, monitorVars, want, status, scanVars>>

\* Woken: wait again while a callback runs or the event has not come, else put
\* the old callback back and return.
LockWoken(c) ==
    /\ pc[c] = "lockwoken"
    /\ IF runCb \/ lockFlag
       THEN Goto(c, "locking") /\ UNCHANGED <<cb, old>>
       ELSE Goto(c, "idle") /\ cb' = old[c] /\ Forget(c)
    /\ UNCHANGED <<openCount, enableThread, enableCb, enableBs, runCb, lockFlag,
                   adpLock, tuned, monitorVars, want, status, scanVars>>

\* AM_FEND_SetPara: set the parameters without waiting.
SetPara(c, p) ==
    /\ Ready(c)
    /\ tuned' = p
    /\ UNCHANGED <<devVars, monitorVars, pc, lockVars, scanVars>>

-----------------------------------------------------------------------------
(* AM_FEND_SetCallback and AM_FEND_SetActionCallback.                      *)

\* Mutant: the callback is replaced while it may be running.
SetCallbackAtOnce(c) ==
    /\ Ready(c)
    /\ \E v \in {AppCb, NoCb} : cb' = v
    /\ UNCHANGED <<openCount, enableThread, enableCb, enableBs, runCb, lockFlag,
                   adpLock, tuned, monitorVars, pc, lockVars, scanVars>>

\* AM_FEND_SetCallback called by a client with the application's callback or
\* NULL: nothing to do when it is set, else wait while a callback runs.
SetCallback(c) ==
    /\ Ready(c)
    /\ \E v \in {AppCb, NoCb} \ {cb} :
        IF runCb /\ enableThread
        THEN Goto(c, "setwait") /\ UNCHANGED cb
        ELSE cb' = v /\ UNCHANGED pc
    /\ UNCHANGED <<openCount, enableThread, enableCb, enableBs, runCb, lockFlag,
                   adpLock, tuned, monitorVars, lockVars, scanVars>>

SetCallbackWoken(c) ==
    /\ pc[c] = "setwoken"
    /\ IF runCb
       THEN Goto(c, "setwait") /\ UNCHANGED cb
       ELSE Goto(c, "idle") /\ \E v \in {AppCb, NoCb} : cb' = v
    /\ UNCHANGED <<openCount, enableThread, enableCb, enableBs, runCb, lockFlag,
                   adpLock, tuned, monitorVars, lockVars, scanVars>>

\* The satellite control thread (am_sec.c) switches the callbacks off around
\* its work.
SetActionCallback(c) ==
    /\ Ready(c)
    /\ enableCb' = ~enableCb
    /\ UNCHANGED <<openCount, enableThread, enableBs, runCb, lockFlag, cb,
                   adpLock, tuned, monitorVars, pc, lockVars, scanVars>>

-----------------------------------------------------------------------------
(* The monitor thread.                                                     *)

MonitorExit ==
    /\ fpc = "top"
    /\ ~enableThread
    /\ fpc' = "gone"
    /\ UNCHANGED <<devVars, tuned, evt, tcb, pc, lockVars, scanVars>>

\* drv->wait_event, not entered while a blind scan runs: a timeout, ...
MonitorTimeout ==
    /\ fpc = "top"
    /\ enableThread /\ ~enableBs
    /\ fpc' = "got"
    /\ evt' = NoPara
    /\ UNCHANGED <<devVars, tuned, tcb, pc, lockVars, scanVars>>

\* ... the event on the parameters, or one that carries no status yet.
MonitorEvent ==
    /\ fpc = "top"
    /\ enableThread /\ ~enableBs
    /\ tuned # NoPara
    /\ fpc' = "got"
    /\ \/ evt' = tuned /\ tuned' = NoPara
       \/ evt' = NoStatus /\ UNCHANGED tuned
    /\ UNCHANGED <<devVars, tcb, pc, lockVars, scanVars>>

\* Under dev->lock, announce the callback; or see that the device is closing.
MonitorSetRun ==
    /\ fpc = "got"
    /\ IF enableThread
       THEN fpc' = "run" /\ runCb' = TRUE /\ UNCHANGED evt
       ELSE fpc' = "top" /\ evt' = NoPara /\ UNCHANGED runCb
    /\ UNCHANGED <<openCount, enableThread, enableCb, enableBs, lockFlag, cb,
                   adpLock, tuned, tcb, pc, lockVars, scanVars>>

\* On to AM_EVT_Signal, the last to be given the event.
ToSignal == fpc' = "signal" /\ evt' = NoPara

\* dev->cb(...), read and called with no lock held.
MonitorRun ==
    /\ fpc = "run"
    /\ IF evt # NoPara /\ cb # NoCb /\ enableCb
       THEN fpc' = "call" /\ tcb' = cb /\ UNCHANGED evt
       ELSE ToSignal /\ UNCHANGED tcb
    /\ UNCHANGED <<devVars, tuned, pc, lockVars, scanVars>>

\* A callback that fend_lock_cb called returns to it, and it broadcasts; one
\* that the monitor thread called itself (dev->cb is still that one) does not.
WakeIfNested == pc' = IF cb = tcb THEN pc ELSE Woken

\* The application's callback returns.
CallbackReturn ==
    /\ fpc = "call"
    /\ tcb = AppCb
    /\ tcb' = NoCb
    /\ ToSignal
    /\ WakeIfNested
    /\ UNCHANGED <<devVars, tuned, lockVars, scanVars>>

\* fend_lock_cb for an event that is not the one its Lock waits for.
LockCbOther(w) ==
    /\ fpc = "call"
    /\ tcb = w
    /\ evt = NoStatus \/ (CheckPara /\ evt # want[w])
    /\ tcb' = NoCb
    /\ ToSignal
    /\ WakeIfNested
    /\ UNCHANGED <<devVars, tuned, lockVars, scanVars>>

\* fend_lock_cb for the event: store the status, clear the flag under dev->lock.
LockCb(w) ==
    /\ fpc = "call"
    /\ tcb = w
    /\ evt # NoStatus
    /\ CheckPara => evt = want[w]
    /\ status' = [status EXCEPT ![w] = evt]
    /\ lockFlag' = FALSE
    /\ fpc' = "chain"
    /\ UNCHANGED <<openCount, enableThread, enableCb, enableBs, runCb, cb,
                   adpLock, tuned, evt, tcb, pc, old, want, scanVars>>

\* Then, lock released, call the callback it replaced, or return and broadcast.
LockCbChain(w) ==
    /\ fpc = "chain"
    /\ tcb = w
    /\ tcb' = old[w]
    /\ IF old[w] = NoCb
       THEN ToSignal /\ pc' = Woken
       ELSE fpc' = "call" /\ UNCHANGED <<evt, pc>>
    /\ UNCHANGED <<devVars, tuned, lockVars, scanVars>>

\* Mutant: the flag is cleared and nobody is woken.
MonitorClearSilent ==
    /\ fpc = "signal"
    /\ runCb' = FALSE
    /\ fpc' = "top"
    /\ UNCHANGED <<openCount, enableThread, enableCb, enableBs, lockFlag, cb,
                   adpLock, tuned, evt, tcb, pc, lockVars, scanVars>>

\* AM_EVT_Signal has returned (AmEvt): clear the flag under dev->lock ...
MonitorClear ==
    /\ fpc = "signal"
    /\ runCb' = FALSE
    /\ fpc' = "broadcast"
    /\ UNCHANGED <<openCount, enableThread, enableCb, enableBs, lockFlag, cb,
                   adpLock, tuned, evt, tcb, pc, lockVars, scanVars>>

\* ... and wake the waiters after releasing it.
MonitorBroadcast ==
    /\ fpc = "broadcast"
    /\ fpc' = "top"
    /\ pc' = Woken
    /\ UNCHANGED <<devVars, tuned, evt, tcb, lockVars, scanVars>>

-----------------------------------------------------------------------------
(* Blind scan.                                                             *)

\* A thread that scans and may call the callback.
Working(s) == bpc[s] # "none"

\* AM_FEND_BlindScan, under am_gAdpLock.  Nothing keeps it from a second scan:
\* dev->blindscan_thread is overwritten and the first thread goes on as a stray.
\* When pthread_create fails the flag that pauses the monitor thread stays set.
BlindScan(c) ==
    /\ Ready(c)
    /\ adpLock = NoCb
    /\ enableBs' = TRUE
    /\ \/ /\ scanning' = [scanning EXCEPT ![c] = TRUE]
          /\ \/ ~Working(Last) /\ bpc' = [bpc EXCEPT ![Last] = "start"]
             \/ \E s \in Strays :
                   /\ Working(Last) /\ ~Working(s)
                   /\ bpc' = [bpc EXCEPT ![Last] = "start", ![s] = bpc[Last]]
       \/ UNCHANGED scanVars
    /\ UNCHANGED <<openCount, enableThread, enableCb, runCb, lockFlag, cb, adpLock,
                   tuned, monitorVars, pc, lockVars>>

\* AM_FEND_BlindExit of a client that has started a scan: clear the flag, join
\* with am_gAdpLock held.
BlindExit(c) ==
    /\ Ready(c)
    /\ scanning[c]
    /\ adpLock = NoCb
    /\ adpLock' = c
    /\ enableBs' = FALSE
    /\ Goto(c, "bsjoin")
    /\ UNCHANGED <<openCount, enableThread, enableCb, runCb, lockFlag, cb,
                   tuned, monitorVars, lockVars, scanVars>>

\* Mutant: the flag is cleared and the scan is not joined.
BlindExitNoJoin(c) ==
    /\ pc[c] = "bsjoin"
    /\ scanning' = [scanning EXCEPT ![c] = FALSE]
    /\ adpLock' = NoCb
    /\ Goto(c, "idle")
    /\ UNCHANGED <<openCount, enableThread, enableCb, enableBs, runCb, lockFlag, cb,
                   tuned, monitorVars, lockVars, bpc>>

\* pthread_join of the last thread, and of no other.  To join a thread that another
\* client has joined before is undefined; it is taken as an error nobody looks at.
BlindExitJoin(c) ==
    /\ pc[c] = "bsjoin"
    /\ ~Working(Last)
    /\ scanning' = [scanning EXCEPT ![c] = FALSE]
    /\ adpLock' = NoCb
    /\ Goto(c, "idle")
    /\ UNCHANGED <<openCount, enableThread, enableCb, enableBs, runCb, lockFlag, cb,
                   tuned, monitorVars, lockVars, bpc>>

BlindGoto(s, from, to) ==
    /\ bpc[s] = from
    /\ bpc' = [bpc EXCEPT ![s] = to]
    /\ UNCHANGED <<devVars, tuned, monitorVars, pc, lockVars, scanning>>

\* The state machine of fend_blindscan_thread: start the scan or give up; wait
\* for an event and run the callback; cancel when the flag is clear, which is
\* looked at between any two of these steps and never in the callback.
BlindStart(s) ==
    enableBs /\ (BlindGoto(s, "start", "wait") \/ BlindGoto(s, "start", "none"))
BlindEvent(s) == enableBs /\ BlindGoto(s, "wait", "cb")
BlindCallbackReturn(s) == BlindGoto(s, "cb", "wait")
BlindCancel(s) ==
    ~enableBs /\ (BlindGoto(s, "start", "none") \/ BlindGoto(s, "wait", "none"))

-----------------------------------------------------------------------------
OpenClose(c) ==
    \/ OpenAgain(c) \/ OpenFirst(c) \/ OpenFail(c)
    \/ Close(c) \/ CloseShared(c) \/ CloseLast(c) \/ CloseJoin(c)

LockerNext(c) ==
    \/ OpenClose(c)
    \/ \E p \in Params : Lock(c, p) \/ SetPara(c, p)
    \/ LockPrewoken(c) \/ LockWoken(c) \/ SetCallback(c) \/ SetCallbackWoken(c)

ScannerNext(c) ==
    \/ OpenClose(c)
    \/ SetActionCallback(c) \/ BlindScan(c) \/ BlindExit(c) \/ BlindExitJoin(c)

MonitorStep ==
    \/ MonitorExit \/ MonitorTimeout \/ MonitorEvent \/ MonitorSetRun \/ MonitorRun
    \/ CallbackReturn \/ MonitorClear \/ MonitorBroadcast
    \/ \E w \in Clients : LockCbOther(w) \/ LockCb(w) \/ LockCbChain(w)

\* What a blind scan thread does without an event of the tuner.
BlindRun(s) == BlindStart(s) \/ BlindCallbackReturn(s) \/ BlindCancel(s)

BlindStep(s) == BlindEvent(s) \/ BlindRun(s)

Next ==
    \/ \E c \in Lockers : LockerNext(c)
    \/ \E c \in Scanners : ScannerNext(c)
    \/ MonitorStep
    \/ \E s \in Scans : BlindStep(s)

Spec == Init /\ [][Next]_vars

\* The tuner reads an event of the parameters that carries a status.
TunerReports == MonitorEvent /\ evt' = tuned

\* The threads run and their callbacks return; the tuner comes to a verdict on
\* the parameters it was given; a mutex is granted to a thread that keeps
\* asking.  The monitor thread spends its time waiting for the tuner with its
\* flag clear, so a thread that is woken again and again gets dev->lock with the
\* flag clear sooner or later.  No client need call anything, and nobody waits for
\* a stray.
Fairness ==
    /\ WF_vars(MonitorStep)
    /\ SF_vars(TunerReports)
    /\ WF_vars(BlindRun(Last))
    /\ \A c \in Clients :
        SF_vars(CloseShared(c) \/ CloseLast(c)) /\ WF_vars(CloseJoin(c))
    /\ \A c \in Scanners : WF_vars(BlindExitJoin(c))
    /\ \A c \in Lockers :
        /\ WF_vars(LockPrewoken(c)) /\ SF_vars(~runCb /\ LockPrewoken(c))
        /\ WF_vars(LockWoken(c)) /\ SF_vars(~runCb /\ LockWoken(c))

LiveSpec == Spec /\ Fairness

-----------------------------------------------------------------------------
(* Properties.                                                             *)

InLock(c) == pc[c] \in {"locking", "lockwoken"}

\* "Set the parameters and wait until they are set" (am_fend.c:1211): when
\* AM_FEND_Lock has returned success, the status it gives was reported for the
\* parameters it was called with.
LockStatusIsOwn ==
    \A c \in Lockers : pc[c] = "idle" /\ want[c] # NoPara => status[c] = want[c]

\* fend_lock_cb works on a record on the stack of the thread in AM_FEND_Lock:
\* it is registered, saved or running only while that thread is still there.
ContextAlive ==
    \A c \in Clients :
        (cb = c \/ (tcb = c /\ fpc \in {"call", "chain"})) => InLock(c)

\* "Wait for the callback to end": the registered callback changes only while
\* none runs, so after AM_FEND_SetCallback the old one is not called again.
CallbackSwapIsQuiet == [][cb' # cb => ~runCb]_vars

\* AM_FEND_BlindExit waits for the blind scan's callback: the scan works only for
\* a client that has started and not ended it, on a device that is open.  Excepted
\* is a stray, the thread of a scan that a later one was started over: nobody joins
\* it, and its callback may run after AM_FEND_BlindExit and even after the device
\* is closed.
NoBlindCallbackAfterExit ==
    Working(Last) => openCount > 0 /\ \E c \in Clients : scanning[c]

\* AM_FEND_Lock returns, provided that callbacks stay enabled and no blind scan
\* goes on for ever; and AM_FEND_Close and AM_FEND_BlindExit return, although they
\* join a thread with am_gAdpLock held.
CallsReturn ==
    /\ \A c \in Lockers :
          ([](InLock(c) => enableCb) /\ []<>~enableBs) =>
              (pc[c] = "prewait" \/ InLock(c)) ~> pc[c] = "idle"
    /\ \A c \in Clients : pc[c] \in {"close", "bsjoin"} ~> pc[c] \in {"out", "idle"}

-----------------------------------------------------------------------------
(* What makes the invariants inductive.                                    *)

Users == {c \in Clients : pc[c] # "out"}

\* open_count counts the users, so the thread that closes last is alone.
CountExact == openCount = Cardinality(Users)

Closing ==
    /\ \A c \in Clients : pc[c] = "join" => adpLock = c /\ openCount = 1
    /\ ~enableThread /\ openCount > 0 => \E c \in Clients : pc[c] = "join"

\* FEND_FL_RUN_CB is up while the monitor thread may be in a callback, and there
\* is no such thread on a closed device.
RunFlag ==
    /\ fpc \in {"run", "call", "chain", "signal"} => runCb
    /\ openCount = 0 => fpc = "none"

\* The last blind scan works for clients that scan, and they keep the device open.
ScanOwner ==
    /\ Working(Last) => \E c \in Clients : scanning[c]
    /\ \A c \in Clients : scanning[c] => pc[c] \notin {"out", "close", "join"}
    /\ \A c \in Clients : pc[c] = "bsjoin" => scanning[c]

DeviceInv == TypeOK /\ CountExact /\ Closing /\ RunFlag /\ ScanOwner

\* AM_FEND_Lock is not written for two threads: they would share FEND_FL_LOCK
\* and save each other's record as the callback to put back.
OneLocker == \A c, d \in Lockers : c = d

\* The thread in AM_FEND_Lock has registered its record and saved a callback of
\* the application; the monitor thread is in a record only of that thread.
RecordHeld ==
    /\ cb \in Lockers \cup {AppCb, NoCb}
    /\ \A c \in Lockers : IF InLock(c) THEN cb = c /\ old[c] \in {AppCb, NoCb}
                                       ELSE cb # c
    /\ fpc \in {"call", "chain"} /\ tcb \in Clients =>
          tcb \in Lockers /\ InLock(tcb)

\* FEND_FL_LOCK falls when the status of the parameters has been stored.
StatusStored ==
    \A c \in Lockers :
        /\ InLock(c) /\ ~lockFlag => status[c] = want[c]
        /\ pc[c] \notin {"prewait", "prewoken", "locking", "lockwoken"}
              /\ want[c] # NoPara => status[c] = want[c]
=============================================================================
