------------------------------- MODULE AmEpg -------------------------------
(***************************************************************************)
(* The EPG monitor (am_mw/am_epg/am_epg.c): a thread that keeps one demux  *)
(* filter per table of the broadcast, the demux callback that collects     *)
(* their sections, and the application threads that change what is         *)
(* monitored.  The callback reports "table done" as a bit of mon->evt_flag;*)
(* the thread takes a copy of the flag, works through the copy in a fixed  *)
(* order, and clears the copied bits at the end.                           *)
(*                                                                         *)
(* mon->lock.  The callback and the API hold it for one action each, so it *)
(* is enough to know whether the monitor thread holds it.  The thread lets *)
(* it go in three places: on the condition variable, in AM_DMX_Sync after  *)
(* freeing a filter, and while it tells the application (SIGNAL_EVENT).    *)
(*                                                                         *)
(* The demux is what AmDmx shows the hardware driver to be: a callback     *)
(* that has been chosen while a filter was enabled may still run after the *)
(* filter is freed, and AM_DMX_Sync returns only when none is running.     *)
(*                                                                         *)
(* evt_cb is registered, so the thread wakes by itself only for a refresh. *)
(***************************************************************************)
EXTENDS Integers, Sequences, FiniteSets

CONSTANTS
    Again,      \* tables whose next version is requested when one is complete,
                \* one subtable each (CAT, SDT, NIT, CEA)
    Timed,      \* tables fetched again after a while (TDT/TOT, EIT)
    Silent,     \* tables whose completion is not told to the application (EIT)
    DoneOrder,  \* the order am_epg_thread handles "done" bits in
    ModeOrder,  \* the order am_epg_set_mode visits the tables in
    NFids,      \* demux filters left for the EPG
    Callers,    \* application threads
    NoCall      \* no demux callback is running

Tables == Again \cup Timed
Fids == 1 .. NFids
NoFid == -1

ASSUME TablesAssumption ==
    /\ IsFiniteSet(Tables)
    /\ Again \cap Timed = {}
    /\ Silent \subseteq Timed
    /\ "setmode" \notin Tables
    /\ "quit" \notin Tables
ASSUME OrderAssumption ==
    \A order \in {DoneOrder, ModeOrder} :
        /\ order \in Seq(Tables)
        /\ \A t \in Tables : \E i \in 1 .. Len(order) : order[i] = t
ASSUME NFidsAssumption == NFids \in Nat
ASSUME CallersAssumption == IsFiniteSet(Callers)
ASSUME NoCallAssumption == NoCall \notin [fid : Fids, table : Tables]

VARIABLES
    mode,       \* mon->mode
    evt,        \* mon->evt_flag: tables that are done, "setmode", "quit"
    fid,        \* <table>ctl.fid
    started,    \* the filter of the table was started
    complete,   \* all sections of the version now collected have arrived
    checkTime,  \* <table>ctl.check_time is set
    failed,     \* history: tables whose last am_epg_request_section failed
    locked,     \* the monitor thread holds mon->lock
    mpc,        \* where the monitor thread is
    timer,      \* its wait has a timeout
    batch,      \* its local evt_flag
    todo,       \* what is left to do of the batch
    exiting,    \* it has left its loop
    dmx,        \* the demux callback: filter and table of its section
    apc         \* where each application thread is

tableVars == <<fid, started, complete, checkTime, failed>>
monitorVars == <<locked, mpc, timer, batch, todo, exiting>>
vars == <<mode, evt, tableVars, monitorVars, dmx, apc>>

Events == Tables \cup {"setmode", "quit"}
Tasks == [op : {"done", "mode"}, table : Tables]
MonitorStates == {"top", "wait", "woken", "timedout", "handle", "work", "sync",
                  "after", "notify", "lastsync", "gone"}
CallerStates == {"idle", "condwait", "condwoken", "quitsignal", "join", "done"}

TypeOK ==
    /\ mode \subseteq Tables
    /\ evt \subseteq Events
    /\ fid \in [Tables -> Fids \cup {NoFid}]
    /\ started \in [Tables -> BOOLEAN]
    /\ complete \in [Tables -> BOOLEAN]
    /\ checkTime \in [Tables -> BOOLEAN]
    /\ failed \subseteq Tables
    /\ locked \in BOOLEAN
    /\ mpc \in MonitorStates
    /\ timer \in BOOLEAN
    /\ batch \subseteq Events
    /\ todo \in Seq(Tasks)
    /\ exiting \in BOOLEAN
    /\ dmx \in [fid : Fids, table : Tables] \cup {NoCall}
    /\ apc \in [Callers -> CallerStates]

\* The thread has set up its table controls and entered its loop.
Init ==
    /\ mode = {}
    /\ evt = {}
    /\ fid = [t \in Tables |-> NoFid]
    /\ started = [t \in Tables |-> FALSE]
    /\ complete = [t \in Tables |-> FALSE]
    /\ checkTime = [t \in Tables |-> FALSE]
    /\ failed = {}
    /\ locked = TRUE
    /\ mpc = "top"
    /\ timer = FALSE
    /\ batch = {}
    /\ todo = <<>>
    /\ exiting = FALSE
    /\ dmx = NoCall
    /\ apc = [c \in Callers |-> "idle"]

Goto(c, to) == apc' = [apc EXCEPT ![c] = to]
NextTask(op, t) == todo # <<>> /\ Head(todo) = [op |-> op, table |-> t]
Working(op, t) == NextTask(op, t) /\ (op = "done" => t \in batch)

-----------------------------------------------------------------------------
(* Requesting, clearing and freeing.                                       *)

\* am_epg_request_section with fid -1: the first free filter, or none; a call
\* after the allocation may fail too, which leaves the filter allocated and not
\* started.
Request(t) ==
    LET free == Fids \ {fid[u] : u \in Tables}
    IN \E f \in Fids \cup {NoFid}, ok \in BOOLEAN :
        /\ \/ f \in free /\ \A g \in free : f <= g
           \/ f = NoFid /\ free = {} /\ ~ok
        /\ fid' = [fid EXCEPT ![t] = f]
        /\ started' = [started EXCEPT ![t] = ok]
        /\ complete' = [complete EXCEPT ![t] = f = NoFid /\ @]
        /\ failed' = IF ok THEN failed \ {t} ELSE failed \cup {t}

\* AM_DMX_FreeFilter and *fid = -1.
Free(t) ==
    /\ fid' = [fid EXCEPT ![t] = NoFid]
    /\ started' = [started EXCEPT ![t] = FALSE]

\* pthread_cond_signal(&mon->cond): it wakes one of the threads that wait, which
\* may be the monitor or an application thread in am_epg_wait_events_done.
Waiters == {c \in Callers : apc[c] = "condwait"}

WakeCaller(pc) ==
    \/ \E c \in Waiters : apc' = [pc EXCEPT ![c] = "condwoken"]
    \/ Waiters = {} /\ apc' = pc

CondSignal(pc) ==
    \/ mpc = "wait" /\ mpc' = "woken" /\ apc' = pc
    \/ (mpc # "wait" \/ Waiters # {}) /\ WakeCaller(pc) /\ UNCHANGED mpc

-----------------------------------------------------------------------------
(* The demux callback.                                                     *)

\* The demux picks the callback of a filter that runs.
Capture ==
    /\ dmx = NoCall
    /\ \E t \in Tables :
        /\ started[t]
        /\ dmx' = [fid |-> fid[t], table |-> t]
    /\ UNCHANGED <<mode, evt, tableVars, monitorVars, apc>>

\* TABLE_DONE: the bit is raised, and somebody woken, if it is not up already.
TableDone(t) ==
    \/ /\ t \in evt
       /\ UNCHANGED <<evt, mpc, apc>>
    \/ /\ t \notin evt
       /\ evt' = evt \cup {t}
       /\ CondSignal(apc)

\* am_epg_section_handler finds the table by its fid, and ignores the section if
\* no table has it, ...
SectionUnknown ==
    /\ dmx # NoCall /\ ~locked
    /\ \A t \in Tables : fid[t] # dmx.fid
    /\ dmx' = NoCall
    /\ UNCHANGED <<mode, evt, tableVars, monitorVars, apc>>

\* ... or if it does not complete the table: a section that was seen before, that
\* cannot be decoded or that is not the last one, ...
SectionIgnored ==
    /\ dmx # NoCall /\ ~locked
    /\ \E t \in Tables : fid[t] = dmx.fid
    /\ dmx' = NoCall
    /\ UNCHANGED <<mode, evt, tableVars, monitorVars, apc>>

\* ... and completes it otherwise: a table of one subtable with the last section
\* of a version, a timed one with any section (TDT/TOT) or a repeated one (EIT).
SectionCompletes ==
    /\ dmx # NoCall /\ ~locked
    /\ \E t \in Tables :
        /\ fid[t] = dmx.fid
        /\ complete' = [complete EXCEPT ![t] = t \in Again]
        /\ TableDone(t)
    /\ dmx' = NoCall
    /\ UNCHANGED <<mode, fid, started, checkTime, failed, locked, timer, batch, todo,
                   exiting>>

-----------------------------------------------------------------------------
(* The monitor thread: waiting.                                            *)

\* am_epg_get_next_ms: a table whose time has come is requested again.
MonitorRefresh(t) ==
    /\ mpc = "top"
    /\ t \in Timed \cap mode
    /\ checkTime[t]
    /\ checkTime' = [checkTime EXCEPT ![t] = FALSE]
    /\ IF fid[t] = NoFid
       THEN Request(t)
       ELSE UNCHANGED <<fid, started, complete, failed>>
    /\ UNCHANGED <<mode, evt, monitorVars, dmx, apc>>

\* Mutant: the flag is not looked at before waiting.
MonitorWaitBlind ==
    /\ mpc = "top"
    /\ timer' = \E t \in Timed \cap mode : checkTime[t]
    /\ mpc' = "wait"
    /\ locked' = FALSE
    /\ UNCHANGED <<mode, evt, tableVars, batch, todo, exiting, dmx, apc>>

\* No event: wait, at most until the next table is due.
MonitorWait ==
    /\ mpc = "top"
    /\ evt = {}
    /\ timer' = \E t \in Timed \cap mode : checkTime[t]
    /\ mpc' = "wait"
    /\ locked' = FALSE
    /\ UNCHANGED <<mode, evt, tableVars, batch, todo, exiting, dmx, apc>>

MonitorTimeout ==
    /\ mpc = "wait"
    /\ timer
    /\ mpc' = "timedout"
    /\ UNCHANGED <<mode, evt, tableVars, locked, timer, batch, todo, exiting, dmx, apc>>

\* It takes the lock again; after a timeout it goes round without handling.
MonitorRelock ==
    /\ mpc \in {"woken", "timedout"}
    /\ mpc' = IF mpc = "woken" THEN "handle" ELSE "top"
    /\ locked' = TRUE
    /\ UNCHANGED <<mode, evt, tableVars, timer, batch, todo, exiting, dmx, apc>>

\* An event was there before it waited.
MonitorGo ==
    /\ mpc = "top"
    /\ evt # {}
    /\ mpc' = "handle"
    /\ UNCHANGED <<mode, evt, tableVars, locked, timer, batch, todo, exiting, dmx, apc>>

-----------------------------------------------------------------------------
(* The monitor thread: a batch of events.                                  *)

TasksOf(op, order) == [i \in 1 .. Len(order) |-> [op |-> op, table |-> order[i]]]

\* handle_events: copy the flag; the done handlers come first, then
\* am_epg_set_mode.
MonitorHandle ==
    /\ mpc = "handle"
    /\ batch' = evt
    /\ todo' = TasksOf("done", DoneOrder) \o
               (IF "setmode" \in evt THEN TasksOf("mode", ModeOrder) ELSE <<>>)
    /\ mpc' = "work"
    /\ UNCHANGED <<mode, evt, tableVars, locked, timer, exiting, dmx, apc>>

\* A table whose bit is not in the copy is passed over.
MonitorSkip(t) ==
    /\ mpc = "work"
    /\ NextTask("done", t)
    /\ t \notin batch
    /\ todo' = Tail(todo)
    /\ UNCHANGED <<mode, evt, tableVars, locked, mpc, timer, batch, exiting, dmx, apc>>

\* Mutant: the filter is freed and nobody waits for its callback.
MonitorFreeNoSync(op, t) ==
    /\ mpc = "work"
    /\ Working(op, t)
    /\ op = "mode" => t \notin mode
    /\ fid[t] # NoFid
    /\ Free(t)
    /\ mpc' = "after"
    /\ UNCHANGED <<mode, evt, complete, checkTime, failed, locked, timer, batch, todo,
                   exiting, dmx, apc>>

\* Mutant: mon->lock is kept while waiting.
MonitorFreeLocked(op, t) ==
    /\ mpc = "work"
    /\ Working(op, t)
    /\ op = "mode" => t \notin mode
    /\ fid[t] # NoFid
    /\ Free(t)
    /\ mpc' = "sync"
    /\ UNCHANGED <<mode, evt, complete, checkTime, failed, locked, timer, batch, todo,
                   exiting, dmx, apc>>

\* am_epg_free_filter: free the filter and wait, with mon->lock released, until
\* its callback has ended.
MonitorFree(op, t) ==
    /\ mpc = "work"
    /\ Working(op, t)
    /\ op = "mode" => t \notin mode
    /\ fid[t] # NoFid
    /\ Free(t)
    /\ locked' = FALSE
    /\ mpc' = "sync"
    /\ UNCHANGED <<mode, evt, complete, checkTime, failed, timer, batch, todo, exiting,
                   dmx, apc>>

\* Nothing to free: *fid is -1.
MonitorNothingToFree(op, t) ==
    /\ mpc = "work"
    /\ Working(op, t)
    /\ op = "mode" => t \notin mode
    /\ fid[t] = NoFid
    /\ mpc' = "after"
    /\ UNCHANGED <<mode, evt, tableVars, locked, timer, batch, todo, exiting, dmx, apc>>

\* AM_DMX_Sync returns when no callback runs.
MonitorSynced ==
    /\ mpc = "sync"
    /\ dmx = NoCall
    /\ locked' = TRUE
    /\ mpc' = "after"
    /\ UNCHANGED <<mode, evt, tableVars, timer, batch, todo, exiting, dmx, apc>>

\* SET_MODE of a table that is to be monitored: request it unless it has a
\* filter.
MonitorModeOn(t) ==
    /\ mpc = "work"
    /\ Working("mode", t)
    /\ t \in mode
    /\ IF fid[t] = NoFid
       THEN Request(t)
       ELSE UNCHANGED <<fid, started, complete, failed>>
    /\ todo' = Tail(todo)
    /\ UNCHANGED <<mode, evt, checkTime, locked, mpc, timer, batch, exiting, dmx, apc>>

\* ... and of one that is not: its filter has been freed; clear its control.
MonitorModeOff(t) ==
    /\ mpc = "after"
    /\ Working("mode", t)
    /\ complete' = [complete EXCEPT ![t] = FALSE]
    /\ checkTime' = [checkTime EXCEPT ![t] = FALSE]
    /\ todo' = Tail(todo)
    /\ mpc' = "work"
    /\ UNCHANGED <<mode, evt, fid, started, failed, locked, timer, batch, exiting, dmx, apc>>

\* A done handler tells the application, with mon->lock released (SIGNAL_EVENT).
MonitorNotify(t) ==
    /\ mpc = "after"
    /\ Working("done", t)
    /\ t \notin Silent
    /\ locked' = FALSE
    /\ mpc' = "notify"
    /\ UNCHANGED <<mode, evt, tableVars, timer, batch, todo, exiting, dmx, apc>>

Notified(t) ==
    /\ Working("done", t)
    /\ mpc = IF t \in Silent THEN "after" ELSE "notify"

\* The end of a done handler: request the next version, whatever the mode is, ...
MonitorDoneAgain(t) ==
    /\ Notified(t)
    /\ t \in Again
    /\ Request(t)
    /\ todo' = Tail(todo)
    /\ locked' = TRUE
    /\ mpc' = "work"
    /\ UNCHANGED <<mode, evt, checkTime, timer, batch, exiting, dmx, apc>>

\* Mutant: the time of the next refresh is not set.
MonitorDoneTimedForgets(t) ==
    /\ Notified(t)
    /\ t \in Timed
    /\ todo' = Tail(todo)
    /\ locked' = TRUE
    /\ mpc' = "work"
    /\ UNCHANGED <<mode, evt, tableVars, timer, batch, exiting, dmx, apc>>

\* Mutant: a timed table is requested at once, as the others are.
MonitorDoneTimedAgain(t) ==
    /\ Notified(t)
    /\ t \in Timed
    /\ Request(t)
    /\ todo' = Tail(todo)
    /\ locked' = TRUE
    /\ mpc' = "work"
    /\ UNCHANGED <<mode, evt, checkTime, timer, batch, exiting, dmx, apc>>

\* ... or note when to fetch the table again.
MonitorDoneTimed(t) ==
    /\ Notified(t)
    /\ t \in Timed
    /\ checkTime' = [checkTime EXCEPT ![t] = TRUE]
    /\ todo' = Tail(todo)
    /\ locked' = TRUE
    /\ mpc' = "work"
    /\ UNCHANGED <<mode, evt, fid, started, complete, failed, timer, batch, exiting, dmx,
                   apc>>

\* The batch is done: its bits are cleared; events that came meanwhile are
\* handled at once, otherwise somebody in am_epg_wait_events_done is woken.
MonitorBatchEnd ==
    /\ mpc = "work" /\ todo = <<>>
    /\ ~exiting /\ "quit" \notin batch
    /\ evt' = evt \ batch
    /\ \/ evt' # {} /\ mpc' = "handle" /\ UNCHANGED apc
       \/ evt' = {} /\ mpc' = "top" /\ WakeCaller(apc)
    /\ UNCHANGED <<mode, tableVars, locked, timer, batch, todo, exiting, dmx>>

\* Mutant: the filters are not freed.
MonitorQuitKeepsFilters ==
    /\ mpc = "work" /\ todo = <<>>
    /\ ~exiting /\ "quit" \in batch
    /\ exiting' = TRUE
    /\ mode' = {}
    /\ UNCHANGED <<evt, tableVars, locked, mpc, timer, batch, todo, dmx, apc>>

\* The thread leaves its loop: mode 0, am_epg_set_mode ...
MonitorQuit ==
    /\ mpc = "work" /\ todo = <<>>
    /\ ~exiting /\ "quit" \in batch
    /\ exiting' = TRUE
    /\ mode' = {}
    /\ todo' = TasksOf("mode", ModeOrder)
    /\ UNCHANGED <<evt, tableVars, locked, mpc, timer, batch, dmx, apc>>

\* ... then the lock is released and AM_DMX_Sync called once more, ...
MonitorLastSync ==
    /\ mpc = "work" /\ todo = <<>>
    /\ exiting
    /\ locked' = FALSE
    /\ mpc' = "lastsync"
    /\ UNCHANGED <<mode, evt, tableVars, timer, batch, todo, exiting, dmx, apc>>

\* ... the table controls are freed, the lock destroyed and the thread ends.
MonitorGone ==
    /\ mpc = "lastsync"
    /\ dmx = NoCall
    /\ mpc' = "gone"
    /\ UNCHANGED <<mode, evt, tableVars, locked, timer, batch, todo, exiting, dmx, apc>>

-----------------------------------------------------------------------------
(* The application.                                                        *)

\* AM_EPG_ChangeMode (never called after AM_EPG_Destroy) waits until all events
\* are handled, ...
ChangeModeWait(c) ==
    /\ apc[c] \in {"idle", "condwoken"}
    /\ ~locked
    /\ evt # {}
    /\ "quit" \notin evt
    /\ Goto(c, "condwait")
    /\ UNCHANGED <<mode, evt, tableVars, monitorVars, dmx>>

\* ... then sets the mode and wakes the monitor, if there is a change.
ChangeMode(c) ==
    /\ apc[c] \in {"idle", "condwoken"}
    /\ ~locked
    /\ evt = {}
    /\ \E m \in SUBSET Tables :
        /\ m # mode
        /\ mode' = m
    /\ evt' = {"setmode"}
    /\ CondSignal([apc EXCEPT ![c] = "idle"])
    /\ UNCHANGED <<tableVars, locked, timer, batch, todo, exiting, dmx>>

\* No need to change it.
ChangeModeSame(c) ==
    /\ apc[c] = "condwoken"
    /\ ~locked
    /\ evt = {}
    /\ Goto(c, "idle")
    /\ UNCHANGED <<mode, evt, tableVars, monitorVars, dmx>>

\* AM_EPG_Destroy, when no other call is going on: raise the event, ...
Destroy(c) ==
    /\ \A d \in Callers : apc[d] = "idle"
    /\ ~locked
    /\ evt' = evt \cup {"quit"}
    /\ Goto(c, "quitsignal")
    /\ UNCHANGED <<mode, tableVars, monitorVars, dmx>>

\* ... release the lock, signal, ...
DestroySignal(c) ==
    /\ apc[c] = "quitsignal"
    /\ CondSignal([apc EXCEPT ![c] = "join"])
    /\ UNCHANGED <<mode, evt, tableVars, locked, timer, batch, todo, exiting, dmx>>

\* ... and join the monitor thread.
DestroyJoin(c) ==
    /\ apc[c] = "join"
    /\ mpc = "gone"
    /\ Goto(c, "done")
    /\ UNCHANGED <<mode, evt, tableVars, monitorVars, dmx>>

-----------------------------------------------------------------------------
Demux == SectionUnknown \/ SectionIgnored \/ SectionCompletes

MonitorTable(t) ==
    \/ MonitorRefresh(t) \/ MonitorSkip(t) \/ MonitorModeOn(t) \/ MonitorModeOff(t)
    \/ MonitorNotify(t) \/ MonitorDoneAgain(t) \/ MonitorDoneTimed(t)
    \/ \E op \in {"done", "mode"} : MonitorFree(op, t) \/ MonitorNothingToFree(op, t)

Monitor ==
    \/ MonitorWait \/ MonitorRelock \/ MonitorGo \/ MonitorHandle \/ MonitorSynced
    \/ MonitorBatchEnd \/ MonitorQuit \/ MonitorLastSync \/ MonitorGone
    \/ \E t \in Tables : MonitorTable(t)

ChangeModeReturn(c) == ChangeMode(c) \/ ChangeModeSame(c)
Destroying(c) == DestroySignal(c) \/ DestroyJoin(c)
Caller(c) == ChangeModeWait(c) \/ ChangeModeReturn(c) \/ Destroy(c) \/ Destroying(c)

Next == Capture \/ Demux \/ Monitor \/ MonitorTimeout \/ (\E c \in Callers : Caller(c))

Spec == Init /\ [][Next]_vars

\* The monitor runs, a demux callback ends, and a thread that has been woken or
\* has begun to destroy the monitor goes on.  Sections need never come, and no
\* application thread need call anything.
Fairness ==
    /\ WF_vars(Monitor)
    /\ SF_vars(Demux)
    /\ \A c \in Callers :
        /\ WF_vars(Destroying(c))
        /\ SF_vars(apc[c] = "condwoken" /\ (ChangeModeWait(c) \/ ChangeModeReturn(c)))

LiveSpec == Spec /\ Fairness

-----------------------------------------------------------------------------
(* Properties.                                                             *)

\* "Free the filter, and make sure that no invalid data comes after it"
\* (am_epg.c:353): a section on its way to the callback was never taken from a
\* filter that has since been given to another table.
NoStaleSection ==
    dmx # NoCall => \A t \in Tables : fid[t] = dmx.fid => t = dmx.table

\* Once the monitor thread has freed its controls and destroyed its lock, no
\* callback is on its way and no filter is left that could call one.
NothingAfterGone == mpc = "gone" => dmx = NoCall /\ \A t \in Tables : fid[t] = NoFid

Asleep == mpc = "wait" /\ evt = {}

\* A table that has to be monitored is not forgotten: when the monitor sleeps
\* with nothing to do, the table has a filter, or a time at which it gets one,
\* unless its last request failed.
NothingForgotten ==
    Asleep => \A t \in mode \ failed : fid[t] # NoFid \/ (t \in Timed /\ timer /\ checkTime[t])

\* A timed table that is switched off has no filter when the monitor sleeps.
TimedModeHolds == Asleep => \A t \in Timed \ mode : fid[t] = NoFid

\* "Calling am_epg_free_filter may produce new events" (am_epg.c:3832), so the
\* thread looks at the flag again: when it sleeps with nothing to do, no table
\* is complete without having been handled.
NoLostTable == Asleep => \A t \in Again \ failed : ~complete[t]

\* The monitor does not sleep on an event, except between AM_EPG_Destroy's
\* unlock and its signal.
NoLostWakeup ==
    mpc = "wait" /\ evt # {} => \E c \in Callers : apc[c] = "quitsignal"

\* AM_EPG_Destroy returns and AM_EPG_ChangeMode does not wait for ever, once the
\* stream has gone quiet.
CallsReturn ==
    (<>[][~Capture]_vars) =>
        \A c \in Callers : /\ apc[c] = "quitsignal" ~> apc[c] = "done"
                           /\ apc[c] = "condwait" ~> apc[c] = "idle"

-----------------------------------------------------------------------------
(* The inductive invariant behind the safety properties.                   *)

\* No two tables share a filter, and only a filter that is allocated runs.
FiltersApart ==
    /\ \A t, u \in Tables : t # u /\ fid[t] = fid[u] => fid[t] = NoFid
    /\ \A t \in Tables : started[t] => fid[t] # NoFid

\* A section on its way belongs to the table that has its filter, or the filter
\* has just been freed and the monitor waits for the section to be gone.
CallsAccountedFor ==
    dmx # NoCall => \/ fid[dmx.table] = dmx.fid
                    \/ mpc = "sync" /\ \A t \in Tables : fid[t] # dmx.fid

\* A batch holds bits that are up: nobody but the monitor clears one.
BatchIsUp == mpc \in {"work", "sync", "after", "notify"} => batch \subseteq evt

\* Once the monitor has left its loop, every filter that is left is on its list.
Leaving ==
    /\ exiting => /\ mode = {} /\ "quit" \in evt
                  /\ mpc \in {"work", "sync", "after", "lastsync", "gone"}
                  /\ \A i \in 1 .. Len(todo) : todo[i].op = "mode"
                  /\ \A t \in Tables : fid[t] # NoFid =>
                        \E i \in 1 .. Len(todo) : todo[i].table = t
    /\ mpc \in {"lastsync", "gone"} => exiting /\ todo = <<>>

\* The filter the monitor has freed, or found free, stays free until it goes on.
FreedIsFree ==
    mpc \in {"sync", "after", "notify"} => todo # <<>> /\ fid[Head(todo).table] = NoFid

Inv == /\ TypeOK /\ FiltersApart /\ CallsAccountedFor /\ BatchIsUp /\ Leaving
       /\ FreedIsFree /\ (mpc = "gone" => dmx = NoCall)

\* With one application thread: it waits only while there is an event.
WaitersHaveEvents == \A c \in Callers : apc[c] = "condwait" => evt # {}

WakeInv == TypeOK /\ WaitersHaveEvents /\ NoLostWakeup

(* What the thread still has to do about a table when the mode was changed,  *)
(* or when the table was done: the invariant behind NothingForgotten and     *)
(* TimedModeHolds.                                                           *)
InBatch == mpc \in {"work", "sync", "after", "notify"}

ModePending(t) ==
    \/ "setmode" \in evt /\ ~(InBatch /\ "setmode" \in batch)
    \/ InBatch /\ \E i \in 1 .. Len(todo) : todo[i] = [op |-> "mode", table |-> t]

InHandler(t) == mpc \in {"sync", "after", "notify"} /\ NextTask("done", t)

\* A table to be monitored has a filter or gets one; a timed one that is not to
\* be monitored has none or loses it.
Monitored ==
    /\ \A t \in mode \ failed :
          fid[t] # NoFid \/ (t \in Timed /\ checkTime[t]) \/ ModePending(t) \/ InHandler(t)
    /\ \A t \in Timed \ mode : fid[t] = NoFid \/ ModePending(t)

\* The mode does not change while am_epg_set_mode works.
ModeTasks ==
    /\ InBatch /\ (\E i \in 1 .. Len(todo) : todo[i].op = "mode") =>
          "setmode" \in batch \/ exiting
    /\ mpc \in {"sync", "after", "notify"} /\ Head(todo).op = "mode" =>
          Head(todo).table \notin mode

TimerCovers == Asleep => \A t \in Timed \cap mode : checkTime[t] => timer

ModeInv == Monitored /\ ModeTasks /\ TimerCovers

============================================================================
