------------------------------- MODULE AmRec -------------------------------
(***************************************************************************)
(* The recorder (am_mw/am_rec/am_rec.c) on the recording device            *)
(* (am_adp/am_dvr/am_dvr.c): application threads that start, pause, stop   *)
(* and destroy recorders, and the thread each recording gets, which opens  *)
(* the device, records until it is told to stop, the time is up or the     *)
(* file fails, and gives everything back.                                  *)
(*                                                                         *)
(* rec->lock keeps the applications apart, but the thread never takes it:  *)
(* it reads and clears rec->stat_flag without a lock.  `flags |= x' and    *)
(* `flags &= ~x' are therefore a read and a write, and what happens        *)
(* between them is lost.  AM_REC_StopRecord lets rec->lock go while it     *)
(* joins the thread.                                                       *)
(***************************************************************************)
EXTENDS Integers, FiniteSets

CONSTANTS
    Recs,       \* recorders, all created on one DVR device
    Apps,       \* application threads
    Uses,       \* which application thread may use which recorder
    Rich,       \* bound: recorders that are paused and that shift time
    MaxThreads, \* bound: recordings that are started in a behaviour
    Nobody      \* rec->lock is free

ASSUME RecsAssumption == IsFiniteSet(Recs) /\ Recs # {}
ASSUME UsesAssumption == Uses \subseteq [Apps -> Recs] /\ Uses # {}
ASSUME RichAssumption == Rich \subseteq Recs
ASSUME MaxThreadsAssumption == MaxThreads \in Nat
ASSUME NobodyAssumption == Nobody \notin Apps

Threads == 1 .. MaxThreads
NoThread == 0

VARIABLES
    alive,      \* the recorder has not been freed
    flags,      \* rec->stat_flag
    shift,      \* rec_para.is_timeshift
    fd,         \* rec->rec_fd is open
    tfile,      \* rec->tfile: "none", "open", "closed"
    tflag,      \* rec->tfile_flag: "av" (neither), "auto", "detach" (both)
    recThread,  \* rec->rec_thread
    owner,      \* who holds rec->lock
    apc, arec,  \* where each application thread is, and its recorder
    copy,       \* the flags it has read
    target,     \* the thread it joins
    destroying, \* its StopRecord is part of AM_REC_Destroy
    tpc, trec,  \* where each recording thread is and whose it is
    told,       \* its copy of stat_flag: it will signal RECORD_END
    tcopy,      \* the flags it has read
    openCnt, record, streams,  \* the DVR device, and whose streams are running
    mishaps     \* history: known mishaps (see Mishaps) that have happened

recVars == <<alive, flags, shift, fd, tfile, tflag, recThread, owner>>
appVars == <<apc, arec, copy, target, destroying>>
threadVars == <<tpc, trec, told, tcopy>>
dvrVars == <<openCnt, record, streams>>
vars == <<recVars, appVars, threadVars, dvrVars, mishaps>>

FlagSet == {"recording", "paused"}

(* What the code lets happen and does not repair.  A property says which of  *)
(* them it survives.                                                         *)
(*   busy     AM_REC_StartRecord refuses, and clears "recording" on its way  *)
(*   restart  a recording is started while a thread of the recorder is left  *)
(*            or an AM_REC_StopRecord has yet to join it: it joins the new one *)
(*   shared   a second recording opens a DVR device that is in use           *)
(*   reuse    a time-shift recording is started on the closed file of the    *)
(*            one before                                                     *)
(*   hasty    a recording is stopped before its thread has read the flags    *)
(*   undone   "recording" is written back after it was cleared, by a pause   *)
(*            or by the thread's own last step                               *)
Mishaps == {"busy", "restart", "shared", "reuse", "hasty", "undone"}
Mishap(cond, m) == IF cond THEN {m} ELSE {}

AppStates == {"idle", "start", "stop", "clear", "join", "joining", "free", "pause", "resume"}
ThreadStates == {"none", "start", "open", "startdvr", "loop", "stopdvr", "closedvr",
                 "closefile", "event", "clear", "cleared", "unpause", "unpaused", "done"}

TypeOK ==
    /\ alive \in [Recs -> BOOLEAN] /\ shift \in [Recs -> BOOLEAN] /\ fd \in [Recs -> BOOLEAN]
    /\ flags \in [Recs -> SUBSET FlagSet]
    /\ tfile \in [Recs -> {"none", "open", "closed"}]
    /\ tflag \in [Recs -> {"av", "auto", "detach"}]
    /\ recThread \in [Recs -> Threads \cup {NoThread}]
    /\ owner \in [Recs -> Apps \cup {Nobody}]
    /\ apc \in [Apps -> AppStates] /\ arec \in [Apps -> Recs]
    /\ copy \in [Apps -> SUBSET FlagSet] /\ target \in [Apps -> Threads \cup {NoThread}]
    /\ destroying \in [Apps -> BOOLEAN]
    /\ tpc \in [Threads -> ThreadStates] /\ trec \in [Threads -> Recs]
    /\ told \in [Threads -> BOOLEAN]
    /\ tcopy \in [Threads -> SUBSET FlagSet]
    /\ openCnt \in 0 .. MaxThreads /\ record \in BOOLEAN
    /\ streams \in SUBSET Threads
    /\ mishaps \subseteq Mishaps

Live(r) == {t \in Threads : trec[t] = r /\ tpc[t] \notin {"none", "done"}}
Stopping(r) == \E a \in Apps : arec[a] = r /\ apc[a] \in {"join", "joining"}
Unused == {t \in Threads : tpc[t] = "none"}
Recording(r) == "recording" \in flags[r]

Init ==
    /\ alive = [r \in Recs |-> TRUE]
    /\ flags = [r \in Recs |-> {}]
    /\ shift = [r \in Recs |-> FALSE] /\ fd = [r \in Recs |-> FALSE]
    /\ tfile = [r \in Recs |-> "none"] /\ tflag = [r \in Recs |-> "av"]
    /\ recThread = [r \in Recs |-> NoThread]
    /\ owner = [r \in Recs |-> Nobody]
    /\ apc = [a \in Apps |-> "idle"]
    /\ arec \in Uses
    /\ copy = [a \in Apps |-> {}] /\ target = [a \in Apps |-> NoThread]
    /\ destroying = [a \in Apps |-> FALSE]
    /\ tpc = [t \in Threads |-> "none"]
    /\ trec = [t \in Threads |-> CHOOSE r \in Recs : TRUE]
    /\ told = [t \in Threads |-> FALSE] /\ tcopy = [t \in Threads |-> {}]
    /\ openCnt = 0 /\ record = FALSE /\ streams = {}
    /\ mishaps = {}

----------------------------------------------------------------------------
(* The application.  Nobody calls a recorder that is being destroyed.        *)

Ready(a) ==
    /\ apc[a] = "idle" /\ alive[arec[a]] /\ owner[arec[a]] = Nobody
    /\ \A b \in Apps : ~(destroying[b] /\ arec[b] = arec[a])

(* An application thread takes rec->lock and goes to pc.                     *)
Enter(a, pc) ==
    /\ Ready(a)
    /\ owner' = [owner EXCEPT ![arec[a]] = a]
    /\ apc' = [apc EXCEPT ![a] = pc]
    /\ copy' = [copy EXCEPT ![a] = flags[arec[a]]]
    /\ UNCHANGED arec

(* It lets the lock go and goes to pc.                                       *)
Leave(a, pc) ==
    /\ owner' = [owner EXCEPT ![arec[a]] = Nobody]
    /\ apc' = [apc EXCEPT ![a] = pc]
    /\ copy' = [copy EXCEPT ![a] = {}]

(* am_rec_start_record on a recorder that is recording: the common exit      *)
(* clears the flag and closes the file of the recording that is going on.    *)
StartBusy(a) ==
    /\ Ready(a) /\ Recording(arec[a])
    /\ flags' = [flags EXCEPT ![arec[a]] = @ \ {"recording"}]
    /\ fd' = [fd EXCEPT ![arec[a]] = FALSE]
    /\ mishaps' = mishaps \cup {"busy"}
    /\ UNCHANGED <<alive, shift, tfile, tflag, recThread, owner, appVars,
                   threadVars, dvrVars>>

(* The file is opened, for a time shift only when there is none.             *)
StartFile(a, timeshift) ==
    LET r   == arec[a]
        own == timeshift /\ tflag[r] # "av"
    IN  /\ shift' = [shift EXCEPT ![r] = timeshift]
        /\ fd' = [fd EXCEPT ![r] = ~timeshift]
        /\ tfile' = [tfile EXCEPT ![r] = IF own /\ @ = "none" THEN "open" ELSE @]
        /\ mishaps' = mishaps \cup Mishap(own /\ tfile[r] = "closed", "reuse")
                              \cup Mishap(Live(r) # {} \/ Stopping(r), "restart")

StartOpen(a) ==
    /\ Enter(a, "start") /\ ~Recording(arec[a]) /\ Unused # {}
    /\ \E timeshift \in BOOLEAN :
          /\ timeshift => arec[a] \in Rich
          /\ StartFile(a, timeshift)
    /\ UNCHANGED <<alive, flags, tflag, recThread, target, destroying,
                   threadVars, dvrVars>>

(* Mutant: the flag is left for the thread to set.                           *)
StartThreadUnflagged(a) ==
    /\ apc[a] = "start"
    /\ \E t \in Unused :
          /\ \A u \in Unused : t <= u
          /\ recThread' = [recThread EXCEPT ![arec[a]] = t]
          /\ tpc' = [tpc EXCEPT ![t] = "start"]
          /\ trec' = [trec EXCEPT ![t] = arec[a]]
    /\ Leave(a, "idle")
    /\ UNCHANGED <<alive, flags, shift, fd, tfile, tflag, arec, target,
                   destroying, told, tcopy, dvrVars, mishaps>>

StartThread(a) ==
    /\ apc[a] = "start"
    /\ flags' = [flags EXCEPT ![arec[a]] = copy[a] \cup {"recording"}]
    /\ \E t \in Unused :
          /\ \A u \in Unused : t <= u
          /\ recThread' = [recThread EXCEPT ![arec[a]] = t]
          /\ tpc' = [tpc EXCEPT ![t] = "start"]
          /\ trec' = [trec EXCEPT ![t] = arec[a]]
    /\ Leave(a, "idle")
    /\ UNCHANGED <<alive, shift, fd, tfile, tflag, arec, target,
                   destroying, told, tcopy, dvrVars, mishaps>>

(* Mutant: the flag stays when the thread cannot be created.                 *)
StartFailsFlagged(a) ==
    /\ apc[a] = "start"
    /\ flags' = [flags EXCEPT ![arec[a]] = copy[a] \cup {"recording"}]
    /\ fd' = [fd EXCEPT ![arec[a]] = FALSE]
    /\ Leave(a, "idle")
    /\ UNCHANGED <<alive, shift, tfile, tflag, recThread, arec, target,
                   destroying, threadVars, dvrVars, mishaps>>

(* The file cannot be opened or the thread not be created: RECORD_END is     *)
(* signalled at once.                                                        *)
StartFails(a) ==
    LET r == arec[a]
    IN  /\ apc[a] = "start"
        /\ flags' = [flags EXCEPT ![r] = copy[a] \ {"recording"}]
        /\ fd' = [fd EXCEPT ![r] = FALSE]
        /\ Leave(a, "idle")
        /\ UNCHANGED <<alive, shift, tfile, tflag, recThread, arec, target,
                       destroying, threadVars, dvrVars, mishaps>>

(* AM_REC_StopRecord, alone or as the first part of AM_REC_Destroy.          *)
Stop(a, destroy) ==
    /\ Enter(a, "stop")
    /\ destroy => \A b \in Apps \ {a} : ~(apc[b] # "idle" /\ arec[b] = arec[a])
    /\ destroying' = [destroying EXCEPT ![a] = destroy]
    /\ UNCHANGED <<alive, flags, shift, fd, tfile, tflag, recThread, target,
                   threadVars, dvrVars, mishaps>>

Stopped(a) == IF destroying[a] THEN "free" ELSE "idle"

StopUnpause(a) ==
    LET r == arec[a]
        f == copy[a] \ {"paused"}
    IN  /\ apc[a] = "stop"
        /\ flags' = [flags EXCEPT ![r] = f]
        /\ IF "recording" \in f
           THEN /\ copy' = [copy EXCEPT ![a] = f]
                /\ apc' = [apc EXCEPT ![a] = "clear"] /\ UNCHANGED owner
           ELSE Leave(a, Stopped(a))
        /\ UNCHANGED <<alive, shift, fd, tfile, tflag, recThread, arec, target,
                       destroying, threadVars, dvrVars, mishaps>>

(* Mutant: the thread is not waited for.                                     *)
StopClearNoJoin(a) ==
    /\ apc[a] = "clear"
    /\ flags' = [flags EXCEPT ![arec[a]] = copy[a] \ {"recording"}]
    /\ Leave(a, Stopped(a))
    /\ UNCHANGED <<alive, shift, fd, tfile, tflag, recThread, arec, target,
                   destroying, threadVars, dvrVars, mishaps>>

StopClear(a) ==
    LET r == arec[a]
    IN  /\ apc[a] = "clear"
        /\ flags' = [flags EXCEPT ![r] = copy[a] \ {"recording"}]
        /\ Leave(a, "join")
        /\ mishaps' = mishaps
              \cup Mishap(\E t \in Live(r) : tpc[t] = "start", "hasty")
        /\ UNCHANGED <<alive, shift, fd, tfile, tflag, recThread, arec, target,
                       destroying, threadVars, dvrVars>>

(* The thread to join is read after the lock was let go.                     *)
StopJoin(a) ==
    /\ apc[a] = "join"
    /\ target' = [target EXCEPT ![a] = recThread[arec[a]]]
    /\ apc' = [apc EXCEPT ![a] = "joining"]
    /\ UNCHANGED <<recVars, arec, copy, destroying, threadVars, dvrVars, mishaps>>

StopJoined(a) ==
    /\ apc[a] = "joining" /\ owner[arec[a]] = Nobody
    /\ tpc[target[a]] = "done"
    /\ apc' = [apc EXCEPT ![a] = Stopped(a)]
    /\ target' = [target EXCEPT ![a] = NoThread]
    /\ UNCHANGED <<recVars, arec, copy, destroying, threadVars, dvrVars, mishaps>>

Free(a) ==
    /\ apc[a] = "free"
    /\ alive' = [alive EXCEPT ![arec[a]] = FALSE]
    /\ apc' = [apc EXCEPT ![a] = "idle"]
    /\ destroying' = [destroying EXCEPT ![a] = FALSE]
    /\ UNCHANGED <<flags, shift, fd, tfile, tflag, recThread, owner, arec, copy, target,
                   threadVars, dvrVars, mishaps>>

(* AM_REC_PauseRecord and AM_REC_ResumeRecord, called in turn.               *)
Pause(a) ==
    /\ arec[a] \in Rich
    /\ Enter(a, IF "paused" \in flags[arec[a]] THEN "resume" ELSE "pause")
    /\ UNCHANGED <<alive, flags, shift, fd, tfile, tflag, recThread, target,
                   destroying, threadVars, dvrVars, mishaps>>

(* Mutant: a pause sets the flags instead of adding one.                     *)
PauseWriteSets(a) ==
    /\ apc[a] \in {"pause", "resume"}
    /\ flags' = [flags EXCEPT ![arec[a]] =
          IF apc[a] = "pause" THEN {"paused"} ELSE copy[a] \ {"paused"}]
    /\ Leave(a, "idle")
    /\ UNCHANGED <<alive, shift, fd, tfile, tflag, recThread, arec, target,
                   destroying, threadVars, dvrVars, mishaps>>

PauseWrite(a) ==
    LET r == arec[a]
    IN  /\ apc[a] \in {"pause", "resume"}
        /\ flags' = [flags EXCEPT ![r] =
              IF apc[a] = "pause" THEN copy[a] \cup {"paused"} ELSE copy[a] \ {"paused"}]
        /\ mishaps' = mishaps \cup Mishap("recording" \in copy[a] \ flags[r], "undone")
        /\ Leave(a, "idle")
        /\ UNCHANGED <<alive, shift, fd, tfile, tflag, recThread, arec, target,
                       destroying, threadVars, dvrVars>>

(* AM_REC_SetTFile as am_timeshift_new_test.c:340-371 uses it: before a      *)
(* recording, to have the recorder create its file or to give it one to      *)
(* keep; during one, to keep the file the recorder has created.              *)
SetTFile(a) ==
    /\ Ready(a) /\ arec[a] \in Rich
    /\ \E file \in {"none", "open"} :
          LET r == arec[a] IN
          /\ \/ Live(r) = {} /\ tflag[r] = "av"
             \/ tflag[r] = "auto" /\ tfile[r] = "open" /\ file = "open"
          /\ tfile' = [tfile EXCEPT ![r] = file]
          /\ tflag' = [tflag EXCEPT ![r] = IF file = "none" THEN "auto" ELSE "detach"]
    /\ UNCHANGED <<alive, flags, shift, fd, recThread, owner, appVars,
                   threadVars, dvrVars, mishaps>>

----------------------------------------------------------------------------
(* The recording thread, am_rec_record_thread.                               *)

Step(t, from, to) == tpc[t] = from /\ tpc' = [tpc EXCEPT ![t] = to]

ThreadStart(t) ==
    /\ Step(t, "start", "open")
    /\ told' = [told EXCEPT ![t] = Recording(trec[t])]
    /\ UNCHANGED <<recVars, appVars, trec, tcopy, dvrVars, mishaps>>

(* AM_DVR_Open: the driver is opened by the first user only.                 *)
ThreadOpen(t) ==
    /\ Step(t, "open", "startdvr")
    /\ openCnt' = openCnt + 1
    /\ record' = (record /\ openCnt > 0)
    /\ mishaps' = mishaps \cup Mishap(openCnt > 0, "shared")
    /\ UNCHANGED <<recVars, appVars, trec, told, tcopy, streams>>

ThreadOpenFails(t) ==
    /\ Step(t, "open", "closefile") /\ openCnt = 0
    /\ UNCHANGED <<recVars, appVars, trec, told, tcopy, dvrVars, mishaps>>

(* AM_DVR_StartRecord, refused while the device is recording.                *)
ThreadStartDvr(t) ==
    /\ ~record /\ Step(t, "startdvr", "loop")
    /\ record' = TRUE
    /\ streams' = {t}
    /\ UNCHANGED <<recVars, appVars, trec, told, tcopy, openCnt, mishaps>>

(* Mutant: the device stays open when it refuses to record.                  *)
ThreadStartDvrFailsOpen(t) ==
    /\ Step(t, "startdvr", "closefile")
    /\ UNCHANGED <<recVars, appVars, trec, told, tcopy, dvrVars, mishaps>>

ThreadStartDvrFails(t) ==
    /\ Step(t, "startdvr", "stopdvr")
    /\ UNCHANGED <<recVars, appVars, trec, told, tcopy, dvrVars, mishaps>>

(* The loop ends because it is told to, or by itself: the time is up or the  *)
(* disk is full; or because the file it writes to was closed.                *)
ThreadStops(t) ==
    /\ ~Recording(trec[t]) /\ Step(t, "loop", "stopdvr")
    /\ UNCHANGED <<recVars, appVars, trec, told, tcopy, dvrVars, mishaps>>

ThreadEnds(t) ==
    /\ Step(t, "loop", "stopdvr")
    /\ UNCHANGED <<recVars, appVars, trec, told, tcopy, dvrVars, mishaps>>

NoFile(r) == IF shift[r] THEN tflag[r] # "av" /\ tfile[r] # "open" ELSE ~fd[r]

ThreadLosesFile(t) ==
    /\ NoFile(trec[t]) /\ "paused" \notin flags[trec[t]]
    /\ t \in streams
    /\ Step(t, "loop", "stopdvr")
    /\ UNCHANGED <<recVars, appVars, trec, told, tcopy, dvrVars, mishaps>>

(* AM_DVR_StopRecord and AM_DVR_Close stop whatever streams the device has;  *)
(* the driver is closed whoever else has the device open.                    *)
ThreadStopDvr(t) ==
    /\ Step(t, "stopdvr", "closedvr")
    /\ record' = FALSE
    /\ streams' = IF record THEN {} ELSE streams
    /\ UNCHANGED <<recVars, appVars, trec, told, tcopy, openCnt, mishaps>>

ThreadCloseDvr(t) ==
    /\ Step(t, "closedvr", "closefile")
    /\ streams' = {}
    /\ record' = FALSE
    /\ openCnt' = openCnt - 1
    /\ UNCHANGED <<recVars, appVars, trec, told, tcopy, mishaps>>

(* rec->tfile still points to the file that is closed here.                  *)
ThreadCloseFile(t) ==
    LET r == trec[t]
    IN  /\ Step(t, "closefile", "event")
        /\ fd' = [fd EXCEPT ![r] = FALSE]
        /\ tfile' = [tfile EXCEPT ![r] =
              IF tflag[r] # "detach" /\ @ = "open" THEN "closed" ELSE @]
        /\ UNCHANGED <<alive, flags, shift, tflag, recThread, owner, appVars,
                       trec, told, tcopy, dvrVars, mishaps>>

(* Only a thread that saw the flag when it began tells the end and clears    *)
(* the flags.                                                                *)
ThreadTells(t) ==
    /\ told[t] /\ Step(t, "event", "clear")
    /\ told' = [told EXCEPT ![t] = FALSE]
    /\ UNCHANGED <<recVars, appVars, trec, tcopy, dvrVars, mishaps>>

ThreadSilent(t) ==
    /\ ~told[t] /\ Step(t, "event", "done")
    /\ UNCHANGED <<recVars, appVars, trec, told, tcopy, dvrVars, mishaps>>

ThreadRead(t, from, to) ==
    /\ Step(t, from, to)
    /\ tcopy' = [tcopy EXCEPT ![t] = flags[trec[t]]]
    /\ UNCHANGED <<recVars, appVars, trec, told, dvrVars, mishaps>>

ThreadWrite(t, from, flag, to) ==
    /\ Step(t, from, to)
    /\ flags' = [flags EXCEPT ![trec[t]] = tcopy[t] \ {flag}]
    /\ tcopy' = [tcopy EXCEPT ![t] = {}]
    /\ mishaps' = mishaps
          \cup Mishap("recording" \in tcopy[t] \ (flags[trec[t]] \cup {flag}), "undone")
    /\ UNCHANGED <<alive, shift, fd, tfile, tflag, recThread, owner, appVars,
                   trec, told, dvrVars>>

ThreadClears(t) ==
    \/ ThreadRead(t, "clear", "cleared")
    \/ ThreadWrite(t, "cleared", "recording", "unpause")
    \/ ThreadRead(t, "unpause", "unpaused")
    \/ ThreadWrite(t, "unpaused", "paused", "done")

----------------------------------------------------------------------------
Call(a) ==
    \/ StartBusy(a) \/ StartOpen(a)
    \/ \E destroy \in BOOLEAN : Stop(a, destroy)
    \/ Pause(a) \/ SetTFile(a)
InCall(a) ==
    \/ StartThread(a) \/ StartFails(a)
    \/ StopUnpause(a) \/ StopClear(a) \/ StopJoin(a) \/ StopJoined(a)
    \/ Free(a) \/ PauseWrite(a)
Thread(t) ==
    \/ ThreadStart(t) \/ ThreadOpen(t) \/ ThreadOpenFails(t)
    \/ ThreadStartDvr(t) \/ ThreadStartDvrFails(t)
    \/ ThreadStops(t) \/ ThreadLosesFile(t)
    \/ ThreadStopDvr(t) \/ ThreadCloseDvr(t) \/ ThreadCloseFile(t)
    \/ ThreadTells(t) \/ ThreadSilent(t) \/ ThreadClears(t)

Next == \/ \E a \in Apps : Call(a) \/ InCall(a)
        \/ \E t \in Threads : Thread(t) \/ ThreadEnds(t)
Spec == Init /\ [][Next]_vars

----------------------------------------------------------------------------
Users == {t \in Threads : tpc[t] \in {"startdvr", "loop", "stopdvr", "closedvr"}}

(* The device is open exactly as often as there are threads between          *)
(* AM_DVR_Open and AM_DVR_Close, and a closed device has no stream left.  A  *)
(* thread in its loop has its streams, unless somebody opened the device     *)
(* beside it.                                                                *)
DeviceHeld ==
    /\ openCnt = Cardinality(Users)
    /\ openCnt = 0 => ~record /\ streams = {}
    /\ "shared" \notin mishaps =>
          \A t \in Threads : tpc[t] = "loop" => record /\ streams = {t}

(* A recording goes on until somebody stops it or it ends by itself: its     *)
(* flag does not vanish under it, and neither does its file.                 *)
RecordingNotCut ==
    mishaps \cap {"busy", "restart"} = {} =>
        \A t \in Threads :
            /\ tpc[t] \in {"open", "startdvr", "loop"} /\ ~Recording(trec[t]) =>
                  Stopping(trec[t])
            /\ tpc[t] = "loop" /\ NoFile(trec[t]) => "reuse" \in mishaps

(* RECORD_END is signalled for every recording whose thread got as far as    *)
(* reading the flags before it was stopped.                                  *)
EndTold ==
    mishaps \cap {"hasty", "busy", "restart"} = {} =>
        \A t \in Threads : tpc[t] \notin {"none", "start", "clear", "cleared", "unpause",
                                         "unpaused", "done"} => told[t]

(* A thread that outlives its recorder has told the end, has given back      *)
(* device and file and has cleared "recording"; only the flag "paused" is    *)
(* left to clear, in freed memory.                                           *)
OutlivesOnlyByAFlag ==
    mishaps \cap {"busy", "restart"} = {} =>
        \A t \in Threads : ~alive[trec[t]] =>
            tpc[t] \in {"none", "unpause", "unpaused", "done"}

(* The flag and the thread agree.  "recording" means that there is a thread  *)
(* that will clear it, so that a recorder is never refused as busy for good; *)
(* and whoever joins a thread gets back from it: the thread is there, and is *)
(* on its way out or will see that the recording is over.                    *)
FlagAndThreadAgree ==
    /\ "undone" \notin mishaps =>
          \A r \in Recs : Recording(r) /\ owner[r] = Nobody => Live(r) # {}
    /\ "restart" \notin mishaps =>
          \A a \in Apps : apc[a] = "joining" =>
              /\ target[a] # NoThread
              /\ tpc[target[a]] \in {"start", "open", "startdvr", "loop"} =>
                    ~Recording(arec[a])

----------------------------------------------------------------------------
(* What makes these invariants inductive.                                    *)

(* A thread in one of these places has yet to clear "recording".             *)
BeforeClear == {"start", "open", "startdvr", "loop", "stopdvr", "closedvr",
                "closefile", "event", "clear", "cleared"}
Before(r) == {t \in Threads : trec[t] = r /\ tpc[t] \in BeforeClear}
Holding == {"start", "stop", "clear", "pause", "resume"}

(* rec->lock is held by who is in a critical section, and the flags it has   *)
(* read are of that section.                                                 *)
LockHeld ==
    \A a \in Apps : IF apc[a] \in Holding THEN owner[arec[a]] = a
                                          ELSE copy[a] = {}

(* AM_REC_Destroy is alone with its recorder, and the last to touch it.      *)
DestroyAlone ==
    /\ \A a \in Apps : destroying[a] =>
          \A b \in Apps \ {a} : arec[b] = arec[a] => apc[b] = "idle"
    /\ \A a \in Apps : apc[a] = "free" => destroying[a]
    /\ \A a \in Apps : ~alive[arec[a]] => apc[a] = "idle" /\ ~destroying[a]

(* rec_thread is a thread of the recorder, from the first recording on.      *)
ThreadKnown ==
    /\ \A r \in Recs : recThread[r] # NoThread =>
          tpc[recThread[r]] # "none" /\ trec[recThread[r]] = r
    /\ \A r \in Recs : Recording(r) => recThread[r] # NoThread
    /\ \A a \in Apps : "recording" \in copy[a] \/ apc[a] \in {"clear", "join", "joining"} =>
          recThread[arec[a]] # NoThread
    /\ \A t \in Threads : tpc[t] # "none" => recThread[trec[t]] # NoThread

OneUser ==
    "shared" \notin mishaps => \A t, u \in Users : t = u

(* "recording" is up only while a thread that will clear it is there, but in *)
(* AM_REC_StopRecord, which may write it back just before it clears it.      *)
ClearerThere ==
    "undone" \notin mishaps =>
        \A r \in Recs :
            Recording(r) /\ (\A a \in Apps : arec[a] = r => apc[a] # "clear") =>
                \E t \in Before(r) : tpc[t] \in {"start", "clear", "cleared"} \/ told[t]

(* One recording follows the other: a recorder has one thread at a time.     *)
OneThread ==
    "restart" \notin mishaps =>
        /\ \A t \in Threads : tpc[t] \notin {"none", "done"} => recThread[trec[t]] = t
        /\ \A a \in Apps :
              /\ apc[a] = "start" => Live(arec[a]) = {} /\ ~Stopping(arec[a])
              /\ apc[a] = "joining" => target[a] = recThread[arec[a]]

(* Until that thread clears "recording", it is down if and only if the       *)
(* recording is being stopped, and an application's copy of it is true.      *)
FlagTells ==
    "restart" \notin mishaps =>
        \A t \in Threads : tpc[t] \in BeforeClear =>
            /\ Stopping(trec[t]) => ~Recording(trec[t])
            /\ "busy" \notin mishaps /\ ~Recording(trec[t]) => Stopping(trec[t])
            /\ \A a \in Apps : arec[a] = trec[t] /\ apc[a] \in Holding =>
                  ("recording" \in copy[a] <=> Recording(trec[t]))

(* Nothing is left to clear when the recorder is to be freed.                *)
FreedClear ==
    mishaps \cap {"busy", "restart"} = {} =>
        \A a \in Apps : apc[a] = "free" => Before(arec[a]) = {}

FileHeld ==
    mishaps \cap {"busy", "restart", "reuse"} = {} =>
        /\ \A a \in Apps : apc[a] = "start" => ~NoFile(arec[a])
        /\ \A t \in Threads :
              tpc[t] \in {"start", "open", "startdvr", "loop", "stopdvr",
                          "closedvr", "closefile"} => ~NoFile(trec[t])

StartSeesFlag ==
    mishaps \cap {"hasty", "busy", "restart"} = {} =>
        \A t \in Threads : tpc[t] = "start" => Recording(trec[t])

Inv ==
    /\ TypeOK /\ LockHeld /\ DestroyAlone /\ ThreadKnown
    /\ DeviceHeld /\ OneUser /\ ClearerThere
    /\ OneThread /\ FlagTells /\ FreedClear /\ FileHeld
    /\ StartSeesFlag /\ EndTold /\ OutlivesOnlyByAFlag
=============================================================================
