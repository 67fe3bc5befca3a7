# A specification of vendor-dvb in TLA+

This directory holds TLA+ models of the parts of vendor-dvb whose difficulty is
concurrency, the TLC configurations that check them, and proofs for TLAPS.
References such as `am_dmx.c:842` are to the repository's files.

## 1. The system

vendor-dvb is the digital-television stack of a set-top box, in C, in two layers
of libraries over the kernel's DVB drivers and a thin application.

* **am_adp**, the adaptation layer: one module per device. Each keeps a static
  table of devices; a device has an `open_count`, a mutex `dev->lock`, and most
  have a thread that waits for the driver and runs callbacks.
* **am_mw**, the middleware: EPG, scan, recording, subtitles, CA. A middleware
  object ("monitor") has a thread, a mutex and an event flag, and is driven by
  callbacks of the adaptation layer and by calls of the application.
* **am_app**: the television application.

### 1.1 Components

| component | state | operations | who calls whom |
|---|---|---|---|
| `am_evt` | hash table of registrations, one rwlock | Subscribe, Unsubscribe, Signal | devices signal; EPG, scan subscribe; callbacks run under the read lock |
| `am_dmx` | devices, filters, data thread, `DMX_FL_RUN_CB` | Open, Close, AllocateFilter, SetSecFilter, SetCallback, StartFilter, StopFilter, FreeFilter, Sync, SetSource | the data thread calls clients with no lock held; clients call back into the API |
| `am_dmx` drivers | fds (`linux_dvb`), channels and a section parser (`dvr`) | poll, read, enable | called by the data thread |
| `am_fend`, `am_vlfend` | device, tuner, registered callback, flags | Open, Close, Lock, SetPara, SetCallback, SetActionCallback, BlindScan, BlindExit | monitor thread signals on `am_evt` and runs the callback |
| `am_epg` | per table: fid, sections seen, check time; `evt_flag`, `mode` | Create, Destroy, ChangeMode, MonitorService, check-time setters | filters of `am_dmx`, events of `am_fend` through `am_evt`, SQL database |
| `am_scan` | stage, table controls, service lists, `evt_flag` | Create, Start, Destroy, Pause, Resume | `am_fend` (Lock, BlindScan), `am_dmx`, database |
| `am_tfile` | ring of subfiles, read and write positions | Open, Read, Write, Seek, Close, timer | recorder writes, player reads |
| `am_dvr`, `am_rec` | stream table; recorder state and thread | StartRecord, StopRecord, SetPlayer... | `am_rec` over `am_dvr` over `am_dmx`, writing to `am_tfile` |
| `am_av` | decoder state, injection and time-shift threads | Start/Stop of TS, files, time shift | kernel decoder, amplayer, `am_tfile` |
| `am_userdata`, `am_pes`, `am_ad` | ring buffers | Open, Read, Close | callbacks of `am_dmx` |
| `am_caman`, `ca_ci`, `am_ci` | the service, events `tsevt`, three tables, lists of CAs and their messages; the CI device and its thread | StartService, StopService, Register, Open, Close, GetMsg, PutMsg, Pause of a CA manager; startpmt, stoppmt, match of a CA | tables from `am_si`'s section filters over `am_dmx`; the CI's thread sends messages up to the manager |
| `am_smc`, `am_dsc`, `am_kl` | card, channels | CA support | application, drivers |
| `am_upd`, `am_sec`, `am_fend_ctrl` | update monitor; satellite equipment | timed sequences | `am_dmx`, `am_fend` |
| `am_si`, `am_db`, `am_cc`, `am_sub`, `am_tt`, `am_scte27`, graphics | parsers, database, rendering | sequential code | middleware |

The complete list, with a status for each, is `components` in `PROJECT.json`.

### 1.2 What is hard, and what would make it right

* **Callbacks outside locks.** `dmx_data_thread` copies a filter's callback under
  the lock and calls it after the unlock (`am_dmx.c:195-233`), so a stopped or
  freed filter's callback may still run. Everything above rests on
  `AM_DMX_Sync`. *Right*: after Sync, a client without running filters gets no
  callback; the middleware that waits so does not deadlock with its own callback.
* **Joins under a global lock.** The last Close of a device, and BlindExit, join
  a thread with `am_gAdpLock` held. *Right*: the thread needs nothing its joiner
  holds; the open count is exact; no second thread is started.
* **Callbacks under a lock.** `AM_EVT_Signal` runs them with the rwlock held for
  reading. *Right*: an object is freed only after no walk can reach it, and its
  mutex is not held when it is destroyed.
* **A record on another thread's stack.** `AM_FEND_Lock` registers one as
  callback data. *Right*: used only while the call waits; the status it returns
  is of its own parameters although events of earlier tunings may be late.
* **Flags copied and cleared.** The EPG thread works on a copy of `evt_flag`
  while new bits are raised. *Right*: no event is lost, nobody sleeps on one, a
  table that is to be monitored is not forgotten.
* **Reused identifiers.** A demux filter number is given to another table as
  soon as it is free. *Right*: no section reaches a table it was not taken for.
* **Two descriptions of one place.** A time-shift file has logical offsets and the
  positions of file descriptors; the writer moves data outside the lock. *Right*: a
  read delivers the stream in order through every wrap, seek and write in progress.
* **A flag word without a lock.** The recorder's thread changes `stat_flag` while
  start, stop and pause do. *Right*: device, file, flag and thread agree; every
  recording's end is told; whoever joins a thread gets back.
* **A scan that nobody watches.** The scanner sleeps with a time limit or without,
  leaves a frequency when its tables have come, and is called back by three other
  threads. *Right*: it sleeps for a reason, leaves no frequency without an answer, and
  joins nobody that needs what it holds.
* **Two directions through three locks.** The CA manager calls a CA with its lock held
  and the CI takes two more; a message of the CAM takes the same three from below. The
  demux changes the manager's events with no lock at all. *Right*: a CA works on the PMT of
  the service, the stream stays watched, what is used is not freed, an open CAM is heard;
  where this can block is known.
* **Condition variables** used as flags with broadcasts after the unlock, and one
  variable for two purposes. *Right*: no lost wake-up.

`hazards` in `PROJECT.json` lists each at its line, with the properties that
cover it or the reason none does yet.

## 2. The modules

| module | models | extends |
|---|---|---|
| `CallbackGate` | abstract: what a device promises to clients whose callbacks it runs | |
| `AmDmx` | `am_dmx.c` with both drivers; implements `CallbackGate` | |
| `AmEvt` | `am_evt.c` composed with the monitors that subscribe and the devices that signal | |
| `AmFend` | `am_fend.c`, and the lock callback of `am_vlfend.c` | |
| `AmEpg` | `am_epg.c`: monitor thread, section callback, application | |
| `AmTfile` | `am_tfile.c`: the ring of subfiles, one writer, one reader | |
| `AmRec` | `am_rec.c` composed with `am_dvr.c`: applications and recording threads | |
| `AmScan` | `am_scan.c`: the scanner's thread against the demux, the frontend, the blind scan and the application | |
| `AmCaman` | `am_caman.c` with `ca_ci.c` and `am_ci.c` under it: the manager's thread, the demux, the CAM's thread, the application | |
| `MC...` | instances for TLC | the module |
| `AmEvtProofs`, `AmDmxProofs`, `AmEpgProofs`, `AmFendProofs`, `AmRecProofs`, `AmTfileProofs`, `AmCamanProofs`, `AmScanProofs` | theorems on the safety of each; `AmDmxProofs` also has the refinement of `CallbackGate` | the module |

A definition named `...NoSync`, `...Forgets` and so on, with a comment "Mutant",
is a plausible mistake in the action after it. It belongs to no specification; it
stands for the change to the code that breaks the property named with it in
`PROJECT.json`.

A history variable `mishaps` appears in `AmTfile`, `AmRec`, `AmScan` and `AmCaman`. The code there
lets certain things happen and does not repair them (a reader that is overrun, a start
that is refused and closes the running recording's file, a demux without a filter). They
are in the model, each under a name that its module explains, and a property says in its
premise which of them it does not survive. What is left is what the code does
guarantee; each name in a premise is needed, the property fails without it.

Common conventions. A lock that is held only over straight-line code is not a
variable: the section under it is one action. A lock held over a wait (a join, a
call to another module, a callback) has its owner in the state. Program counters
name the place in the code where a thread lets go of a lock or waits.
Section contents, tuning parameters and statuses are members of small sets.

### 2.1 AmEvt

`events` is the hash table (as a set of nodes: the order of a bucket's list decides
nothing), `readers` the rwlock. `Subscribe` is two actions because the code is two
critical sections: `SubscribeCheck` looks for an equal registration under the read
lock, `SubscribeInsert` adds one under the write lock. `SignalCall`/`CallbackLock`/
`CallbackReturn` walk the bucket and run the callback, which takes the monitor's
mutex as `am_epg_fend_callback` does. The monitor's side is `am_epg_thread`:
it subscribes, waits, signals its own events with its mutex released, and at its
end unsubscribes and destroys the mutex. glibc's default rwlock lets readers
overtake a waiting writer, so the model blocks a reader only on a writer that
*holds* the lock, which no step leaves it holding.

### 2.2 AmDmx and CallbackGate

The data thread is `ThreadPoll`, `ThreadSetRun`, `ThreadCheck`, `ThreadRead`, `ThreadReturn`,
`ThreadClear`, `ThreadBroadcast`: poll without a lock, raise `DMX_FL_RUN_CB`, look at each ready
filter under the lock, read it and copy the callback, call it unlocked, clear the
flag, broadcast. With `drv = "sw"` the thread calls the callbacks from inside poll
(`dvr.c`) and returns an empty mask, so the flag is never raised. `SetSource`
is two critical sections, the second under `am_gAdpLock`, which a closing thread may
hold. A client is a thread with one callback; its handle is what it was given by
AllocateFilter, and it uses only handles it has.

`CallbackGate` has a gate per client (`open`, `closing`, `shut`) and at most one
callback. The mapping calls a gate shut when the history variable `quiet` says the
client has passed Sync with no filter running, open while an enabled filter leads
to it, closing in between; `running` is the callback of the hardware driver's
loop. The mapping leaves out callbacks of the software driver: there the promise
does not hold (section 6).

### 2.3 AmFend

`fend_thread` is `MonitorEvent`, `MonitorSetRun`, `MonitorRun`, `MonitorClear`,
`MonitorBroadcast`; `LockCb` and `LockCbChain` are `fend_lock_cb`. The tuner is `tuned`, the
parameters it has yet to report on; an event of earlier ones may already have
been read. `AM_FEND_Lock` is `Lock` (wait for callbacks, save and replace the callback,
set the parameters), the wait, `LockWoken` (restore). `CheckPara` tells am_fend.c
from am_vlfend.c. The blind-scan thread and its exit by cancel and join are there,
because they decide when the monitor thread runs at all. `AM_FEND_BlindScan` does not look whether
a scan is going on: a second call overwrites `dev->blindscan_thread` (`am_fend.c:1617`), whose
thread is `Last`, and the thread of the first goes on as one of the `Strays`. `AM_FEND_BlindExit`
joins `Last` (1646), so a stray that is in the callback, or has looked at the flag just
before, calls back after `AM_FEND_BlindExit` has returned and even after the last Close; and one
that has not seen the flag down when the next scan sets it again goes on with that scan.
`NoBlindCallbackAfterExit` promises nothing of strays and everything of `Last`. Two things the
clients of the model do, and the code does not ask for: they call BlindExit only for a scan they have
started, and end their scan before they close the device.

### 2.4 AmEpg

`mpc` is the place of `am_epg_thread`; `batch` its local `evt_flag`; `todo` what it has
still to do with the batch, as a list of tasks: the done handlers in the order of
`am_epg_thread`, then the tables in the order of `am_epg_set_mode` if the mode was
changed. A done handler is `MonitorFree` (or `MonitorNothingToFree`), `MonitorSynced`,
`MonitorNotify`, and `MonitorDoneAgain` or `MonitorDoneTimed`; `SET_MODE` is `MonitorModeOn`,
or the freeing and `MonitorModeOff`. `Request` chooses the smallest free filter as
`AM_DMX_AllocateFilter` does and may fail before or after the allocation.
The demux is reduced to what AmDmx shows of the hardware driver: `Capture` chooses
the callback of a running filter, one `Section...` action delivers it, and Sync
waits for `dmx = NoCall`. `complete` is the state of a table of one subtable whose
sections have all arrived; `failed` is history.

Assumed there: the application registers `evt_cb`, so the thread wakes by itself
only for refreshes; ChangeMode is not called after Destroy and Destroy not during
ChangeMode, which the API leaves to the caller.

### 2.5 AmTfile

The offsets `size`, `avail`, `total`, `start`, `read`, `write` are those of
`struct AM_TFileData_s`; `rfd` and `wfd` are the current subfile of each side and the
position of its descriptor; `disk` holds, for each unit of a subfile, its number in the
stream, so that what a read delivers can be compared with what it should. `WriteBegin`,
`WriteFirst`, `WriteSecond`, `WriteAdjust`, `WriteDone` are `AM_TFile_Write` between its
locks; a part may stop short (`Faults`). `frags` is the timer's list, whose oldest entries
`WriteAdjust` drops until there is room (`Removals`); when the list runs out the code walks
past its head with the lock held (`WriteHangs`). One thread reads and seeks.

Three corrections to this module were found by its proof, not by a run: a list
of fragments also runs out when the last fragment and the write after it are more than the ring
together (`coarse`); a timer that is started while a write is between its two parts is as
`late` as one that is started after data was published; and `read` and `write` lie within the ring
only while the ring has a size at all (a duration of 0 cuts it to nothing).

### 2.6 AmRec

`apc` is the place of an application thread in a call and `tpc` that of a recording
thread. `flags |= x` is a read (`copy`, `tcopy`) and a write, because `am_rec_record_thread`
never takes `rec->lock`. The device keeps `openCnt`, `record`, and the threads whose streams run:
`AM_DVR_StopRecord` and `AM_DVR_Close` stop all streams, whoever started them.
`SetTFile` is used as `am_timeshift_new_test.c:340-371` does. Nobody calls a recorder
that is being destroyed; nothing else is asked of the callers.

### 2.7 AmScan

The scanner's thread holds `scanner->lock` but while it waits and in the windows it
opens: to signal an event, and to free a filter and wait in `AM_DMX_Sync`. Since its
handlers call each other across such windows, what it still has to do is a stack of calls,
`agenda`; `At(op)` is its top, `Then` replaces it, `Signal` replaces it and opens a window.
The calls have the names of the functions: `done` of a table, `slot` of
`am_scan_request_pmts`, `trynit`, `ts`, `next` and `tune` of the two loops over the frequencies.
A critical section of another thread is one step, taken when the lock is free. What another thread
does without the lock (the demux reads, the frontend has a status, the blind scan goes
on, the application sets `status`) is enabled only when the scanner's thread
lets go or blocks (`Outside`): such a step touches nothing that thread uses with the lock but
`status` and the filters, a section can be read before or after the step that frees its
filter, and `AM_SCAN_Pause` before or after the step that looks at `status`, so the
behaviours that are left out differ from one that is there in the order of two
independent steps only.

Time is `expired`, the tables whose limit has passed; it is read once per pass, as
`AM_TIME_GetTimeSpec` is. A table has one section, or two if it is in `Long`.

`cnt` is `start_freqs_cnt`, or `NoList` when `start_freqs` is NULL. The end of a scan resets
`curr_freq` only with a list (`am_scan.c:3994`), so a scan that comes to its end without one keeps
the index it tried, and the next pass over the time limits reads the NULL list at it (`am_scan.c:5573`,
`ReadsNull` in `Check`): the step crashes. The runs reach this in two ways: a NIT
that describes no transport stream, and a NIT that is handled after the scan of all bands of a
terrestrial network has ended and freed its list. Both are the mishap `unlisted`; after it `curr` is any
index, as `TypeOK` says, and `NothingFreedIsUsed` and `FrequencyAnswered` except it.

### 2.8 AmCaman

The manager's thread and the application work with `man->lock` held, and the calls they
make call each other across waits, so what the holder of the lock has yet to do is a stack of
calls, `agenda`, as in `AmScan`; `Worker` is the thread that works it off. The end of the
stack gives the lock back. `Look`, `NewTable`, `MonitorTable` and `Handled` are what `caman_thread` does with its events;
`StopTable`, `Synced`, `StartTable`, `RunTable` the tables over `am_dmx`; `Arrange`, `Unmatch`, `Match`,
`Collect` are `match_ca_auto`. `SectionDecodes` and `SectionEnds` are the demux' callback: it reads
`tsevt` in one and writes it in the other, because `tsevt |= x` has no lock there and a
holder of the lock may write in between, or be writing at the same time.

`clock` is `ca_ci->lock`, which each call into `ca_ci.c` takes (`Enter`) and gives back (`Leave`), and
`cilock` the lock of the CI below it. The CAM's thread takes `cilock`, then `clock`, then
`man->lock` (`CamInfo`, `CamSends`, `CamAdds`). `AM_CI_Stop` is `StopCi` and waits in `CloseCa` until that
thread has gone. `Collect` has no step when a CA has been dropped: the loop at
`am_caman.c:737` ends when it meets the head of the list it began in, and does not,
because the CA it has just moved leads it into the other list.

`given` is history: the service of the manager, and the program of its PMT, when the CA
was told to start. `air` is the version of each table in the stream; the version of the PAT stands for
the PMT's pid. A CAT or PMT has one CA descriptor, always. The names in `Mishaps`
are explained at its definition; beyond those the properties hold.

## 3. Runs

All bounds are in the cfg files. One run has a state constraint, `caman` (`Followed` in
`MCAmCaman`, below), and a symmetry, of the two services, which no definition tells apart.
`CHECK_DEADLOCK FALSE` appears where the system stops: after AM_EPG_Destroy, when the
recorders are freed, when as much has been written as the bound allows; and in `caman`,
where the threads can block each other for ever: there `OnlyTheCamBlocks` says where.

| run | instance | question | answer |
|---|---|---|---|
| `evt` | 2 monitors with different callbacks, 2 devices | does a callback ever run on a dead object, is a held mutex destroyed, does Signal return? | holds |
| `dmx` | 2 clients, a filter they pass to each other, both drivers | barrier (hardware), thread life, wake-ups, the gate; do Close and Sync return? | holds |
| `dmx_sw` | software driver | is Sync a barrier? | **violated** |
| `fend` | 1 tuning thread, 1 scanning thread, 2 parameters, 1 stray blind scan | is Lock's status its own, its record alive, do Lock, Close, BlindExit return? | holds |
| `vlfend` | one thread, `CheckPara = FALSE` | is Lock's status its own? | **violated** |
| `epg` | tables cat, sdt (again), eit (timed, silent), 2 filters | stale sections, safe end, forgotten tables, switched-off timed tables, wake-ups | holds |
| `epg_live` | sdt, tot, 2 filters | do Destroy and ChangeMode return? | holds |
| `epg_lost` | sdt, tot | is a complete table always handled before the monitor sleeps? | **violated** |
| `tfile` | 4 units in subfiles of 2, writes and reads of 1 or 2, 6 units written, short writes, timer at once, late or never | do the offsets agree, is the stream read in order, does a reader sleep on data? | holds |
| `rec` | 2 applications on one recorder with pause and time shift, or on one each; 2 recordings | do device, file, flag and thread agree, is the end told, what outlives the recorder? | holds |
| `scan` | 5 plans (automatic, all-band, blind; cable, terrestrial, satellite), 2 frequencies, 2 programs, 2 PMTs at a time | stale sections, freed objects, sleep without a reason, frequencies without an answer, joins | holds |
| `caman` | the CI and a CA without locks, 2 services, 3 calls | which PMT does a CA work on, is the stream watched, what is freed, is the CAM heard, what blocks? | holds |

The runs of `AmEvt`, `AmDmx`, `AmFend`, `AmEpg` and `AmRec` leave out the type invariant
(`TypeOK`), and that of `AmDmx` the exact open count: a theorem states them.

Why the bounds are enough to be interesting. In `dmx` one filter for two clients
is the shortest way to its reuse by the other client while the first one's callback runs, and
to an allocation that fails; a close races an open. What holds there is proved for any number of filters. In `epg` three tables share two filters, so a filter
number moves between tables and an allocation fails. In `evt` and `fend` two actors of
each kind are the smallest number that interleave; there is one `AM_FEND_Lock` at a
time in `fend`, because two share the flag `FEND_FL_LOCK` and each may return on the
other's event; no caller in the repository makes two. In `tfile` six units go once and a half
round a ring of two subfiles, with every split of a write at the end of the ring or of a subfile, seeks
into the ring and beyond it, and a ring that is cut to 3 units, or to none, when the rate is known. In
`rec` two recordings are the smallest number that share a device, or of which one starts while
the other ends. In `scan` two frequencies show what is left over from the one before,
two slots a PMT that is complete while another's event is handled, and two
events of the frontend a status that changes. In `caman` a behaviour has at most `Budget` = 3 calls,
changes of a table, events of the frontend, messages, rounds of watching and mishaps together,
in any mixture: two services and a late PMT; a start, a stop and a message; a
service, a change and the round that finds it. It is not followed beyond an event
lost in a race or a table that timed out, after which most of the properties
promise nothing. Bounds that stop something from growing are `MaxWritten`, `MaxThreads`,
in a plan the frontend's events per frequency, and in `caman` `MaxCalls`, `MaxChanges`, `MaxFend`,
`MaxMsgs`, `MaxRounds` and `Budget`.

## 4. Fairness

Fairness is assumed only of threads that can run: the device and monitor threads
take their next step (weak fairness), a mutex is granted to a thread that asks
again and again (strong fairness, where another thread may hold it in between), a
callback returns. Nothing is assumed of the outside: data need not come, and no
application thread need call anything. Three assumptions deserve their reason:

* `AmDmx`: strong fairness of `SwPollDone`, because the software driver's poll has a
  time limit and ends between deliveries.
* `AmFend`: strong fairness of `TunerReports`, the kernel's tuner comes to a verdict on
  the parameters it has; and of `~runCb /\ LockWoken`, because the monitor thread is
  nearly always in its wait with the flag clear.
* `AmEpg`: `CallsReturn` has the premise that the stream goes quiet
  (`<>[][~Capture]_vars`). With sections coming for ever every AM_DMX_Sync could
  find a callback running, and events that come during each batch could keep the
  application waiting in `am_epg_wait_events_done`.

`CallsReturn` of `AmDmx` has the premise `<>[]~runCb` for Sync, for the same reason: Sync waits for a
flag, not for a round, and may miss the gaps. `CallsReturn` of `AmFend` requires for
`AM_FEND_Lock` that callbacks stay enabled and that a blind scan does not last for ever: either
stops the monitor thread from serving it.

`AmTfile`, `AmRec`, `AmScan` and `AmCaman` state no fairness and no liveness. A reader of a time-shift file
waits at most its timeout and a recording or a scan may go on for ever, so what
must happen is said as safety: a reader does not sleep on data, a thread that is
joined is on its way out, a scan that sleeps has a time limit or an answer on its way.
The CA manager can block for ever, so liveness is not there to be stated.

## 5. Proofs

TLAPS checks, for every value of the constants that satisfies the `ASSUME`s of the
module (finite, disjoint sets; orders that contain every table; `NFilters > 0`):

| theorem | states |
|---|---|
| `AmEvtProofs!InvCorrect`, `TypeCorrect`, `CallbackSafe`, `LockSafe` | types; a callback runs only on a live monitor; no held mutex is destroyed |
| `AmDmxProofs!InvCorrect`, `TypeCorrect`, `SyncCorrect`, `CountCorrect`, `ThreadCorrect`, `WakeupCorrect` | types; Sync is a barrier on the hardware driver; the open count and the thread's life are exact; no lost wake-up |
| `AmDmxProofs!GateCorrect` | `AmDmx` implements `CallbackGate` |
| `AmEpgProofs!InvCorrect`, `TypeCorrect`, `SectionCorrect`, `GoneCorrect` | types; no stale section; nothing after the end |
| `AmEpgProofs!ModeInvCorrect`, `ForgottenCorrect`, `ModeCorrect` | a sleeping monitor has forgotten no table it has to monitor, and watches no timed one that was switched off |
| `AmEpgProofs!WakeCorrect` | with one application thread, no lost wake-up |
| `AmFendProofs!DeviceCorrect`, `TypeCorrect`, `BlindCorrect`, `SwapCorrect` | types; the number of users is exact and a closing thread alone; the thread BlindExit joins calls back only for a client that scans, however many strays there are; the callback is replaced only while none runs |
| `AmFendProofs!RecordCorrect`, `StatusCorrect` | with one tuning thread (`OneLocker`), the record on its stack is used only while it waits; and, with `CheckPara`, the status it returns is its own |
| `AmRecProofs!InvCorrect`, `TypeCorrect`, `DeviceCorrect`, `NotCutCorrect`, `EndCorrect`, `OutlivesCorrect`, `FlagCorrect` | types; the DVR device, the file, the flag and the thread agree; nothing but a stop ends a recording; its end is told; what a thread may still do to a freed recorder |
| `AmTfileProofs!RingInvCorrect`, `TypeCorrect`, `RingCorrect`, `WakeupCorrect` | types; the offsets and lengths of the ring agree and making room ends at a fragment; a reader does not sleep on data |
| `AmTfileProofs!OrderInvCorrect`, `OrderCorrect` | a read delivers the stream in order as long as no mishap has happened |
| `AmCamanProofs!CamanCorrect`, `TypeCorrect`, `ServiceCorrect` | types; a CA is started with the PMT of the service that is set |
| `AmCamanProofs!WatchCorrect`, `FreedCorrect`, `HeardCorrect` | a stream stays watched; nothing is used after it was closed or freed; an open CAM is heard |
| `AmScanProofs!ScanCorrect`, `TypeCorrect`, `SectionCorrect` | types, with a current frequency of the list or none unless `unlisted`; a section of a freed filter is never taken for another table's |
| `AmScanProofs!FreedCorrect`, `JoinCorrect` | the current transport stream and the list of frequencies are there when they are read, unless `late` or `unlisted`; no callback is under way when the scanner is freed; a join ends |
| `AmScanProofs!AnsweredCorrect` | a frequency is left only with its answer: not locked, or each of its tables came or had its time |
| `AmScanProofs!HeedCorrect` | a thread that sleeps has overlooked no table that is complete (the first part of `SleepsForAReason`) |

The inductive invariants, each at the end of its module:

* **AmEvt**: what a walk has still to visit is in the table while the walk holds the
  read lock (a writer cannot get in), and what is in the table belongs to a
  monitor that has not unsubscribed. The two together put a live object under
  every callback.
* **AmDmx**: the flag is up exactly in the part of the loop that may hold a copied
  callback (`RunFlag`); handles are private (`Handles`), so an enabled filter leads to
  the client that holds it; the lock owner is the only user (`Closing`). Sync returns
  with the flag clear, hence with nothing copied (`QuietIsQuiet`), and a later copy needs a
  filter of the client to be enabled again. `OpenCountExact` needs cardinalities of
  sets that gain or lose one element.
* **AmEpg**: no two tables share a filter, and a section on its way either has its
  table still behind its filter number, or the monitor is in `AM_DMX_Sync` and nobody has
  the number (`CallsAccountedFor`). A number is given out only by the monitor, which
  is not in Sync then; that is why mon->lock may be released there. `Leaving` says
  that the monitor's last `am_epg_set_mode` still has on its list every table that has a
  filter; it needs `FreedIsFree` and `BatchIsUp`. `ModeInv` names what stands in for a table's filter while
  the monitor is at work: its time, a mode change that no batch has copied yet, a task still
  on the list, or the done handler that is running (`Monitored`). A change is not lost to a batch that is at
  work because `AM_EPG_ChangeMode` waits for the flag to be empty, and a batch is part of the flag (`BatchIsUp`). For `WakeCorrect`: a caller waits only
  while an event is up, so with one caller a signal while the monitor sleeps
  finds nobody else to wake.

* **AmFend** (`DeviceInv`): `open_count` is the number of users, so who closes last
  is alone with the device and the thread it joins; `FEND_FL_RUN_CB` is up wherever the
  monitor thread may be in a callback, so `SetCallback`, which waits for it to fall,
  replaces a callback nobody is in; the last blind scan works only while some client has
  started a scan and not ended it, and that client keeps the device open (`ScanOwner`; of
  the strays it says nothing, and needs nothing). `RecordHeld`, for `OneLocker`: the
  record is the registered callback exactly while its thread is in `AM_FEND_Lock`, and the
  monitor thread is in it only then. `StatusStored`: `FEND_FL_LOCK` falls when the
  status of these parameters has been stored. With two tuning threads neither holds.
* **AmRec**: `rec->lock` is held in the critical sections, and the copy of the flags an
  application has read there is right about "recording" (`LockHeld`, `FlagTells`) because
  a recorder has one thread at a time (`OneThread`). Until that thread clears the flag, it is down if
  and only if the recording is being stopped. Each part carries the mishaps it does not
  survive as its premise, so the proof shows, action by action, that no other interleaving
  breaks it: "restart", a start that meets a thread that was not joined, breaks most.

* **AmTfile**, `RingInv`: every offset is a unit of the stream modulo the size (`Placed`), so
  offsets that the code moves separately are compared through the stream; a write ends where
  the ring ends or begins where it begins (`Requested`); the fragments divide the stream from the
  oldest unit kept to the last one written (`Fragmented`), which is what `RingConsistent` needs when
  the oldest of them are dropped, and a seek by time when it lands on one. `OrderInv`: every
  subfile but the last holds exactly `SubSize` units (`Shaped`), hence a descriptor has one place in the
  ring and a place one descriptor; the last units of the stream, as many as the ring has places, are at
  their places (`Kept`); the writer's descriptor is where the next unit goes, one turn apart at most
  (`WriterPlaced`), the reader's is at the first unread unit, and a write in progress, with
  what is unread, fits the ring (`ReaderPlaced`), so it does not touch what the reader is about to read.
  The rest is arithmetic modulo the size: `ModApart`, `ModAhead` and their like, each proved once.
  The one induction, over the number of removed fragments and over the sums of their sizes, is made through a set of numbers
  (`Least`, `Induct`) because a set, unlike an operator, can be instantiated.
* **AmCaman** (`CamanInv`): a property can fail between two calls of one agenda, so each part says what
  is true once the rest of the agenda has been done: a table that has lost its monitor is
  waiting to be started (`Watched`), a CA that is still opened although it left its list is waiting to be closed (`Removed`,
  `Listed`), the program of the PMT is the service unless the table is going to be closed (`Served`), a CA
  works on a PMT only while it is the forced one or in the stream's list, or is about to be told to stop (`Told`).
  What makes this inductive is the order of the agenda (`AgendaInv`): `Behind` lists, for every call, what
  may come after it, and is closed under what each call puts in its own place, so that an action needs to look
  only at its own head. The demux' callback holds no lock of the manager and writes `tsevt`; the parts it can
  disturb carry `raced` in their premise, and `Tabled` (a table a callback is in is open until Sync has returned)
  does not. `Polled` ties the CAM's thread to `ci.started` and `ci.quit`. The lemmas of the first half are about sequences: what the
  agenda holds when its head is replaced (`Least`, the one induction, is over a set of numbers).
* **AmScan** (`Inv`): as in `AmCaman` the agenda is ordered by what may come `Behind` a call, and each part
  says what holds once the rest is done. The events that are being handled are a subset of those raised, so
  none is handled after `Clear` (`Sampled`); `live` is exactly the tables' filters until the last of them is freed
  at the end, and a section that lost its filter is there only while the thread is in `AM_DMX_Sync`
  and finds no table (`Filtered`). The blind scan has a thread whenever `blind` is the mode and the
  agenda does not hold the call that starts the next (`Blinded`), and a pause and a destruction exclude each other (`Destroyed`). `Current`
  is about `curr_ts`: the tables of a transport stream have a filter, a flag, an event or a call on the agenda only
  while there is one, and while a frequency is being left (`Leaving`) every filter is waiting to be freed;
  "late", a table whose time is up with its last section, is the one mishap its invariants of a stream do not survive;
  a crash needs that one or "unlisted", as `NothingFreedIsUsed` says. None of these is inductive without the others: a table's `done` may run behind a window in
  which the frontend or the application steps in. `AgendaInv` also says that a thread that is awake has something to
  do that ends in a wait or in the end of the thread.
  `Orderly`, for `FrequencyAnswered`, follows a frequency from the tuning to the step that leaves it, as long as none of the mishaps
  in that property's premise has happened (`Regular`). `Heard`: a status that is handled is of the frequency that is tuned.
  `NitSought`: while the NIT is sought its done handler runs only with the NIT or after its time. `Asked`: of the PAT and the
  SDT of a stream that is not being left each has yet to be requested, is waited for, is complete, or has had its time;
  this needs that the two requests follow each other with no window between (`InTurn`). `Listed`: as long as a
  program of the PAT was not asked for, a PMT is waited for or the loop over the slots is still to run, so the scan does not
  become `Complete`. `Overdue` is the part that is not evident: a PAT or an SDT that comes while its stream is left is still an
  event when the next frequency is tuned, and would then be taken for that one's. It is not, because the events are handled
  before an answer of the frontend can be (`FendFirst`: within one batch the frontend's comes first, and is then of the old
  frequency), and the handler of such a table crashes for want of `curr_ts` ("late", section 2) before a new one is there. `Answered` then says that
  `answered` is up whenever the agenda holds a call that leaves the frequency.
  `Heeded`, for `NoneOverlooked`: an event is cleared after its table was handled. For a PAT, an SDT or a NIT that is
  because the events raised while they are handled can only be of tables whose `done` is still to come: the calls
  that ask for a table (`request`, behind a frontend's status) all come before it, and when it is over the table has
  no filter. A PMT has no such guarantee, and the invariant says "lost" where the code drops its event.

Only model-checked: the second part of `SleepsForAReason` of `AmScan` (a thread that sleeps without a time limit
waits for the frontend or for the blind scan), which needs an invariant
of its own (which time limits a pass over the tables has still to look at); `OnlyTheCamBlocks` of `AmCaman`, which is
about ENABLED; the liveness properties, which with ENABLED are beyond the prover. No module here
declares a RECURSIVE operator.

## 6. Findings

Each is a run that TLC ends with a counterexample, and quotes in `PROJECT.json` the
line the code departs from.

* `dmx_sw`: on the software driver `AM_DMX_Sync` does not wait for callbacks.
* `vlfend`: `am_vlfend.c` has the comparison of parameters commented out and may
  report the status of an earlier tuning.
* `epg_lost`: an event raised while its bit is up from the current batch is cleared
  with the batch. The table must be freed, requested again and complete within
  one batch, which a `free_filter` later in the batch (it drops the lock) makes possible.

With two application threads `NoLostWakeup` of `AmEpg` fails: the condition variable is
shared and a signal meant for the monitor may wake the other application thread.
The header does not promise that two threads may call, so it is stated here and as
a hazard, not as a finding. The `mishaps` of section 2 are of this kind too: what the code does
not repair, with no line that says it would. Four more of the kind, in modules that
are modelled: two `AM_EVT_Subscribe` of one callback at once both get in, because
the search and the insertion are two critical sections; a blind scan that is started over
another leaves a thread that nobody joins (2.3); a channel scan that ends without a list of
frequencies reads it (2.7); and the done handlers of the EPG's
non-timed tables request them again whatever the mode is.

## 7. Not modelled

In the modelled components: `am_dmx` calls that change no modelled state
(SetBufferSize, GetSTC, GetScrambleStatus); in `am_epg` the PAT/PMT and the ATSC chain, the database writes, the check-time setters,
MonitorService and the frontend event (whose path is in `AmEvt`); in `am_tfile` the playback of
a finished file, Close, the CAS information, the getters, and subfiles that cannot be
created; in `am_rec` encryption and what is written; in `am_scan` analog and ATSC
scanning, ISDB-T, DVB-T2's PLPs, CAT and BAT, the storing of what was found, the table of
frequencies to skip, failures other than of the filter's allocation and of SetPara, and a
second `AM_SCAN_Start` while the first is handled; in `am_caman` AM_CAMAN_Open (the initial
state), setCallback and freeMsg, what a new table without a section starts (only after
`raced`) and `AM_CAMAN_getMsg` without a message, several CA descriptors in a table or none, `new_cat` of a CA, failures to
open or decode a table; in `am_ci` the menus (MMI), the application information, Open and Close, and the EN 50221
stack below. The components with status `not_modelled` are out for the reason given there: parsers and
renderers are sequential transformations of bytes, drivers and system files are
I/O, third-party code is not this project's.

## 8. Plan

Done: CallbackGate, AmDmx, AmEvt, AmFend, AmEpg, AmTfile, AmRec, AmScan, AmCaman. Next, in this order:

1. `AmScan`: analog frequencies (`atv`), which interleave with the digital ones, and the ATSC tables.
2. `AmEpg`: PAT then PMT (a done handler that requests another table), the check-time
   setters (`am_epg.c:3807`), MonitorService, the frontend event.
3. `AmTfile`: an abstract specification, a bounded queue that forgets its oldest data; Close against a reader that waits.
4. Proof of the second part of `SleepsForAReason` of `AmScan`.
5. The threads of `am_smc` and of `am_av`'s time shift over `AmTfile`.
