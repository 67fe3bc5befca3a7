------------------------------- MODULE AmScan -------------------------------
(***************************************************************************)
(* The digital channel scanner (am_mw/am_scan/am_scan.c): the thread of a  *)
(* scanner, which tunes one frequency after the other and collects the     *)
(* tables of each, against the threads that call it back -- the demux with *)
(* sections, the frontend with its status, the blind scan with its         *)
(* progress -- and the application that starts, pauses and destroys it.    *)
(*                                                                         *)
(* The thread holds scanner->lock except while it waits, and in the        *)
(* windows it opens itself: to signal an event (SIGNAL_EVENT) and to free  *)
(* a filter (am_scan_free_filter).  What it still has to do when it opens  *)
(* one is its agenda: a stack of the calls that are under way.  The other  *)
(* threads' critical sections are single steps, taken when the lock is     *)
(* free.                                                                   *)
(***************************************************************************)
EXTENDS Integers, Sequences, FiniteSets, Functions

CONSTANTS
    Plans,      \* the scans: their mode and source; bounds on their frequencies (to
                \* begin with, and in a NIT), on the programs in a PAT, and on the events
                \* of the frontend per frequency, the answer first
    Slots,      \* the PMTs received at a time (dtvctl.pmtctl), a sequence of names
    Long,       \* bound: the tables that may have two sections
    MaxFreqs,   \* bound: frequencies in a list
    LastBs      \* the last stage of a blind scan (AM_SCAN_BS_STAGE_VH)

SlotSet == {Slots[i] : i \in 1 .. Len(Slots)}
Tables == {"pat", "sdt", "nit"} \cup SlotSet
Flag(t) == IF t \in SlotSet THEN "pmt" ELSE t

ASSUME PlansAssumption ==
    Plans \subseteq [mode : {"auto", "allband", "blind"},
                     source : {"cable", "terrestrial", "satellite"},
                     freqs : 0 .. MaxFreqs, nit : 0 .. MaxFreqs, progs : Nat,
                     status : Nat \ {0}]
ASSUME SlotsAssumption ==
    /\ Slots \in Seq(SlotSet) /\ Len(Slots) > 0
    /\ SlotSet \cap {"pat", "sdt", "nit", "none"} = {}
    /\ Cardinality(SlotSet) = Len(Slots)
ASSUME LongAssumption == Long \subseteq Tables
ASSUME BoundsAssumption == MaxFreqs \in Nat \ {0} /\ LastBs \in Nat

NoFid == 0
Fids == 1 .. Cardinality(Tables)
NoList == -1       \* a NULL list: no frequency, no PAT, no program
NoSection == [table |-> "none", fid |-> NoFid, stale |-> FALSE]
NoStatus == [freq |-> NoList, locked |-> FALSE]

VARIABLES
    plan, mode,         \* dtv_para, and dtv_para.mode
    stage,              \* scanner->stage
    started,            \* dtvctl.start
    cnt, curr,          \* start_freqs_cnt, or NoList if start_freqs is NULL; curr_freq
    currTs,             \* curr_ts # NULL
    pats,               \* programs in the PAT of curr_ts, or NoList
    curPat, prog,       \* dtvctl.cur_pat # NULL; the programs after cur_prog, or NoList
    nits,               \* result.nits # NULL
    evt, recv,          \* evt_flag, recv_status
    fid,                \* the filter of each table (fid)
    got, marked,        \* sections received (subctl, data_arrive_time)
    expired,            \* tables whose end_time has passed
    spc, agenda,        \* the scanner's thread: where it is, what it has yet to do
    sampled, timed,     \* its local evt_flag; its wait has a time limit
    live, section,      \* the demux: filters started, the section it delivers
    tuned, owed,        \* the frontend: its frequency, the events yet to come
    subscribed, fevt,   \* whose events are wanted; the frequency of one under way, or NoList
    feEvt,              \* scanner->fe_evt
    bpc, cancel, found, bs, \* the blind scan's thread, its result, bs_ctl.stage
    paused, destroying, apc, \* status, request_destory, the application
    answered,           \* history: the frequency has had its answer
    mishaps             \* history: known mishaps (see Mishaps) that have happened

scanVars == <<plan, mode, stage, started, cnt, curr, currTs, nits>>
progVars == <<pats, curPat, prog>>
tableVars == <<fid, got, marked, expired, live>>
fendVars == <<tuned, owed, subscribed, fevt, feEvt>>
blindVars == <<bpc, cancel, found, bs>>
appVars == <<paused, destroying, apc>>
dataVars == <<scanVars, progVars, evt, recv, tableVars>>
threadVars == <<spc, agenda, sampled, timed>>
outerVars == <<section, fendVars, blindVars, appVars>>
history == <<answered, mishaps>>
vars == <<dataVars, threadVars, outerVars, history>>

(* What the code lets happen and does not repair.  A property says which of  *)
(* them it survives.                                                         *)
(*   late       the last section of a table comes when its time is up: the   *)
(*              event is handled after the thread has left the frequency     *)
(*   again      the time of a NIT is over for the next frequency too         *)
(*   starved    the demux has no filter left                                 *)
(*   undecoded  the first section of a table cannot be decoded: the table    *)
(*              counts as complete                                           *)
(*   partial    a PMT is not complete when its time is up                    *)
(*   satellite  the NIT of a satellite has no time limit                     *)
(*   lost       a PMT is complete while the event of another is handled: its *)
(*              own is cleared with it, and its time limit has to do         *)
(*   unlisted   the scan comes to its end without a list: after a NIT with   *)
(*              no transport stream, or for the second time, after a late    *)
(*              NIT.  curr_freq is not reset then, and the next pass over    *)
(*              the time limits reads the list at it, which is NULL          *)
Mishaps == {"lost", "late", "again", "starved", "undecoded", "partial", "satellite",
            "unlisted"}
Mishap(cond, m) == IF cond THEN {m} ELSE {}

LockFreeStates == {"wait", "window", "sync", "exit", "unsub"}
ThreadStates == LockFreeStates \cup {"run", "paused", "join", "crashed", "gone"}

(* What may be on the agenda.  The tasks in Finals are the last ones there.  *)
Finals == {"check", "complete", "wait", "clear", "quit", "unsub"}
Calls == {"window", "begin", "fend", "status", "patlist", "pmts", "blind", "nextbs", "bs",
          "trynit", "ts", "leave", "next", "tune", "stop", "free all"}
ScanTasks ==
    ({"free", "request", "done", "recheck"} \X Tables) \cup ({"pmtfree"} \X SlotSet)
    \cup ({"check"} \X (1 .. Len(Slots) + 4)) \cup ({"slot"} \X (1 .. Len(Slots)))
    \cup ((Calls \cup (Finals \ {"check"})) \X {"none"})

TypeOK ==
    /\ plan \in Plans /\ mode \in {"auto", "allband", "blind"}
    /\ stage \in {"start", "nit", "ts", "done"}
    /\ cnt \in NoList .. MaxFreqs
    /\ curr = NoList \/ curr \in 0 .. cnt - 1
          \/ (curr \in Nat /\ cnt = NoList /\ "unlisted" \in mishaps)
    /\ {started, currTs, curPat, nits, timed, subscribed, cancel, paused,
        destroying, answered} \subseteq BOOLEAN
    /\ {pats, prog} \subseteq NoList .. plan.progs
    /\ evt \subseteq {"start", "fend", "pat", "pmt", "sdt", "nit", "blind", "quit"}
    /\ sampled \subseteq {"start", "fend", "pat", "pmt", "sdt", "nit", "blind", "quit"}
    /\ recv \subseteq {"pat", "pmt", "sdt", "nit", "fend"}
    /\ fid \in [Tables -> Fids \cup {NoFid}] /\ live \subseteq Fids
    /\ got \in [Tables -> {"none", "some", "all"}]
    /\ marked \subseteq Tables /\ expired \subseteq Tables
    /\ spc \in ThreadStates /\ agenda \in Seq(ScanTasks)
    /\ section \in [table : Tables \cup {"none"}, fid : Fids \cup {NoFid}, stale : BOOLEAN]
    /\ {tuned, fevt} \subseteq Nat \cup {NoList} /\ owed \in 0 .. plan.status
    /\ feEvt \in [freq : Nat \cup {NoList}, locked : BOOLEAN]
    /\ bpc \in {"none", "scan", "call", "over", "ended"}
    /\ found \in 0 .. 1 /\ bs \in 0 .. LastBs + 1
    /\ apc \in {"idle", "quit", "join", "returned"}
    /\ mishaps \subseteq Mishaps

----------------------------------------------------------------------------
(* The agenda of the thread *)

Do(op) == <<op, "none">>
For(op, t) == <<op, t>>

At(op) == spc = "run" /\ Head(agenda)[1] = op
Of == Head(agenda)[2]

Then(calls) == agenda' = calls \o Tail(agenda) /\ spc' = "run"
Return == Then(<< >>)

(* SIGNAL_EVENT: the lock is let go before the calls that follow.            *)
Signal(calls) == agenda' = calls \o Tail(agenda) /\ spc' = "window"

(* A table's `done' function.  That of the PMT looks at every slot.          *)
Done(t) ==
    IF t \in SlotSet
    THEN [i \in 1 .. Len(Slots) |-> For("pmtfree", Slots[i])] \o <<Do("pmts")>>
    ELSE <<For("done", t)>>

(* A NULL pointer is read.                                                   *)
Crash == spc' = "crashed" /\ agenda' = << >>

(* The tables whose time limit am_scan_get_wait_timespec looks at.           *)
Waited(t) == Flag(t) \in recv /\ (t \in SlotSet => fid[t] # NoFid)

(* The order in which it looks at them.                                      *)
Order == <<"pat">> \o Slots \o <<"sdt", "nit">>

If(cond, calls) == IF cond THEN calls ELSE << >>

Handle(e) ==
    If("start" \in e /\ ~started, <<Do("window"), Do("begin")>>)
    \o If("fend" \in e, <<Do("fend")>>)
    \o If("pat" \in e, Done("pat"))
    \o If("pmt" \in e, Done(Slots[1]))
    \o If("sdt" \in e, Done("sdt"))
    \o If("nit" \in e, Done("nit"))
    \o If("blind" \in e, <<Do("blind")>>)
    \o <<IF "quit" \in e THEN Do("quit") ELSE Do("clear")>>

Init ==
    /\ plan \in Plans /\ mode = plan.mode /\ cnt = plan.freqs
    /\ stage = "start" /\ started = FALSE /\ curr = NoList
    /\ currTs = FALSE /\ nits = FALSE
    /\ pats = NoList /\ curPat = FALSE /\ prog = NoList
    /\ evt = {} /\ recv = {}
    /\ fid = [t \in Tables |-> NoFid] /\ got = [t \in Tables |-> "none"]
    /\ marked = {} /\ expired = {} /\ live = {} /\ section = NoSection
    /\ spc = "run" /\ agenda = <<Do("wait")>> /\ sampled = {} /\ timed = FALSE
    /\ tuned = NoList /\ owed = 0 /\ subscribed = FALSE
    /\ fevt = NoList /\ feEvt = NoStatus
    /\ bpc = "none" /\ cancel = FALSE /\ found = 0 /\ bs = 0
    /\ paused = FALSE /\ destroying = FALSE /\ apc = "idle"
    /\ answered = TRUE /\ mishaps = {}

----------------------------------------------------------------------------
(* Waiting and time limits *)

Expiring == {t \in Tables : Waited(t) /\ t \notin expired}

(* The time is read once, at the start of a pass over the tables.            *)
BeginPass(late) ==
    /\ expired' = expired \cup late
    /\ agenda' = <<<<"check", 1>>>> /\ spc' = "run"
    /\ timed' = FALSE /\ sampled' = {}

Untouched == UNCHANGED <<plan, mode, section, fendVars, appVars>>

(* TIMEOUT_CHECK of the tables from the i-th on, to the first whose time is  *)
(* up: its `done' function is called.  A satellite's NIT is not looked at.   *)
LookedAt(i) ==
    {j \in i .. Len(Order) :
        /\ Waited(Order[j])
        /\ Order[j] = "nit" => curr >= 0 /\ plan.source # "satellite"}
Late(i) == {j \in LookedAt(i) : Order[j] \in expired}
First(S) == CHOOSE j \in S : \A k \in S : j <= k

(* The NIT is the last.  With a current frequency its type is read first.    *)
ReadsNull(i) == curr >= 0 /\ cnt = NoList /\ Len(Order) \in i .. Len(Order)
                /\ Late(i) \subseteq {Len(Order)}

Check ==
    /\ At("check")
    /\ IF ReadsNull(Of)
       THEN Crash /\ UNCHANGED <<timed, marked>>
       ELSE LET late == Late(Of)
                first == IF late = {} THEN Len(Order) + 1 ELSE First(late)
            IN  /\ timed' = (timed \/ \E j \in LookedAt(Of) : j < first)
                /\ IF late = {}
                   THEN Then(<<Do("complete")>>) /\ UNCHANGED marked
                   ELSE LET t == Order[first] IN
                        /\ Then(Done(t) \o <<For("recheck", t), <<"check", first + 1>>>>)
                        /\ marked' = IF t \in SlotSet THEN marked \cup {t} ELSE marked
    /\ Untouched
    /\ UNCHANGED <<scanVars, progVars, evt, recv, fid, got, expired, live, sampled,
                   blindVars, history>>

(* `done' may have asked for the table again, with a new time limit.         *)
Recheck ==
    /\ At("recheck")
    /\ timed' = (timed \/ Of \notin expired)
    /\ Return
    /\ Untouched
    /\ UNCHANGED <<dataVars, sampled, blindVars, history>>

(* Each table of the frequency has come or has had its time, and every       *)
(* program of the PAT has been asked for.                                    *)
TablesAnswered ==
    /\ \A t \in {"pat", "sdt"} : got[t] = "all" \/ t \in expired
    /\ pats > 0 => ~curPat /\ prog = NoList

(* The end of am_scan_get_wait_timespec: the frequency is done with, ...      *)
Complete ==
    /\ At("complete") /\ stage = "ts" /\ recv = {}
    /\ Then([i \in 1 .. Len(Slots) |-> For("free", Slots[i])]
            \o <<For("free", "pat"), For("free", "sdt"), For("free", "nit"), Do("ts"), Do("wait")>>)
    /\ expired' = {}
    /\ answered' = TablesAnswered
    /\ Untouched
    /\ UNCHANGED <<scanVars, progVars, evt, recv, fid, got, marked, live, sampled, timed,
                   blindVars, mishaps>>

(* ... and the thread sleeps, unless there is an event.                      *)
Wait ==
    /\ At("wait") \/ (At("complete") /\ ~(stage = "ts" /\ recv = {}))
    /\ IF evt = {}
       THEN agenda' = << >> /\ spc' = "wait" /\ UNCHANGED <<sampled, timed>>
       ELSE agenda' = Handle(evt) /\ sampled' = evt /\ timed' = FALSE /\ UNCHANGED spc
    /\ Untouched
    /\ UNCHANGED <<dataVars, blindVars, history>>

Woken ==
    /\ spc = "wait" /\ evt # {}
    /\ spc' = "run" /\ agenda' = Handle(evt) /\ sampled' = evt /\ timed' = FALSE
    /\ Untouched
    /\ UNCHANGED <<dataVars, blindVars, history>>

(* pthread_cond_timedwait: events that came at the last moment wait for the  *)
(* next pass.                                                                *)
TimedOut ==
    /\ spc = "wait" /\ timed
    /\ \E late \in SUBSET Expiring : late # {} /\ BeginPass(late)
    /\ Untouched
    /\ UNCHANGED <<scanVars, progVars, evt, recv, fid, got, marked, live, blindVars,
                   history>>

(* The events that were handled are cleared, with those of the same kind     *)
(* that have come since.                                                     *)
Unhandled(t) == fid[t] # NoFid /\ got[t] = "all"

(* Mutant of Clear: every event is cleared.                                  *)
ClearAll ==
    /\ At("clear")
    /\ evt' = {} /\ feEvt' = NoStatus
    /\ \E late \in SUBSET Expiring : BeginPass(late)
    /\ mishaps' = mishaps \cup Mishap("pmt" \in sampled /\ \E t \in SlotSet : Unhandled(t), "lost")
    /\ UNCHANGED <<scanVars, progVars, recv, fid, got, marked, live, section, tuned, owed,
                   subscribed, fevt, blindVars, appVars, answered>>

Clear ==
    /\ At("clear")
    /\ evt' = evt \ sampled
    /\ feEvt' = IF "fend" \in evt' THEN feEvt ELSE NoStatus
    /\ IF evt' = {}
       THEN \E late \in SUBSET Expiring : BeginPass(late)
       ELSE agenda' = Handle(evt') /\ sampled' = evt' /\ UNCHANGED <<spc, expired, timed>>
    /\ mishaps' = mishaps \cup Mishap("pmt" \in sampled /\ \E t \in SlotSet : Unhandled(t), "lost")
    /\ UNCHANGED <<scanVars, progVars, recv, fid, got, marked, live, section, tuned, owed,
                   subscribed, fevt, blindVars, appVars, answered>>

(* An event is being signalled; then the lock is taken again.                *)
Window ==
    /\ At("window")
    /\ Signal(<< >>)
    /\ Untouched
    /\ UNCHANGED <<dataVars, sampled, timed, blindVars, history>>

Resume ==
    /\ spc = "window"
    /\ spc' = "run"
    /\ Untouched
    /\ UNCHANGED <<dataVars, agenda, sampled, timed, blindVars, history>>

----------------------------------------------------------------------------
(* Filters *)

(* am_scan_free_filter.                                                      *)
Free ==
    /\ At("free") \/ At("done")
    /\ fid[Of] # NoFid
    /\ fid' = [fid EXCEPT ![Of] = NoFid] /\ live' = live \ {fid[Of]}
    /\ section' = [section EXCEPT !.stale = @ \/ section.fid = fid[Of]]
    /\ agenda' = IF At("free") THEN Tail(agenda) ELSE agenda
    /\ spc' = "sync"
    /\ UNCHANGED <<scanVars, progVars, evt, recv, got, marked, expired, sampled, timed,
                   fendVars, blindVars, appVars, history>>

NothingToFree ==
    /\ At("free") /\ fid[Of] = NoFid
    /\ Return
    /\ Untouched
    /\ UNCHANGED <<dataVars, sampled, timed, blindVars, history>>

(* Mutant of Synced: AM_DMX_Sync does not wait.                              *)
SyncedAtOnce ==
    /\ spc = "sync"
    /\ spc' = "run"
    /\ Untouched
    /\ UNCHANGED <<dataVars, agenda, sampled, timed, blindVars, history>>

(* AM_DMX_Sync returns when no callback is under way.                        *)
Synced ==
    /\ spc = "sync" /\ section = NoSection
    /\ spc' = "run"
    /\ Untouched
    /\ UNCHANGED <<dataVars, agenda, sampled, timed, blindVars, history>>

LowestFree == CHOOSE f \in Fids \ live : \A g \in Fids \ live : f <= g

(* am_scan_request_section, for a table without a filter.                    *)
Allocated(t) ==
    /\ fid' = [fid EXCEPT ![t] = LowestFree] /\ live' = live \cup {LowestFree}
    /\ expired' = expired \ {t} /\ recv' = recv \cup {Flag(t)}

NotAllocated ==
    /\ mishaps = {}
    /\ UNCHANGED <<fid, live, expired, recv>>

Request ==
    /\ At("request")
    /\ got' = [got EXCEPT ![Of] = "none"]
    /\ IF fid[Of] # NoFid
       THEN /\ Then(<<For("free", Of), For("request", Of)>>)
            /\ UNCHANGED <<fid, live, expired, recv, mishaps>>
       ELSE /\ Return
            /\ \/ Allocated(Of) /\ mishaps' = mishaps \cup Mishap(Of = "nit" /\ plan.source = "satellite", "satellite")
               \/ NotAllocated /\ mishaps' = mishaps \cup {"starved"}
    /\ Untouched
    /\ UNCHANGED <<scanVars, progVars, evt, marked, sampled, timed, blindVars, answered>>

(* am_scan_pmt_done: a slot that is complete, or that had its time, is free. *)
FreeSlot ==
    /\ At("pmtfree")
    /\ LET arrived == got[Of] # "none" \/ Of \in marked IN
       /\ Then(If(fid[Of] # NoFid /\ got[Of] # "some" /\ arrived, <<For("free", Of)>>))
       /\ mishaps' = mishaps \cup Mishap(fid[Of] # NoFid /\ got[Of] = "some" /\ Of \in marked, "partial")
    /\ Untouched
    /\ UNCHANGED <<dataVars, sampled, timed, blindVars, answered>>

(* am_scan_request_pmts, and its loop over the slots.                        *)
Slot == Slots[Of]
NextSlot(i) == If(i <= Len(Slots), <<<<"slot", i>>>>)

RequestPmts ==
    /\ At("pmts")
    /\ Then(If(currTs /\ pats # NoList, NextSlot(1)))
    /\ Untouched
    /\ UNCHANGED <<dataVars, sampled, timed, blindVars, history>>

NextProg ==
    IF prog > 0 THEN prog - 1
    ELSE IF curPat /\ pats > 0 THEN pats - 1 ELSE NoList

Receiving == {t \in SlotSet : fid[t] # NoFid}

RequestSlot ==
    /\ At("slot") /\ fid[Slot] = NoFid
    /\ curPat' = (curPat /\ prog > 0)
    /\ \/ /\ NextProg = NoList
          /\ prog' = NoList
          /\ IF Receiving = {}
             THEN recv' = recv \ {"pmt"} /\ Signal(<< >>)
             ELSE UNCHANGED recv /\ Return
          /\ UNCHANGED <<fid, live, expired, got, marked, mishaps>>
       \/ /\ NextProg # NoList
          /\ got' = [got EXCEPT ![Slot] = "none"] /\ marked' = marked \ {Slot}
          /\ \/ Allocated(Slot) /\ prog' = NextProg /\ Then(NextSlot(Of + 1)) /\ UNCHANGED mishaps
             \/ /\ NotAllocated
                /\ prog' = IF Receiving = {} THEN NextProg ELSE prog
                /\ Return
                /\ mishaps' = mishaps \cup {"starved"}
    /\ Untouched
    /\ UNCHANGED <<scanVars, pats, evt, sampled, timed, blindVars, answered>>

SkipSlot ==
    /\ At("slot") /\ fid[Slot] # NoFid
    /\ Then(NextSlot(Of + 1))
    /\ Untouched
    /\ UNCHANGED <<dataVars, sampled, timed, blindVars, history>>

----------------------------------------------------------------------------
(* What follows when a table has been received, or its time is up *)

Freed(t) == At("done") /\ Of = t /\ fid[t] = NoFid

(* am_scan_pat_done and am_scan_sdt_done, after the filter is freed.  Both   *)
(* read curr_ts.                                                             *)
PatDone ==
    /\ Freed("pat")
    /\ recv' = recv \ {"pat"}
    /\ IF currTs THEN Signal(<<Do("patlist"), Do("pmts")>>) ELSE Crash
    /\ Untouched
    /\ UNCHANGED <<scanVars, progVars, evt, tableVars, sampled, timed, blindVars, history>>

PatList ==
    /\ At("patlist")
    /\ curPat' = (pats # NoList)
    /\ Return
    /\ Untouched
    /\ UNCHANGED <<scanVars, pats, prog, evt, recv, tableVars, sampled, timed, blindVars,
                   history>>

SdtDone ==
    /\ Freed("sdt")
    /\ recv' = recv \ {"sdt"}
    /\ IF currTs THEN Signal(<< >>) ELSE Crash
    /\ Untouched
    /\ UNCHANGED <<scanVars, progVars, evt, tableVars, sampled, timed, blindVars, history>>

(* am_scan_nit_done.  Without a NIT the next frequency is tried, and the     *)
(* time limit of the one that did not come stays.                            *)
NitAnswered == "fend" \notin recv /\ (got["nit"] = "all" \/ "nit" \in expired)

NitDoneInTs ==
    /\ Freed("nit") /\ stage = "ts"
    /\ recv' = recv \ {"nit"}
    /\ Return
    /\ Untouched
    /\ UNCHANGED <<scanVars, progVars, evt, tableVars, sampled, timed, blindVars, history>>

NitMissing ==
    /\ Freed("nit") /\ stage # "ts" /\ ~nits
    /\ Then(<<Do("trynit")>>)
    /\ answered' = (answered \/ NitAnswered)
    /\ mishaps' = mishaps \cup Mishap("fend" \in recv, "again")
    /\ Untouched
    /\ UNCHANGED <<dataVars, sampled, timed, blindVars>>

(* The frequencies of the NIT replace the list, which is NULL if it has no   *)
(* transport stream, and empty if none of them can be tuned to.              *)
NitFound ==
    /\ Freed("nit") /\ stage # "ts" /\ nits
    /\ recv' = recv \ {"nit"}
    /\ cnt' \in NoList .. plan.nit /\ curr' = NoList
    /\ IF recv' = {} THEN Signal(<<Do("ts")>>) ELSE Return
    /\ answered' = (answered \/ NitAnswered)
    /\ Untouched
    /\ UNCHANGED <<stage, started, currTs, nits, progVars, evt, tableVars, sampled, timed,
                   blindVars, mishaps>>

----------------------------------------------------------------------------
(* Tuning *)

(* The end of the scan: am_scan_all_done, and the same in am_scan_try_nit.   *)
(* The current frequency, which is past the end, is reset with the list.     *)
AllDone ==
    /\ stage' = "done"
    /\ curr' = IF cnt = NoList THEN curr + 1 ELSE NoList
    /\ cnt' = NoList
    /\ mishaps' = mishaps \cup Mishap(cnt = NoList, "unlisted")
    /\ Signal(<< >>)
    /\ UNCHANGED <<plan, mode, started, currTs, nits>>

(* am_scan_try_nit, to the loop over the frequencies.                        *)
TryNit ==
    /\ At("trynit")
    /\ stage' = "nit"
    /\ IF stage # "nit" \/ curr >= 0 THEN Signal(<<Do("next")>>) ELSE Then(<<Do("next")>>)
    /\ Untouched
    /\ UNCHANGED <<started, cnt, curr, currTs, nits, progVars, evt, recv, tableVars,
                   sampled, timed, blindVars, history>>

(* am_scan_start_ts, to the loop over the frequencies.  A pause keeps the    *)
(* lock.                                                                     *)
StartTs ==
    /\ At("ts")
    /\ stage' = "ts"
    /\ agenda' = If(curr >= 0, <<Do("window")>>) \o <<Do("leave")>> \o Tail(agenda)
    /\ spc' = IF paused /\ ~destroying THEN "paused" ELSE "run"
    /\ Untouched
    /\ UNCHANGED <<started, cnt, curr, currTs, nits, progVars, evt, recv, tableVars,
                   sampled, timed, blindVars, history>>

Resumed ==
    /\ spc = "paused" /\ ~paused
    /\ spc' = "run"
    /\ Untouched
    /\ UNCHANGED <<dataVars, agenda, sampled, timed, blindVars, history>>

(* curr_ts is left.  Its marks of what has been received go with it here; the *)
(* code clears them when the next frequency is locked, and does not look at   *)
(* them before.                                                              *)
LeaveTs ==
    /\ At("leave")
    /\ currTs' = FALSE /\ pats' = NoList
    /\ got' = [t \in Tables |-> "none"] /\ marked' = {}
    /\ Then(<<Do("next")>>)
    /\ mishaps' = mishaps \cup Mishap(evt \cap {"pat", "pmt", "sdt"} # {}, "late")
    /\ Untouched
    /\ UNCHANGED <<stage, started, cnt, curr, nits, curPat, prog, evt, recv, fid, expired,
                   live, sampled, timed, blindVars, answered>>

(* Mutant of NextFreq: one past the end of the list.                         *)
NextFreqPastEnd ==
    /\ At("next")
    /\ IF curr + 1 > cnt
       THEN AllDone
       ELSE curr' = curr + 1 /\ Signal(<<Do("tune")>>)
            /\ UNCHANGED <<plan, mode, stage, started, cnt, currTs, nits, mishaps>>
    /\ UNCHANGED <<section, fendVars, appVars>>
    /\ UNCHANGED <<progVars, evt, recv, tableVars, sampled, timed, blindVars, answered>>

NextFreq ==
    /\ At("next")
    /\ IF curr + 1 >= cnt
       THEN AllDone
       ELSE curr' = curr + 1 /\ Signal(<<Do("tune")>>)
            /\ UNCHANGED <<plan, mode, stage, started, cnt, currTs, nits, mishaps>>
    /\ UNCHANGED <<section, fendVars, appVars>>
    /\ UNCHANGED <<progVars, evt, recv, tableVars, sampled, timed, blindVars, answered>>

(* AM_FENDCTRL_SetPara.                                                      *)
Tune ==
    /\ At("tune")
    /\ \/ /\ tuned' = curr /\ owed' = plan.status
          /\ recv' = recv \cup {"fend"} /\ answered' = FALSE
          /\ Return
       \/ /\ Signal(<<Do("next")>>)
          /\ answered' = TRUE
          /\ UNCHANGED <<tuned, owed, recv>>
    /\ UNCHANGED <<scanVars, progVars, evt, tableVars, sampled, timed, section, subscribed,
                   fevt, feEvt, blindVars, appVars, mishaps>>

(* Mutant of FendExpected: the status of any frequency.                      *)
FendExpectedAny == curr \in 0 .. cnt - 1 /\ "fend" \in recv

(* am_scan_solve_fend_evt, with am_scan_check_fend_evt.  The status is read  *)
(* again after it was signalled.                                             *)
FendExpected == curr \in 0 .. cnt - 1 /\ "fend" \in recv /\ feEvt.freq = curr

FendEvent ==
    /\ At("fend")
    /\ IF FendExpected THEN Signal(<<Do("status")>>) ELSE Return
    /\ Untouched
    /\ UNCHANGED <<dataVars, sampled, timed, blindVars, history>>

NotLocked ==
    /\ At("status") /\ ~feEvt.locked
    /\ recv' = recv \ {"fend"} /\ answered' = (feEvt.freq = curr)
    /\ Then(If(stage = "nit", <<Do("trynit")>>) \o If(stage = "ts", <<Do("ts")>>))
    /\ Untouched
    /\ UNCHANGED <<scanVars, progVars, evt, tableVars, sampled, timed, blindVars, mishaps>>

(* am_scan_new_ts_locked_proc.                                               *)
LockedForNit ==
    /\ At("status") /\ feEvt.locked /\ stage = "nit"
    /\ recv' = recv \ {"fend"}
    /\ Then(<<For("request", "nit")>>)
    /\ Untouched
    /\ UNCHANGED <<scanVars, progVars, evt, tableVars, sampled, timed, blindVars, history>>

LockedForTs ==
    /\ At("status") /\ feEvt.locked /\ stage = "ts"
    /\ recv' = recv \ {"fend"}
    /\ currTs' = TRUE /\ pats' = NoList
    /\ got' = [t \in Tables |-> "none"] /\ marked' = {}
    /\ Then(<<For("request", "pat"), For("request", "sdt")>>
            \o If(plan.source = "terrestrial", <<For("request", "nit")>>))
    /\ Untouched
    /\ UNCHANGED <<stage, started, cnt, curr, nits, curPat, prog, evt, fid, expired, live,
                   sampled, timed, blindVars, history>>

----------------------------------------------------------------------------
(* The start of a scan, the blind scan and the end *)

(* am_scan_start and am_scan_start_dtv.                                      *)
Begin ==
    /\ At("begin")
    /\ started' = TRUE /\ subscribed' = TRUE /\ curr' = NoList
    /\ bs' = 0
    /\ Then(<<CASE mode = "auto" -> Do("trynit")
                [] mode = "blind" -> Do("bs")
                [] OTHER -> Do("ts")>>)
    /\ UNCHANGED <<plan, mode, stage, cnt, currTs, nits, progVars, evt, recv, tableVars,
                   sampled, timed, section, tuned, owed, fevt, feEvt, bpc, cancel, found,
                   appVars, history>>

(* am_scan_start_blind_scan: a stage is started, or skipped; after the last  *)
(* one the frequencies that were found are scanned.                          *)
StartBlind ==
    /\ At("bs")
    /\ \/ /\ bs <= LastBs
          /\ bpc' = "scan" /\ cancel' = FALSE /\ found' = 0
          /\ Return
          /\ UNCHANGED <<mode, bs>>
       \/ /\ bs <= LastBs
          /\ bs' = bs + 1 /\ found' = 0
          /\ Signal(<<Do("bs")>>)
          /\ UNCHANGED <<mode, bpc, cancel>>
       \/ /\ bs > LastBs
          /\ mode' = "allband"
          /\ Then(<<Do("ts")>>)
          /\ UNCHANGED blindVars
    /\ UNCHANGED <<plan, stage, started, cnt, curr, currTs, nits, progVars, evt, recv,
                   tableVars, sampled, timed, section, fendVars, appVars, history>>

(* am_scan_solve_blind_scan_done_evt: AM_FEND_BlindExit under the lock.      *)
BlindDone ==
    /\ At("blind")
    /\ cnt' = IF cnt \in 0 .. MaxFreqs - found THEN cnt + found ELSE cnt
    /\ cancel' = TRUE /\ spc' = "join"
    /\ agenda' = <<Do("nextbs")>> \o Tail(agenda)
    /\ Untouched
    /\ UNCHANGED <<stage, started, curr, currTs, nits, progVars, evt, recv, tableVars,
                   sampled, timed, bpc, found, bs, history>>

NextBlind ==
    /\ At("nextbs")
    /\ bs' = bs + 1
    /\ Then(<<Do("bs")>>)
    /\ Untouched
    /\ UNCHANGED <<dataVars, sampled, timed, bpc, cancel, found, history>>

(* The thread of the blind scan has ended, and is joined.                    *)
Joined ==
    /\ spc \in {"join", "exit"} /\ bpc = "ended"
    /\ bpc' = "none"
    /\ spc' = "run"
    /\ Untouched
    /\ UNCHANGED <<dataVars, agenda, sampled, timed, cancel, found, bs, history>>

(* The end of the thread: what was found may be stored, which is signalled.  *)
Quit ==
    /\ At("quit")
    /\ agenda' = If(started, <<Do("stop")>>) \o <<Do("window"), Do("unsub")>>
    /\ spc' \in {"run", "window"}
    /\ Untouched
    /\ UNCHANGED <<dataVars, sampled, timed, blindVars, history>>

(* Mutant of StopBlind: AM_FEND_BlindExit with the lock.                     *)
StopBlindLocked ==
    /\ At("stop") /\ mode = "blind"
    /\ cancel' = TRUE /\ spc' = "join"
    /\ agenda' = <<Do("free all")>> \o Tail(agenda)
    /\ Untouched
    /\ UNCHANGED <<dataVars, sampled, timed, bpc, found, bs, history>>

(* am_scan_stop_dtv: AM_FEND_BlindExit, without the lock, ...                *)
StopBlind ==
    /\ At("stop") /\ mode = "blind"
    /\ cancel' = TRUE /\ spc' = "exit"
    /\ agenda' = <<Do("free all")>> \o Tail(agenda)
    /\ Untouched
    /\ UNCHANGED <<dataVars, sampled, timed, bpc, found, bs, history>>

(* Mutant of Stop: without AM_DMX_Sync.                                      *)
StopNoSync ==
    /\ At("free all") \/ (At("stop") /\ mode # "blind")
    /\ live' = {}
    /\ Return
    /\ Untouched
    /\ UNCHANGED <<scanVars, progVars, evt, recv, fid, got, marked, expired, sampled, timed,
                   blindVars, history>>

(* ... then every filter is freed, and the callbacks that are under way are  *)
(* waited for.  The tables keep their filters' numbers.                      *)
Stop ==
    /\ At("free all") \/ (At("stop") /\ mode # "blind")
    /\ live' = {}
    /\ agenda' = Tail(agenda) /\ spc' = "sync"
    /\ Untouched
    /\ UNCHANGED <<scanVars, progVars, evt, recv, fid, got, marked, expired, sampled, timed,
                   blindVars, history>>

Unlock ==
    /\ At("unsub")
    /\ agenda' = << >> /\ spc' = "unsub"
    /\ Untouched
    /\ UNCHANGED <<dataVars, sampled, timed, blindVars, history>>

(* AM_EVT_Unsubscribe waits for the callbacks; then the scanner is freed.    *)
Unsubscribe ==
    /\ spc = "unsub" /\ fevt = NoList
    /\ subscribed' = FALSE
    /\ spc' = "gone"
    /\ UNCHANGED <<dataVars, agenda, sampled, timed, section, tuned, owed, fevt, feEvt,
                   blindVars, appVars, history>>

----------------------------------------------------------------------------
(* The other threads *)

LockFree == spc \in LockFreeStates

Raise(e) == evt' = evt \cup {e}

(* What another thread does without the lock commutes with what the scanner's *)
(* thread does with it: it is only looked at when that thread lets go, or     *)
(* blocks.                                                                   *)
Outside == spc # "run"

(* The demux reads a section of a filter ...                                 *)
SectionRead ==
    /\ Outside
    /\ section = NoSection
    /\ \E t \in Tables :
        /\ fid[t] \in live
        /\ section' = [table |-> t, fid |-> fid[t], stale |-> FALSE]
    /\ UNCHANGED <<dataVars, threadVars, fendVars, blindVars, appVars, history>>

Handled == {t \in Tables : fid[t] = section.fid}

(* ... and am_scan_section_handler looks the table up by the filter's        *)
(* number: no table, a section it has, ...                                   *)
SectionIgnored ==
    /\ section # NoSection /\ LockFree
    /\ \A t \in Handled : got[t] = "all"
    /\ section' = NoSection
    /\ UNCHANGED <<dataVars, threadVars, fendVars, blindVars, appVars, history>>

(* ... a section it cannot decode, ...                                       *)
SectionUndecoded ==
    /\ section # NoSection /\ LockFree /\ mishaps = {}
    /\ \E t \in Handled :
        /\ got[t] = "none"
        /\ Raise(Flag(t))
    /\ section' = NoSection
    /\ mishaps' = mishaps \cup {"undecoded"}
    /\ UNCHANGED <<scanVars, progVars, recv, tableVars, threadVars, fendVars, blindVars,
                   appVars, answered>>

(* ... or a new one, which may complete it.  The NIT goes to the result      *)
(* unless the thread is in the TS stage: then, like the others, to curr_ts.  *)
SectionCollected ==
    /\ section # NoSection /\ LockFree
    /\ \E t \in Handled :
        /\ got[t] # "all"
        /\ \E last \in BOOLEAN :
            /\ ~last => t \in Long /\ got[t] = "none"
            /\ got' = [got EXCEPT ![t] = IF last THEN "all" ELSE "some"]
            /\ IF last THEN Raise(Flag(t)) ELSE UNCHANGED evt
        /\ IF t = "pat" /\ pats = NoList THEN pats' \in 0 .. plan.progs ELSE UNCHANGED pats
        /\ nits' = (nits \/ (t = "nit" /\ stage # "ts"))
        /\ IF t = "nit" /\ stage = "ts" /\ ~currTs THEN Crash ELSE UNCHANGED <<spc, agenda>>
    /\ section' = NoSection
    /\ UNCHANGED <<plan, mode, stage, started, cnt, curr, currTs, curPat, prog, recv, fid,
                   marked, expired, live, sampled, timed, fendVars, blindVars, appVars,
                   history>>

(* The frontend has a status to report: its answer to SetPara, or a change.  *)
FendStatus ==
    /\ Outside
    /\ subscribed /\ fevt = NoList /\ owed > 0
    /\ fevt' = tuned /\ owed' = owed - 1
    /\ UNCHANGED <<dataVars, threadVars, section, tuned, subscribed, feEvt, blindVars,
                   appVars, history>>

(* am_scan_fend_callback.                                                    *)
FendCallback ==
    /\ fevt # NoList /\ LockFree
    /\ \E locked \in BOOLEAN : feEvt' = [freq |-> fevt, locked |-> locked]
    /\ Raise("fend")
    /\ fevt' = NoList
    /\ UNCHANGED <<scanVars, progVars, recv, tableVars, threadVars, section, tuned, owed,
                   subscribed, blindVars, appVars, history>>

(* The thread of the blind scan: it reports, until it is over or cancelled.  *)
BlindReport ==
    /\ Outside
    /\ bpc = "scan" /\ ~cancel
    /\ bpc' = "call"
    /\ UNCHANGED <<dataVars, threadVars, section, fendVars, cancel, found, bs, appVars,
                   history>>

(* am_scan_blind_scan_callback: a transponder, or 100 %.                     *)
BlindCallback ==
    /\ bpc = "call" /\ LockFree
    /\ \/ found' = 1 /\ bpc' = "scan" /\ UNCHANGED evt
       \/ Raise("blind") /\ bpc' = "over" /\ UNCHANGED found
    /\ UNCHANGED <<scanVars, progVars, recv, tableVars, threadVars, section, fendVars,
                   cancel, bs, appVars, history>>

BlindEnds ==
    /\ Outside
    /\ bpc \in {"scan", "over"} /\ cancel
    /\ bpc' = "ended"
    /\ UNCHANGED <<dataVars, threadVars, section, fendVars, cancel, found, bs, appVars,
                   history>>

(* AM_SCAN_Start, AM_SCAN_Pause and AM_SCAN_Resume.                          *)
AppStart ==
    /\ apc = "idle" /\ LockFree /\ ~started
    /\ Raise("start")
    /\ UNCHANGED <<scanVars, progVars, recv, tableVars, threadVars, outerVars, history>>

AppPause ==
    /\ Outside
    /\ apc = "idle"
    /\ \E status \in BOOLEAN : paused' = status
    /\ UNCHANGED <<dataVars, threadVars, section, fendVars, blindVars, destroying, apc,
                   history>>

(* AM_SCAN_Destroy ends a pause before it takes the lock, and keeps the      *)
(* thread from pausing again.                                                *)
Destroy ==
    /\ Outside
    /\ apc = "idle"
    /\ destroying' = TRUE /\ paused' = FALSE
    /\ apc' = "quit"
    /\ UNCHANGED <<dataVars, threadVars, section, fendVars, blindVars, history>>

DestroyQuit ==
    /\ apc = "quit" /\ LockFree
    /\ Raise("quit") /\ apc' = "join"
    /\ UNCHANGED <<scanVars, progVars, recv, tableVars, threadVars, section, fendVars,
                   blindVars, paused, destroying, history>>

DestroyReturn ==
    /\ apc = "join" /\ spc = "gone"
    /\ apc' = "returned"
    /\ UNCHANGED <<dataVars, threadVars, section, fendVars, blindVars, paused, destroying,
                   history>>

(* The end, of the process if it crashed: so that TLC's deadlock is a real one. *)
Terminated == spc \in {"gone", "crashed"} /\ apc \in {"returned", "join", "quit"} /\ UNCHANGED vars

----------------------------------------------------------------------------
ScannerStep ==
    \/ Check \/ Recheck \/ Complete \/ Wait \/ Woken \/ TimedOut \/ Clear \/ Window \/ Resume
    \/ Free \/ NothingToFree \/ Synced \/ Request \/ FreeSlot \/ RequestPmts \/ RequestSlot \/ SkipSlot
    \/ PatDone \/ PatList \/ SdtDone \/ NitDoneInTs \/ NitMissing \/ NitFound
    \/ TryNit \/ StartTs \/ Resumed \/ LeaveTs \/ NextFreq \/ Tune
    \/ FendEvent \/ NotLocked \/ LockedForNit \/ LockedForTs
    \/ Begin \/ StartBlind \/ BlindDone \/ NextBlind \/ Joined
    \/ Quit \/ StopBlind \/ Stop \/ Unlock

SectionHandled == SectionIgnored \/ SectionUndecoded \/ SectionCollected

Next ==
    \/ ScannerStep \/ Unsubscribe
    \/ SectionRead \/ SectionHandled
    \/ FendStatus \/ FendCallback
    \/ BlindReport \/ BlindCallback \/ BlindEnds
    \/ AppStart \/ AppPause \/ Destroy \/ DestroyQuit \/ DestroyReturn
    \/ Terminated

Spec == Init /\ [][Next]_vars

----------------------------------------------------------------------------
(* Properties *)

(* am_scan_free_filter promises that no stale data comes after it            *)
(* (am_scan.c:3188): a section of a filter that was freed is never taken for *)
(* one of the table, or of the program, that got the filter's number next.   *)
SectionIsCurrent == section.stale => Handled = {}

(* The thread does not read curr_ts when there is none, unless a table was   *)
(* completed just when its time was up, nor the list of frequencies when it  *)
(* is NULL, unless it was NULL at the end of the scan; and once the scanner  *)
(* is freed no other thread is in one of its callbacks or will be.           *)
NothingFreedIsUsed ==
    /\ spc = "crashed" => mishaps \cap {"late", "unlisted"} # {}
    /\ spc = "gone" => section = NoSection /\ fevt = NoList /\ bpc = "none"

(* A scan that is not over never sleeps on a table that is complete, and     *)
(* without a time limit it sleeps on an answer that is on its way only: of   *)
(* the frontend for the frequency it tuned, or of the blind scan.            *)
Asleep == spc = "wait" /\ evt = {} /\ started /\ stage # "done"
NoneOverlooked == "lost" \notin mishaps => \A t \in Tables : ~Unhandled(t)

SleepsForAReason ==
    Asleep =>
        /\ NoneOverlooked
        /\ \/ timed
           \/ "fend" \in recv /\ tuned = curr /\ (owed = plan.status \/ fevt = curr)
           \/ bpc \in {"scan", "call"}
           \/ mishaps \cap {"starved", "partial", "satellite"} # {}

(* A frequency is left when it could not be tuned or was not locked, or when *)
(* each of its tables came or had its time.                                  *)
FrequencyAnswered ==
    At("next") /\ curr >= 0 =>
        answered \/ mishaps \cap {"again", "starved", "undecoded", "unlisted"} # {}

(* AM_SCAN_Destroy never finds the thread blocked for good with the lock: a  *)
(* pause is over once it is asked for, and a thread of the blind scan that   *)
(* is joined under the lock does not need it any more, nor is it joined      *)
(* twice.                                                                    *)
JoinsEnd ==
    /\ spc = "paused" /\ apc # "idle" => ~paused
    /\ spc \in {"join", "exit"} => bpc # "none"
    /\ spc = "join" => bpc # "call"
----------------------------------------------------------------------------
(* The inductive invariants behind the properties. *)

Pending == Range(agenda)
Has(op) == Do(op) \in Pending
Waits(op, t) == For(op, t) \in Pending

(* What may come behind a task.                                              *)
Later == {"fend", "done", "pmtfree", "pmts", "blind", "quit", "clear", "recheck", "check", "wait"}
Behind(op) ==
    CASE op \in Finals -> {}
      [] op = "request" -> Later \cup {"request"}
      [] op = "free" -> Later \cup {"request", "free", "ts"}
      [] op = "window" -> Later \cup {"begin", "leave", "unsub"}
      [] op \in {"stop", "free all"} -> {"window", "unsub"}
      [] op \in {"done", "fend"} -> Later \ {"fend"}
      [] op = "blind" -> {"quit", "clear"}
      [] OTHER -> Later
Before(x, y) == y[1] \in Behind(x[1])

Ordered == \A i, j \in 1 .. Len(agenda) : i < j => Before(agenda[i], agenda[j])
Idling == {"wait", "unsub", "gone", "crashed"}

AgendaInv ==
    /\ TypeOK /\ Ordered
    /\ agenda = << >> <=> spc \in Idling
    /\ agenda # << >> => \E x \in Pending : x[1] \in Finals

(* The end of the thread, and what comes after the filters are freed in it.  *)
Ending == Has("unsub") \/ spc \in {"unsub", "gone"}
Ended == Ending /\ ~Has("stop") /\ ~Has("free all")

(* A scanner that was not started.                                           *)
NotStarted ==
    ~started =>
        /\ mode = plan.mode /\ stage = "start" /\ recv = {} /\ ~currTs
        /\ evt \subseteq {"start", "quit"} /\ section = NoSection /\ bpc = "none"
        /\ ~subscribed /\ fevt = NoList
        /\ \A t \in Tables : fid[t] = NoFid
        /\ \A x \in Pending : x[1] \in Finals \cup {"window", "begin"}

(* The events that are handled.                                              *)
Sampled ==
    /\ sampled \subseteq evt
    /\ sampled # {} => Has("clear") \/ Has("quit") \/ Ending \/ spc = "crashed"
    /\ Has("begin") => ~started
    /\ Has("stop") => started
    /\ \A t \in Tables : Waits("done", t) => t \notin SlotSet
    /\ agenda # << >> =>
          \A t \in Tables : For("done", t) \in Range(Tail(agenda)) => t \in evt

(* The filters and the section that is delivered.                            *)
Filtered ==
    /\ \A t, u \in Tables : fid[t] = fid[u] /\ fid[t] # NoFid => t = u
    /\ ~Ended => live = {fid[t] : t \in Tables} \ {NoFid}
    /\ Ended => live = {} /\ (section = NoSection \/ spc = "sync")
    /\ section = NoSection \/ section.fid \in Fids
    /\ section.stale => spc = "sync" /\ Handled = {}

(* The thread of the blind scan.                                             *)
Blinded ==
    /\ started /\ mode = "blind" =>
          \/ bpc # "none" \/ Has("bs") \/ Has("nextbs") \/ Has("free all")
          \/ Ended \/ spc = "crashed"
    /\ bpc # "none" => started /\ mode = "blind" /\ bs <= LastBs
    /\ Has("bs") => bpc = "none" /\ mode = "blind" /\ started
    /\ Has("nextbs") =>
          /\ mode = "blind" /\ started /\ bs <= LastBs
          /\ IF spc = "join" THEN bpc \in {"over", "ended"} ELSE bpc = "none"
    /\ Has("blind") => bpc = "over" /\ ~cancel /\ "blind" \in sampled
    /\ "blind" \in evt => bpc = "over" \/ "blind" \in sampled \/ Ending \/ spc = "crashed"
    /\ spc = "join" => Has("nextbs") /\ "blind" \in sampled
    /\ spc = "exit" => Has("free all") /\ bpc # "none" /\ Ending
    /\ Has("free all") /\ spc # "exit" => bpc = "none"
    /\ Ended => bpc = "none"
    /\ bpc \in {"scan", "call", "over"} /\ cancel => spc \in {"join", "exit", "crashed"}
    /\ bpc = "ended" => spc \in {"join", "exit", "crashed"}

(* The application.                                                          *)
Destroyed == apc # "idle" => destroying /\ ~paused

(* The current transport stream, and what is asked for in it.                *)
Idle(t) ==
    /\ fid[t] = NoFid /\ Flag(t) \notin recv /\ Flag(t) \notin evt
    /\ ~Waits("done", t) /\ ~Waits("request", t)
Leaving == Has("ts") \/ (stage = "ts" /\ (Has("leave") \/ Has("next") \/ Has("tune")))

Current ==
    /\ currTs => stage = "ts" /\ "fend" \notin recv /\ ~Has("next") /\ ~Has("tune")
    /\ stage = "start" =>
          /\ recv = {} /\ evt \cap {"pat", "pmt", "sdt", "nit"} = {}
          /\ \A t \in Tables : fid[t] = NoFid /\ ~Waits("request", t) /\ ~Waits("done", t)
          /\ ~Has("next") /\ ~Has("tune")
    /\ mode = "blind" => stage = "start" /\ ~Has("trynit") /\ ~Has("ts")
    /\ Has("trynit") => stage # "ts"
    /\ Has("leave") => stage = "ts"
    /\ "late" \notin mishaps /\ ~currTs => \A t \in Tables \ {"nit"} : Idle(t)
    /\ stage = "ts" /\ (fid["nit"] # NoFid \/ Waits("request", "nit")) => currTs
    /\ \A t \in Tables \ {"nit"} : fid[t] # NoFid \/ Waits("request", t) => currTs
    /\ \A i \in 1 .. Len(Slots) : Waits("slot", i) => currTs
    /\ Leaving => recv = {} /\ \A t \in Tables : fid[t] # NoFid => Waits("free", t)
    /\ stage = "ts" /\ "fend" \in recv => recv = {"fend"} /\ \A t \in Tables : fid[t] = NoFid
    /\ Has("status") => "fend" \in recv
    /\ spc = "crashed" => mishaps \cap {"late", "unlisted"} # {}
    /\ spc = "gone" => fevt = NoList /\ ~subscribed

(* What a frequency waits for, as long as no mishap of FrequencyAnswered's   *)
(* premise has happened.                                                     *)
Regular == mishaps \cap {"again", "starved", "undecoded", "unlisted"} = {}

(* The frontend's answers are of the frequency it is tuned to, or come       *)
(* before that one's.                                                        *)
Heard ==
    /\ "fend" \notin recv => fevt \in {NoList, tuned} /\ feEvt.freq \in {NoList, tuned}
    /\ "fend" \in recv =>
          /\ tuned = curr /\ curr >= 0
          /\ feEvt.freq = curr => fevt \in {NoList, curr}
          /\ ~Has("trynit") /\ ~Has("ts") /\ ~Has("leave") /\ ~Has("next") /\ ~Has("tune")
    /\ Has("status") => feEvt.freq = curr
    /\ currTs => tuned = curr /\ curr >= 0
    /\ Has("tune") => curr >= 0

(* The NIT, before the list of frequencies is scanned.                       *)
Seeking == Has("trynit") \/ (stage = "nit" /\ ("fend" \in recv \/ Has("next") \/ Has("tune")))

NitSought ==
    /\ stage = "start" => curr = NoList /\ ~nits
    /\ stage = "done" => curr = NoList /\ ~Has("next") /\ ~Has("tune") /\ (cnt > 0 => nits)
    /\ stage \in {"start", "nit"} /\ cnt > 0 =>
          /\ "nit" \in evt => nits
          /\ Waits("done", "nit") => nits \/ "nit" \in expired
    /\ Seeking => fid["nit"] = NoFid /\ ~nits /\ ~Waits("request", "nit")

(* The PAT and the SDT of the current transport stream: they are asked for   *)
(* one after the other, and come, or have their time.                        *)
PatSdt == {"pat", "sdt"}
Unasked == {For("request", t) : t \in PatSdt}

InTurn ==
    /\ spc = "run" /\ agenda # << >>
    /\ \/ Head(agenda) = For("request", "sdt") /\ Range(Tail(agenda)) \cap Unasked = {}
       \/ /\ Head(agenda) = For("request", "pat")
          /\ Tail(agenda) # << >> /\ Head(Tail(agenda)) = For("request", "sdt")
          /\ Range(Tail(Tail(agenda))) \cap Unasked = {}

Coming(t) == t \in recv \/ got[t] = "all" \/ t \in expired

Asked ==
    /\ stage = "ts" /\ ~Leaving /\ spc # "crashed" => "fend" \in recv \/ currTs
    /\ currTs /\ Leaving =>
          Has("wait") /\ \A x \in Pending : x[1] \in {"free", "ts", "window", "leave", "wait"}
    /\ Pending \cap Unasked # {} => InTurn
    /\ currTs /\ ~Leaving =>
          \A t \in PatSdt :
              /\ Waits("request", t) \/ Coming(t)
              /\ t \in evt => got[t] = "all"
              /\ Waits("done", t) => got[t] = "all" \/ t \in expired
              /\ Waits("request", t) => t \notin evt /\ ~Waits("done", t) /\ fid[t] = NoFid

(* No transport stream, and a PAT or an SDT of the one that was left, which  *)
(* came late: it is not handled after the next stream was locked.            *)
Untroubled == \A t \in PatSdt : t \notin evt /\ ~Waits("done", t)
Doomed ==
    /\ \E t \in PatSdt : Waits("done", t)
    /\ ~Has("status") /\ (Has("fend") => At("fend") /\ ~FendExpected)
Left ==
    /\ \A x \in Pending : x[1] \in {"next", "tune", "wait"}
    /\ Has("wait")
    /\ Has("next") => tuned <= curr
    /\ Has("tune") => tuned < curr
    /\ "fend" \in recv => spc = "run" /\ feEvt.freq # curr
Overdue == ~currTs /\ spc # "crashed" => Untroubled \/ Doomed \/ Left

(* The programs of the PAT.                                                  *)
Listed ==
    /\ \A t \in SlotSet : fid[t] # NoFid => "pmt" \in recv
    /\ Has("patlist") => currTs /\ Has("pmts")
    /\ curPat \/ prog # NoList =>
          /\ currTs /\ pats # NoList
          /\ "pmt" \in recv \/ Has("pmts") \/ \E i \in 1 .. Len(Slots) : Waits("slot", i)

Answered == curr >= 0 /\ (Has("trynit") \/ Has("ts") \/ Has("leave") \/ Has("next")) => answered

(* A table that is complete has its event.  Until the event of a PAT, an SDT *)
(* or a NIT that is handled is cleared, its `done' function is yet to come,  *)
(* as long as the table has a filter or may get one.                         *)
Heeded ==
    /\ \A t \in Tables : Unhandled(t) => "lost" \in mishaps \/ Flag(t) \in evt
    /\ \A t \in {"pat", "sdt", "nit"} :
          t \in sampled /\ (fid[t] # NoFid \/ Waits("request", t) \/ Has("status") \/ Has("fend")) =>
              Waits("done", t) \/ Ending \/ spc = "crashed"

Orderly == Regular => Heard /\ NitSought /\ Asked /\ Overdue /\ Listed /\ Answered
=============================================================================
