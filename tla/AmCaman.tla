-------------------------------- MODULE AmCaman --------------------------------
(***************************************************************************)
(* am_caman.c, the CA manager, with the CA of a common interface under it: *)
(* ca_ci.c and am_ci.c.                                                    *)
(*                                                                         *)
(* The manager's thread has the PAT, the CAT and the PMT of a service      *)
(* received, gives the PMT to the CAs, and asks for the tables again from  *)
(* time to time to see whether they have changed.  Four threads meet: the  *)
(* manager's (mon), one application (app), the demux' callbacks (dmx) and  *)
(* the thread that polls the CAM (cam).  mon and app work with man->lock   *)
(* held and call the CAs from under it; dmx changes man->ts.tsevt without  *)
(* it; cam comes from below, with the locks of the CI, and takes it last.  *)
(*                                                                         *)
(* What the holder of man->lock has yet to do is the agenda, a stack of    *)
(* the calls under way; with the last of them it gives the lock back.  A   *)
(* lock that is taken and given back with nothing to wait for in between   *)
(* is the guard of one step.                                               *)
(***************************************************************************)
EXTENDS Integers, SequencesExt

CONSTANTS
    CaSeq,          \* the names of the registered CAs, in a fixed order
    Ci,             \* the one that is ca_ci.c; the others need no lock
    AutoDisabled,   \* CAs registered with auto_disable
    Callbacks,      \* CAs whose messages go to a callback of the application
    Services,       \* the service ids that are started
    Ids,            \* Ids[t][v]: the CA system id in version v of the CAT or PMT
    Accepts,        \* Accepts[c]: the CA system ids that c's camatch knows
    MaxCalls,       \* bounds: calls of the application,
    MaxChanges,     \* changes of a table's content,
    MaxFend,        \* events of the frontend,
    MaxRounds,      \* times a table is received again,
    MaxMsgs         \* messages of the CAM

Cas == {CaSeq[i] : i \in 1 .. Len(CaSeq)}
Tables == {"pat", "cat", "pmt"}
Versions == 0 .. MaxChanges
NoCa == "no ca"
NoService == "no service"
NoPmt == <<NoService, NoService>>
Nobody == "nobody"

ASSUME CaAssumption ==
    /\ CaSeq \in Seq(Cas) /\ Ci \in Cas
    /\ \A i, j \in 1 .. Len(CaSeq) : CaSeq[i] = CaSeq[j] => i = j
    /\ AutoDisabled \subseteq Cas /\ Callbacks \subseteq Cas /\ NoCa \notin Cas
ASSUME ServiceAssumption == NoService \notin Services
ASSUME BoundsAssumption == {MaxCalls, MaxChanges, MaxFend, MaxRounds, MaxMsgs} \subseteq Nat

VARIABLES
    lock, agenda,       \* man->lock; what its holder has yet to do
    mpc, apc,           \* the manager's thread, the application
    tsevt,              \* ts.tsevt
    quit, paused,       \* man->quit, man->pause
    service, disabled,  \* ts.service_id, pmt_disable
    force,              \* ts.ca_force
    listed,             \* the list a CA is in: man->calist, ts.calist, or the one
                        \* on the stack of match_ca_auto
    status, bound,      \* cai->status; cai->ts is not NULL
    opened,             \* the CA's open has been called, and its close has not
    given,              \* the service and the program a CA was last told to start
    msgs,               \* messages in cai->msglist
    table, ver, tlock,  \* the tables; pmt_pid, cat_ver, pmt_ver; table->lock
    dmx,                \* the demux thread in section_handler
    clock, cilock,      \* ca_ci->lock, ci->lock
    ci, cam,            \* the CI device and its ca_ci_t; ci_camthread
    air, spent,         \* the content of the tables in the stream; the bounds
    mishaps             \* history: known mishaps (see Mishaps) that have happened

workVars == <<lock, agenda, mpc, apc>>
manVars == <<tsevt, quit, paused, service, disabled, force>>
caVars == <<listed, status, bound, opened, given, msgs>>
tableVars == <<table, ver, tlock>>
ciVars == <<clock, cilock, ci, cam>>
envVars == <<air, spent>>
vars == <<workVars, manVars, caVars, tableVars, dmx, ciVars, envVars, mishaps>>

(* What the code lets happen and does not repair.  A property says which of  *)
(* them it survives.                                                         *)
(*   raced      tsevt is changed by a callback and a holder of man->lock     *)
(*   paused     events are thrown away while the manager is paused           *)
(*   timeout    a table that has not come in time is not asked for again     *)
(*   lost       a table is complete before the event of its change is cleared*)
(*   restarted  the thread starts the tables again after AM_CAMAN_Close has  *)
(*              stopped them                                                 *)
(*   matched    match_ca_auto opens a CA: one that is open cannot send any   *)
(*              more, one that is not will not be closed                     *)
(*   reopened   the CI is started again with camthread_quit still set        *)
(*   nocam      the CI cannot be started; its CA counts as open              *)
(*   dangling   the CA in ca_force is closed                                 *)
(*   mixed      a CA is forced on a service while another works              *)
Mishaps == {"raced", "paused", "timeout", "lost", "restarted", "matched", "reopened",
            "nocam", "dangling", "mixed"}
Mishap(cond, m) == mishaps' = mishaps \cup (IF cond THEN {m} ELSE {})

Evt(k, t) == <<k, t>>
NewTs == Evt("new", "ts")
Events(t) == {Evt(k, t) : k \in {"new", "mon", "start"}}
AllEvents == {NewTs} \cup UNION {Events(t) : t \in Tables}

(* What may be on the agenda.                                                *)
Systems == {Ids[t][v] : t \in {"cat", "pmt"}, v \in Versions}
CaOps == {"enter", "start", "stoppmt", "open", "register", "disable", "uncall", "stopci",
          "closed", "receive", "unlist", "destroy", "list", "getmsg"}
AgendaTasks ==
    ({"stop", "first", "again", "runfirst", "runagain", "timeout", "new", "monitor"} \X Tables)
    \cup ({"handled"} \X (Tables \cup {"ts"})) \cup ({"from"} \X (1 .. 4))
    \cup ({"sync", "closets", "collect", "give", "noservice", "pause", "resume", "quit"}
              \X {"none"})
    \cup (CaOps \X Cas) \cup ({"arrange"} \X Systems)
    \cup ({"unmatch", "match"} \X (Cas \X Systems))
    \cup ({"service"} \X (Services \X (Cas \cup {NoCa})))

TypeOK ==
    /\ lock \in {Nobody, "mon", "app"} /\ agenda \in Seq(AgendaTasks)
    /\ mpc \in {"top", "lock", "late", "wait", "run", "gone"}
    /\ apc \in {"idle", "run", "join", "remove", "over"}
    /\ tsevt \subseteq AllEvents
    /\ {quit, paused, disabled} \subseteq BOOLEAN
    /\ service \in Services \cup {NoService} /\ force \in Cas \cup {NoCa}
    /\ listed \in [Cas -> {"none", "man", "ts", "tmp"}]
    /\ {status, bound, opened} \subseteq [Cas -> BOOLEAN]
    /\ given \in [Cas -> {NoPmt} \cup (Services \cup {NoService}) \X Services]
    /\ msgs \in [Cas -> 0 .. MaxMsgs]
    /\ table \in [Tables -> [open : BOOLEAN, run : BOOLEAN, monitor : BOOLEAN,
                             got : SUBSET Versions, pid : Versions \cup {-1},
                             prog : Services \cup {NoService}]]
    /\ ver \in [Tables -> Versions \cup {-1}]
    /\ tlock \in [Tables -> {Nobody, "mon", "dmx"}]
    /\ dmx \in [at : {"idle", "lock", "end"}, table : Tables, ver : Versions,
                copy : SUBSET AllEvents]
    /\ clock \in {Nobody, "mon", "app", "cam"} /\ cilock \in {Nobody, "app", "cam"}
    /\ ci \in [started : BOOLEAN, quit : BOOLEAN, called : BOOLEAN, info : BOOLEAN,
               send : BOOLEAN, enabled : BOOLEAN, pmt : BOOLEAN, freed : BOOLEAN]
    /\ cam \in {"none", "poll", "ci", "ca", "man"}
    /\ air \in [Tables -> Versions]
    /\ spent \in [calls : 0 .. MaxCalls, changes : 0 .. MaxChanges,
                  fend : 0 .. MaxFend, rounds : 0 .. MaxRounds, msgs : 0 .. MaxMsgs]
    /\ mishaps \subseteq Mishaps

Closed == [open |-> FALSE, run |-> FALSE, monitor |-> FALSE, got |-> {}, pid |-> -1,
           prog |-> NoService]
NoSection == [at |-> "idle", table |-> "pat", ver |-> 0, copy |-> {}]

(* The manager is open, its CAs are registered.                              *)
Init ==
    /\ lock = Nobody /\ agenda = << >> /\ mpc = "top" /\ apc = "idle"
    /\ tsevt = {} /\ quit = FALSE /\ paused = FALSE
    /\ service = NoService /\ disabled = FALSE /\ force = NoCa
    /\ listed = [c \in Cas |-> "man"]
    /\ status = [c \in Cas |-> FALSE] /\ bound = [c \in Cas |-> FALSE]
    /\ opened = [c \in Cas |-> FALSE]
    /\ given = [c \in Cas |-> NoPmt] /\ msgs = [c \in Cas |-> 0]
    /\ table = [t \in Tables |-> Closed] /\ ver = [t \in Tables |-> -1]
    /\ tlock = [t \in Tables |-> Nobody]
    /\ dmx = NoSection
    /\ clock = Nobody /\ cilock = Nobody
    /\ ci = [f \in {"started", "quit", "called", "info", "send", "enabled", "pmt",
                    "freed"} |-> FALSE]
    /\ cam = "none"
    /\ air = [t \in Tables |-> 0]
    /\ spent = [f \in {"calls", "changes", "fend", "rounds", "msgs"} |-> 0]
    /\ mishaps = {}

----------------------------------------------------------------------------
(* The agenda *)

(* Who works it off: the holder of man->lock, or AM_CAMAN_Close without it.  *)
Worker == IF apc = "remove" THEN "app" ELSE lock

Do(op) == <<op, "none">>
For(op, x) == <<op, x>>
If(cond, tasks) == IF cond THEN tasks ELSE << >>

At(op) == agenda # << >> /\ Head(agenda)[1] = op
Of == Head(agenda)[2]

(* The head of the agenda is replaced by tasks.  If nothing is left the call *)
(* returns, or the thread comes to its wait or to the end of its loop, with  *)
(* man->lock given back.                                                     *)
Then(tasks) ==
    /\ agenda' = tasks \o Tail(agenda)
    /\ IF agenda' # << >> THEN UNCHANGED <<lock, mpc, apc>>
       ELSE /\ lock' = Nobody
            /\ mpc' = IF lock = "mon" THEN (IF mpc = "late" THEN "wait" ELSE "top") ELSE mpc
            /\ apc' = IF apc = "remove" THEN "over" ELSE IF lock = "app" THEN "idle" ELSE apc
Return == Then(<< >>)

(* The tables or CAs of a sequence for which there is something to do, and   *)
(* what that is.                                                             *)
Each(seq, S, Tasks(_)) ==
    FlattenSeq([i \in 1 .. Len(seq) |-> If(seq[i] \in S, Tasks(seq[i]))])

In(l) == {c \in Cas : listed[c] = l}
Registered(c) == c # NoCa /\ listed[c] # "none"

(* A call of a CA: ca_ci.c takes its lock for the length of it.  A CA that is*)
(* gone is not called: what that would do is not modelled.                   *)
Calling(c, task) == If(Registered(c), If(c = Ci, <<For("enter", c)>>) \o <<task>>)
CaCall(op, c) == Calling(c, For(op, c))

(* The calls of ca_open, ca_close and do_rm_ca.                              *)
Opening(c) == CaCall("open", c) \o CaCall("register", c)

Closing(c) ==
    CaCall("disable", c)
    \o If(c = Ci, <<For("enter", c), For("uncall", c), For("stopci", c)>>)
    \o <<For("closed", c)>>
Removing(c) == <<For("unlist", c)>> \o If(status[c], Closing(c)) \o <<For("destroy", c)>>

(* close_ts: the tables are stopped one by one, and closed.                  *)
TableSeq == <<"pmt", "pat", "cat">>
CloseTs == <<For("stop", "pmt"), For("stop", "pat"), For("stop", "cat"), Do("closets")>>
OnNewTs == CloseTs \o <<For("first", "pat"), For("first", "cat")>>
----------------------------------------------------------------------------
(* The tables *)

Set(t, r) == table' = [table EXCEPT ![t] = r]

(* AM_DMX_Sync waits for the callback that runs, whatever table it is for.   *)
Sync == If(dmx.at # "idle", <<Do("sync")>>)

(* Mutant: table_stop does not wait.                                        *)
StopTableNoSync ==
    /\ At("stop")
    /\ Set(Of, [table[Of] EXCEPT !.run = FALSE])
    /\ Return
    /\ UNCHANGED <<manVars, caVars, ver, tlock, dmx, ciVars, envVars, mishaps>>

(* table_stop.                                                               *)
StopTable ==
    /\ At("stop")
    /\ Set(Of, [table[Of] EXCEPT !.run = FALSE])
    /\ Then(If(table[Of].open, Sync))
    /\ UNCHANGED <<manVars, caVars, ver, tlock, dmx, ciVars, envVars, mishaps>>

Synced ==
    /\ At("sync") /\ dmx.at = "idle"
    /\ Return
    /\ UNCHANGED <<manVars, caVars, tableVars, dmx, ciVars, envVars, mishaps>>

(* The end of close_ts.                                                      *)
CloseTables ==
    /\ At("closets")
    /\ tsevt' = tsevt \cap {NewTs}
    /\ table' = [t \in Tables |-> Closed]
    /\ Return
    /\ Mishap(quit, "restarted")
    /\ UNCHANGED <<quit, paused, service, disabled, force, caVars, ver, tlock, dmx, ciVars,
                   envVars>>

(* start_table_pat, start_table_cat, start_table_pmt: the events of the table*)
(* are cleared, it is stopped, ...                                           *)
StartTable ==
    /\ At("first") \/ At("again")
    /\ tsevt' = tsevt \ Events(Of)
    /\ Set(Of, [table[Of] EXCEPT !.run = FALSE])
    /\ Then(If(table[Of].open, Sync)
            \o <<For(IF At("first") THEN "runfirst" ELSE "runagain", Of)>>)
    /\ UNCHANGED <<quit, paused, service, disabled, force, caVars, ver, tlock, dmx, ciVars,
                   envVars, mishaps>>

(* ... and received for the first time, or again to see whether it changes.  *)
RunTable ==
    /\ \/ /\ At("runfirst")
          /\ Set(Of, [Closed EXCEPT !.open = TRUE, !.run = TRUE,
                          !.pid = IF Of = "pmt" THEN ver["pat"] ELSE -1,
                          !.prog = IF Of = "pmt" THEN service ELSE NoService])
       \/ /\ At("runagain")
          /\ Set(Of, IF ~table[Of].open THEN table[Of]
                     ELSE [table[Of] EXCEPT !.run = TRUE, !.monitor = TRUE,
                              !.got = IF Of # "pmt" /\ table[Of].monitor THEN @ ELSE {}])
    /\ Return
    /\ UNCHANGED <<manVars, caVars, ver, tlock, dmx, ciVars, envVars, mishaps>>

(* section_handler, in the demux' thread, with the last section of a table.  *)
Capture(t) ==
    /\ dmx.at = "idle" /\ table[t].run
    /\ t = "pmt" => table[t].pid = air["pat"]
    /\ dmx' = [NoSection EXCEPT !.at = "lock", !.table = t, !.ver = air[t]]
    /\ UNCHANGED <<workVars, manVars, caVars, tableVars, ciVars, envVars, mishaps>>

(* It takes table->lock, decodes the table in pat_done, cat_done or pmt_done,*)
(* ...                                                                       *)
SectionDecodes ==
    /\ dmx.at = "lock" /\ tlock[dmx.table] = Nobody
    /\ tlock' = [tlock EXCEPT ![dmx.table] = "dmx"]
    /\ table' = [table EXCEPT ![dmx.table].got = @ \cup {dmx.ver}]
    /\ dmx' = [dmx EXCEPT !.at = "end", !.copy = tsevt]
    /\ UNCHANGED <<workVars, manVars, caVars, ver, ciVars, envVars, mishaps>>

(* Mutant: the callback takes man->lock to raise its event.                  *)
SectionEndsLocked ==
    /\ dmx.at = "end" /\ lock = Nobody
    /\ tsevt' = tsevt \cup {Evt("new", dmx.table)}
    /\ table' = [table EXCEPT ![dmx.table].run = FALSE]
    /\ tlock' = [tlock EXCEPT ![dmx.table] = Nobody]
    /\ dmx' = NoSection
    /\ UNCHANGED <<workVars, quit, paused, service, disabled, force, caVars, ver, ciVars,
                   envVars, mishaps>>

(* ... raises its event without man->lock -- what it has read is written     *)
(* back, or a holder of the lock that writes at the same time overwrites it  *)
(* -- and stops the table.                                                   *)
SectionEnds ==
    /\ dmx.at = "end"
    /\ \/ tsevt' = dmx.copy \cup {Evt("new", dmx.table)}
       \/ /\ \E op \in {"closets", "first", "again", "monitor", "handled"} : At(op)
          /\ tsevt' = tsevt
    /\ Mishap(dmx.copy # tsevt \/ Evt("new", dmx.table) \notin tsevt', "raced")
    /\ table' = [table EXCEPT ![dmx.table].run = FALSE]
    /\ tlock' = [tlock EXCEPT ![dmx.table] = Nobody]
    /\ dmx' = NoSection
    /\ UNCHANGED <<workVars, quit, paused, service, disabled, force, caVars, ver, ciVars,
                   envVars>>

(* The broadcaster changes a table.  The version of the PAT is the pid it    *)
(* gives the PMTs.                                                           *)
Change(t) ==
    /\ spent.changes < MaxChanges
    /\ air' = [air EXCEPT ![t] = spent.changes + 1]
    /\ spent' = [spent EXCEPT !.changes = @ + 1]
    /\ UNCHANGED <<workVars, manVars, caVars, tableVars, dmx, ciVars, mishaps>>
----------------------------------------------------------------------------
(* The manager's thread (caman_thread) *)

MonTop ==
    /\ mpc = "top"
    /\ mpc' = IF quit THEN "gone" ELSE "lock"
    /\ UNCHANGED <<lock, agenda, apc, manVars, caVars, tableVars, dmx, ciVars, envVars,
                   mishaps>>

(* get_wait_timespec.  Some of the tables are due again; if there is no event*)
(* at all, some of those that are being received are late.                   *)
MonLock ==
    /\ mpc = "lock" /\ lock = Nobody
    /\ \E due \in SUBSET {t \in Tables : Evt("mon", t) \in tsevt} :
       \E late \in SUBSET {t \in Tables : table[t].run} :
          /\ tsevt' = (tsevt \ {Evt("mon", t) : t \in due}) \cup {Evt("start", t) : t \in due}
          /\ tsevt' # {} => late = {}
          /\ spent.rounds + Cardinality(due) \in 0 .. MaxRounds
          /\ spent' = [spent EXCEPT !.rounds = @ + Cardinality(due)]
          /\ agenda' = Each(<<"pmt", "cat", "pat">>, late, LAMBDA t : <<For("timeout", t)>>)
    /\ IF agenda' # << >> THEN lock' = "mon" /\ mpc' = "late"
                          ELSE UNCHANGED lock /\ mpc' = "wait"
    /\ UNCHANGED <<apc, quit, paused, service, disabled, force, caVars, tableVars, dmx,
                   ciVars, air, mishaps>>

(* A table's done, with TABLE_TIMEOUT: the table is stopped, and that is all.*)
TimeOut ==
    /\ At("timeout")
    /\ Set(Of, [table[Of] EXCEPT !.run = FALSE])
    /\ Then(If(table[Of].run, Sync))
    /\ Mishap(table[Of].run, "timeout")
    /\ UNCHANGED <<manVars, caVars, ver, tlock, dmx, ciVars, envVars>>

(* It wakes up for a signal, or because its time is over.  First it passes on*)
(* the messages that have a callback (on_process_msgs).                      *)
MonWake ==
    /\ mpc = "wait" /\ lock = Nobody
    /\ msgs' = [c \in Cas |-> IF c \in Callbacks THEN 0 ELSE msgs[c]]
    /\ tsevt' = IF paused THEN {} ELSE tsevt
    /\ Mishap(tsevt # tsevt', "paused")
    /\ agenda' = If(tsevt' # {}, If(NewTs \in tsevt', OnNewTs \o <<For("handled", "ts")>>)
                                 \o <<For("from", 1)>>)
    /\ IF agenda' # << >> THEN lock' = "mon" /\ mpc' = "run"
                          ELSE UNCHANGED lock /\ mpc' = "top"
    /\ UNCHANGED <<apc, quit, paused, service, disabled, force, listed, status, bound, opened,
                   given, tableVars, dmx, ciVars, envVars>>

(* Its look at the events: those of tables that are new, one after the other,*)
(* then those of tables to be received again.                                *)
NewSeq == <<"pmt", "cat", "pat">>
Look ==
    /\ At("from")
    /\ LET new == {i \in Of .. 3 : Evt("new", NewSeq[i]) \in tsevt}
       IN  IF new # {} THEN Then(<<For("new", NewSeq[Min(new)]), For("from", Min(new) + 1)>>)
           ELSE Then(Each(TableSeq, {t \in Tables : Evt("start", t) \in tsevt},
                          LAMBDA t : <<For("again", t)>>))
    /\ UNCHANGED <<manVars, caVars, tableVars, dmx, ciVars, envVars, mishaps>>

Changed(t) == (t = "pat" => service # NoService) /\ \E v \in table[t].got : v # ver[t]

(* What on_new_pat, on_new_cat and on_new_pmt do with a table received for   *)
(* the first time.                                                           *)
OnNewTable(t) ==
    IF t = "pat" THEN If(service # NoService, <<For("first", "pmt")>>)
    ELSE IF force # NoCa THEN If(t = "pmt", CaCall("start", force))
    ELSE <<For("arrange", Ids[t][Max(table[t].got)])>> \o If(t = "pmt", <<Do("give")>>)

(* A table that is being watched is compared with what is known of it.       *)
NewTable ==
    /\ At("new") /\ tlock[Of] = Nobody
    /\ LET t == Of
           known == table[t].got = {} \/ (t = "pat" /\ service = NoService)
       IN  IF table[t].monitor
           THEN /\ Then(IF Changed(t) THEN OnNewTs \o <<For("handled", t)>>
                                      ELSE <<For("monitor", t)>>)
                /\ UNCHANGED <<ver, tlock>>
           ELSE /\ ver' = [ver EXCEPT ![t] = IF known THEN @ ELSE Max(table[t].got)]
                /\ tlock' = [tlock EXCEPT ![t] = "mon"]
                /\ Then(If(table[t].got # {}, OnNewTable(t)) \o <<For("monitor", t)>>)
    /\ UNCHANGED <<manVars, caVars, table, dmx, ciVars, envVars, mishaps>>

(* Mutant: a table that is as it was is not looked at again.                 *)
MonitorTableForgets ==
    /\ At("monitor")
    /\ tsevt' = tsevt \ {Evt("new", Of)}
    /\ tlock' = [tlock EXCEPT ![Of] = IF @ = "mon" THEN Nobody ELSE @]
    /\ Return
    /\ UNCHANGED <<quit, paused, service, disabled, force, caVars, table, ver, dmx, ciVars,
                   envVars, mishaps>>

(* The table is as it was, or has been dealt with: it is looked at again     *)
(* after an interval.                                                        *)
MonitorTable ==
    /\ At("monitor")
    /\ tsevt' = (tsevt \cup {Evt("mon", Of)}) \ {Evt("new", Of)}
    /\ tlock' = [tlock EXCEPT ![Of] = IF @ = "mon" THEN Nobody ELSE @]
    /\ Return
    /\ UNCHANGED <<quit, paused, service, disabled, force, caVars, table, ver, dmx, ciVars,
                   envVars, mishaps>>

(* After on_new_ts the event that led to it is cleared, whether it is still  *)
(* that one or not.                                                          *)
Handled ==
    /\ At("handled")
    /\ tsevt' = tsevt \ {Evt("new", Of)}
    /\ Mishap(Of # "ts" /\ tsevt' # tsevt, "lost")
    /\ Return
    /\ UNCHANGED <<quit, paused, service, disabled, force, caVars, tableVars, dmx, ciVars,
                   envVars>>
----------------------------------------------------------------------------
(* The CAs *)

(* ca_ci.c takes its lock for each call, ...                                 *)
Enter ==
    /\ At("enter") /\ clock = Nobody
    /\ clock' = Worker
    /\ Return
    /\ UNCHANGED <<manVars, caVars, tableVars, dmx, cilock, ci, cam, envVars, mishaps>>

(* ... and gives it back; some calls take the lock of the CI in between.     *)
Leave(c) == clock' = IF c = Ci THEN Nobody ELSE clock
CiFree(c) == c = Ci => cilock = Nobody

(* match_ca_auto: the CAs of the stream that do not match are dropped, those *)
(* that do are taken; then the dropped ones are to be put back.              *)
Arrange ==
    /\ At("arrange")
    /\ Then(Each(CaSeq, In("ts"), LAMBDA c : Calling(c, For("unmatch", <<c, Of>>)))
            \o Each(CaSeq, In("man") \ AutoDisabled,
                    LAMBDA c : Calling(c, For("match", <<c, Of>>)))
            \o <<Do("collect")>>)
    /\ UNCHANGED <<manVars, caVars, tableVars, dmx, ciVars, envVars, mishaps>>

(* camatch.  The CI knows the systems of its CAM when that has told them.    *)
Matches(c, id) == id \in Accepts[c] /\ (c = Ci => ci.started /\ ci.info)

Unmatch ==
    /\ At("unmatch")
    /\ LET c == Of[1] IN
       /\ CiFree(c) /\ Leave(c)
       /\ IF Matches(c, Of[2]) THEN Return /\ UNCHANGED <<listed, bound>>
          ELSE /\ listed' = [listed EXCEPT ![c] = "tmp"]
               /\ bound' = [bound EXCEPT ![c] = FALSE]
               /\ Then(CaCall("stoppmt", c))
    /\ UNCHANGED <<manVars, status, opened, given, msgs, tableVars, dmx, cilock, ci, cam,
                   envVars, mishaps>>

Match ==
    /\ At("match")
    /\ LET c == Of[1]  yes == Matches(c, Of[2]) IN
       /\ CiFree(c) /\ Leave(c)
       /\ listed' = [listed EXCEPT ![c] = IF yes THEN "ts" ELSE @]
       /\ bound' = [bound EXCEPT ![c] = @ \/ yes]
       /\ Mishap(yes, "matched")
       /\ Then(If(yes, CaCall("open", c)))
    /\ UNCHANGED <<manVars, status, opened, given, msgs, tableVars, dmx, cilock, ci, cam,
                   envVars>>

(* "collect unused ca": the loop over the list of the dropped CAs follows the*)
(* first one into the manager's list, and does not come back.                *)
Collect ==
    /\ At("collect") /\ In("tmp") = {}
    /\ Return
    /\ UNCHANGED <<manVars, caVars, tableVars, dmx, ciVars, envVars, mishaps>>

(* Mutant: the PMT is given to the CAs although the service is stopped.      *)
GiveAnyway ==
    /\ At("give")
    /\ Then(Each(CaSeq, In("ts"), LAMBDA c : CaCall("start", c)))
    /\ UNCHANGED <<manVars, caVars, tableVars, dmx, ciVars, envVars, mishaps>>

(* on_new_pmt: the CAs of the stream are given the PMT, ...                  *)
Give ==
    /\ At("give")
    /\ Then(If(~disabled, Each(CaSeq, In("ts"), LAMBDA c : CaCall("start", c))))
    /\ UNCHANGED <<manVars, caVars, tableVars, dmx, ciVars, envVars, mishaps>>

(* ... ca_ci_startpmt.  A CI without a CAM that has spoken refuses it.       *)
StartPmt ==
    /\ At("start")
    /\ LET c == Of  taken == c = Ci => ci.started /\ ci.info IN
       /\ CiFree(c) /\ Leave(c)
       /\ given' = [given EXCEPT ![c] = IF taken THEN <<service, table["pmt"].prog>> ELSE @]
       /\ ci' = [ci EXCEPT !.pmt = @ \/ (c = Ci /\ taken)]
    /\ Return
    /\ UNCHANGED <<manVars, listed, status, bound, opened, msgs, tableVars, dmx, cilock, cam,
                   envVars, mishaps>>

(* ca_ci_stoppmt.                                                            *)
StopPmt ==
    /\ At("stoppmt")
    /\ ci.pmt => CiFree(Of)
    /\ Leave(Of)
    /\ given' = [given EXCEPT ![Of] = NoPmt]
    /\ Return
    /\ UNCHANGED <<manVars, listed, status, bound, opened, msgs, tableVars, dmx, cilock, ci,
                   cam, envVars, mishaps>>

(* ca_ci_open, with AM_CI_Start: whoever is open begins anew.  A CI that     *)
(* cannot be started counts as open; one that is started again has a CAM     *)
(* thread that finds camthread_quit set.                                     *)
OpenCi ==
    /\ At("open") /\ CiFree(Of) /\ Leave(Of)
    /\ opened' = [opened EXCEPT ![Of] = TRUE]
    /\ IF Of # Ci THEN UNCHANGED <<ci, cam, mishaps>>
       ELSE \E works \in BOOLEAN :
              LET begins == works /\ ~ci.started IN
              /\ ci' = [ci EXCEPT !.send = FALSE, !.called = TRUE, !.started = @ \/ works,
                                  !.info = @ /\ ~begins]
              /\ cam' = IF begins /\ ~ci.quit THEN "poll" ELSE cam
              /\ Mishap(~ci.started /\ (~works \/ ci.quit),
                        IF works THEN "reopened" ELSE "nocam")
    /\ Return
    /\ UNCHANGED <<manVars, listed, status, bound, given, msgs, tableVars, dmx, cilock,
                   envVars>>

(* Mutant: a CA that is opened is not given the function to send with.       *)
RegisterNothing ==
    /\ At("register") /\ Leave(Of)
    /\ status' = [status EXCEPT ![Of] = TRUE] /\ bound' = [bound EXCEPT ![Of] = TRUE]
    /\ ci' = IF Of = Ci THEN [ci EXCEPT !.enabled = TRUE] ELSE ci
    /\ Return
    /\ UNCHANGED <<manVars, listed, opened, given, msgs, tableVars, dmx, cilock, cam, envVars,
                   mishaps>>

(* The rest of ca_open: ca_ci_register_msg_send, ca_ci_enable.               *)
Register ==
    /\ At("register") /\ Leave(Of)
    /\ status' = [status EXCEPT ![Of] = TRUE] /\ bound' = [bound EXCEPT ![Of] = TRUE]
    /\ ci' = IF Of = Ci THEN [ci EXCEPT !.send = TRUE, !.enabled = TRUE] ELSE ci
    /\ Return
    /\ UNCHANGED <<manVars, listed, opened, given, msgs, tableVars, dmx, cilock, cam, envVars,
                   mishaps>>

(* ca_ci_enable(0), ...                                                      *)
Disable ==
    /\ At("disable") /\ Leave(Of)
    /\ ci' = IF Of = Ci THEN [ci EXCEPT !.enabled = FALSE] ELSE ci
    /\ Return
    /\ UNCHANGED <<manVars, caVars, tableVars, dmx, cilock, cam, envVars, mishaps>>

(* ... ca_ci_close, with ca_ci->lock held: the callbacks are taken away, ... *)
Uncall ==
    /\ At("uncall") /\ cilock = Nobody
    /\ ci' = [ci EXCEPT !.called = FALSE]
    /\ Return
    /\ UNCHANGED <<manVars, caVars, tableVars, dmx, clock, cilock, cam, envVars, mishaps>>

(* ... AM_CI_Stop joins the CAM's thread with ci->lock held too; ...         *)
StopCi ==
    /\ At("stopci") /\ cilock = Nobody
    /\ IF ci.started THEN cilock' = Worker /\ ci' = [ci EXCEPT !.quit = TRUE]
                     ELSE UNCHANGED <<cilock, ci>>
    /\ Return
    /\ UNCHANGED <<manVars, caVars, tableVars, dmx, clock, cam, envVars, mishaps>>

(* ... and the rest of ca_close.  ca_force may still be this CA.             *)
CloseCa ==
    /\ At("closed") /\ (Of = Ci => cam = "none")
    /\ status' = [status EXCEPT ![Of] = FALSE] /\ bound' = [bound EXCEPT ![Of] = FALSE]
    /\ opened' = [opened EXCEPT ![Of] = FALSE] /\ given' = [given EXCEPT ![Of] = NoPmt]
    /\ IF Of = Ci THEN /\ clock' = Nobody /\ cilock' = Nobody
                       /\ ci' = [ci EXCEPT !.started = FALSE, !.info = FALSE]
                  ELSE UNCHANGED <<clock, cilock, ci>>
    /\ Mishap(force = Of, "dangling")
    /\ Return
    /\ UNCHANGED <<manVars, listed, msgs, tableVars, dmx, cam, envVars>>

(* ca_ci_msg_receive.                                                        *)
Receive ==
    /\ At("receive") /\ CiFree(Of)
    /\ Return
    /\ UNCHANGED <<manVars, caVars, tableVars, dmx, ciVars, envVars, mishaps>>

(* do_rm_ca: out of its list, no longer forced if it is bound, its messages  *)
(* freed; closed if it is open; ...                                          *)
Unlist ==
    /\ At("unlist")
    /\ listed' = [listed EXCEPT ![Of] = "none"] /\ msgs' = [msgs EXCEPT ![Of] = 0]
    /\ force' = IF bound[Of] /\ force = Of THEN NoCa ELSE force
    /\ Return
    /\ UNCHANGED <<tsevt, quit, paused, service, disabled, status, bound, opened, given,
                   tableVars, dmx, ciVars, envVars, mishaps>>

(* ... and its argument destroyed.                                           *)
Destroy ==
    /\ At("destroy")
    /\ given' = [given EXCEPT ![Of] = NoPmt] /\ bound' = [bound EXCEPT ![Of] = FALSE]
    /\ ci' = IF Of = Ci THEN [ci EXCEPT !.pmt = FALSE, !.freed = TRUE] ELSE ci
    /\ Return
    /\ UNCHANGED <<manVars, listed, status, opened, msgs, tableVars, dmx, clock, cilock, cam,
                   envVars, mishaps>>
----------------------------------------------------------------------------
(* The CAM's thread (ci_camthread, ci_ca_info_callback) *)

CamPolls ==
    /\ cam = "poll"
    /\ \/ ci.quit /\ cam' = "none" /\ UNCHANGED spent
       \/ /\ spent.msgs < MaxMsgs
          /\ spent' = [spent EXCEPT !.msgs = @ + 1]
          /\ cam' = "ci"
    /\ UNCHANGED <<workVars, manVars, caVars, tableVars, dmx, clock, cilock, ci, air, mishaps>>

CamInfo ==
    /\ cam = "ci" /\ cilock = Nobody
    /\ ci' = [ci EXCEPT !.info = TRUE]
    /\ IF ci.called THEN cilock' = "cam" /\ cam' = "ca" ELSE cam' = "poll" /\ UNCHANGED cilock
    /\ UNCHANGED <<workVars, manVars, caVars, tableVars, dmx, clock, envVars, mishaps>>

(* _ca_ci_sendmsg.                                                           *)
CamSends ==
    /\ cam = "ca" /\ clock = Nobody
    /\ IF ci.enabled /\ ci.send THEN clock' = "cam" /\ cam' = "man" /\ UNCHANGED cilock
       ELSE cilock' = Nobody /\ cam' = "poll" /\ UNCHANGED clock
    /\ UNCHANGED <<workVars, manVars, caVars, tableVars, dmx, ci, envVars, mishaps>>

(* _ca_send_msg.                                                             *)
CamAdds ==
    /\ cam = "man" /\ lock = Nobody
    /\ msgs' = [msgs EXCEPT ![Ci] = IF Registered(Ci) THEN @ + 1 ELSE @]
    /\ clock' = Nobody /\ cilock' = Nobody /\ cam' = "poll"
    /\ UNCHANGED <<workVars, manVars, listed, status, bound, opened, given, tableVars, dmx, ci,
                   envVars, mishaps>>
----------------------------------------------------------------------------
(* The application and the frontend *)

(* A call, with man->lock held.  Those that leave the manager as it is need  *)
(* no bound.                                                                 *)
AnyCall(tasks) ==
    /\ apc = "idle" /\ lock = Nobody
    /\ apc' = "run" /\ lock' = "app"
    /\ agenda' = tasks
    /\ UNCHANGED <<mpc, manVars, caVars, tableVars, dmx, ciVars, air, mishaps>>
AppCall(tasks) ==
    /\ spent.calls < MaxCalls /\ spent' = [spent EXCEPT !.calls = @ + 1]
    /\ AnyCall(tasks)

RegisterCA(c) == ~Registered(c) /\ AppCall(<<For("list", c)>>)
UnregisterCA(c) == Registered(c) /\ AppCall(Removing(c))
OpenCA(c) == Registered(c) /\ ~status[c] /\ AppCall(Opening(c))
CloseCA(c) == Registered(c) /\ status[c] /\ AppCall(Closing(c))
StopCA(c) == Registered(c) /\ AppCall(CaCall("stoppmt", c))
PutMsg(c) == Registered(c) /\ AnyCall(<<For("receive", c)>>) /\ UNCHANGED spent

(* Mutant: a list of messages that is empty is not looked at.                *)
GetMsgUnchecked(c) == AnyCall(<<For("getmsg", c)>>) /\ UNCHANGED spent

GetMsg(c) == msgs[c] > 0 /\ AnyCall(<<For("getmsg", c)>>) /\ UNCHANGED spent
Pause == ~paused /\ AppCall(<<Do("pause")>>)
Resume == paused /\ AppCall(<<Do("resume")>>)
StartService(s, c) ==
    /\ c = NoCa \/ Registered(c)
    /\ AppCall(If(force # c, CaCall("stoppmt", force)) \o <<For("service", <<s, c>>)>>)
StopService ==
    AppCall((IF force # NoCa THEN CaCall("stoppmt", force)
             ELSE Each(CaSeq, In("ts"), LAMBDA c : CaCall("stoppmt", c)))
            \o <<Do("noservice")>>)
Close == AppCall(CloseTs \o <<Do("quit")>>)

(* The ends of the calls.                                                    *)
SetService ==
    /\ At("service")
    /\ LET s == Of[1]  c == Of[2] IN
       /\ service' = s /\ force' = c /\ disabled' = FALSE
       /\ bound' = [d \in Cas |-> d = c \/ (bound[d] /\ d # force)]
       /\ Mishap(c # NoCa /\ \E d \in Cas \ {c} : given[d] # NoPmt, "mixed")
    /\ tsevt' = tsevt \cup {NewTs}
    /\ Return
    /\ UNCHANGED <<quit, paused, listed, status, opened, given, msgs, tableVars, dmx, ciVars,
                   envVars>>

NoMoreService ==
    /\ At("noservice")
    /\ service' = NoService /\ force' = NoCa /\ disabled' = TRUE
    /\ bound' = [d \in Cas |-> bound[d] /\ d # force]
    /\ Return
    /\ UNCHANGED <<tsevt, quit, paused, listed, status, opened, given, msgs, tableVars, dmx,
                   ciVars, envVars, mishaps>>

ListCa ==
    /\ At("list")
    /\ listed' = [listed EXCEPT ![Of] = "man"]
    /\ ci' = IF Of = Ci THEN [ci EXCEPT !.send = FALSE, !.enabled = FALSE, !.freed = FALSE]
             ELSE ci
    /\ Return
    /\ UNCHANGED <<manVars, status, bound, opened, given, msgs, tableVars, dmx, clock, cilock,
                   cam, envVars, mishaps>>

TakeMsg ==
    /\ At("getmsg")
    /\ msgs' = [msgs EXCEPT ![Of] = @ - 1]
    /\ Return
    /\ UNCHANGED <<manVars, listed, status, bound, opened, given, tableVars, dmx, ciVars,
                   envVars, mishaps>>

SetPause ==
    /\ At("pause") \/ At("resume")
    /\ paused' = At("pause")
    /\ Return
    /\ UNCHANGED <<tsevt, quit, service, disabled, force, caVars, tableVars, dmx, ciVars,
                   envVars, mishaps>>

(* The end of AM_CAMAN_Close: the thread is joined, ...                      *)
Quit ==
    /\ At("quit")
    /\ quit' = TRUE
    /\ lock' = Nobody /\ apc' = "join" /\ agenda' = << >>
    /\ UNCHANGED <<mpc, tsevt, paused, service, disabled, force, caVars, tableVars, dmx,
                   ciVars, envVars, mishaps>>

(* ... the CAs are removed, without the lock, and the manager is freed.      *)
Joined ==
    /\ apc = "join" /\ mpc = "gone"
    /\ agenda' = Each(CaSeq, In("man"), Removing) \o Each(CaSeq, In("ts"), Removing)
    /\ apc' = IF agenda' = << >> THEN "over" ELSE "remove"
    /\ UNCHANGED <<lock, mpc, manVars, caVars, tableVars, dmx, ciVars, envVars, mishaps>>

(* caman_fend_callback: every status of the frontend is a new stream.        *)
FendEvent ==
    /\ mpc # "gone" /\ lock = Nobody /\ spent.fend < MaxFend
    /\ tsevt' = tsevt \cup {NewTs}
    /\ spent' = [spent EXCEPT !.fend = @ + 1]
    /\ UNCHANGED <<workVars, quit, paused, service, disabled, force, caVars, tableVars, dmx,
                   ciVars, air, mishaps>>
----------------------------------------------------------------------------
Tabling == StopTable \/ Synced \/ CloseTables \/ StartTable \/ RunTable \/ TimeOut
Handling == Look \/ NewTable \/ MonitorTable \/ Handled
CallingCas == Enter \/ Arrange \/ Unmatch \/ Match \/ Collect \/ Give \/ StartPmt \/ StopPmt
              \/ OpenCi \/ Register \/ Disable \/ Uncall \/ StopCi \/ CloseCa \/ Receive
              \/ Unlist \/ Destroy
Ending == SetService \/ NoMoreService \/ ListCa \/ TakeMsg \/ SetPause \/ Quit
Work == Tabling \/ Handling \/ CallingCas \/ Ending

Section == (\E t \in Tables : Capture(t)) \/ SectionDecodes \/ SectionEnds
Cam == CamPolls \/ CamInfo \/ CamSends \/ CamAdds
Calls ==
    \/ \E c \in Cas : \/ RegisterCA(c) \/ UnregisterCA(c) \/ OpenCA(c) \/ CloseCA(c)
                      \/ StopCA(c) \/ PutMsg(c) \/ GetMsg(c)
    \/ \E s \in Services, c \in Cas \cup {NoCa} : StartService(s, c)
    \/ StopService \/ Pause \/ Resume \/ Close

Next ==
    \/ MonTop \/ MonLock \/ MonWake \/ Work
    \/ Section \/ Cam \/ Calls \/ Joined \/ FendEvent
    \/ \E t \in Tables : Change(t)

Spec == Init /\ [][Next]_vars
----------------------------------------------------------------------------
(* Properties *)

(* Nobody holds man->lock or removes the CAs.                                *)
Quiet == lock = Nobody /\ apc # "remove"

(* A CA is told to start a service with the PMT of that service, and when    *)
(* the service has been stopped no CA works on one: on_new_ts forgets what   *)
(* was received before startService, and pmt_disable keeps a late PMT from   *)
(* the CAs.                                                                  *)
PmtOfService ==
    /\ {"paused", "raced"} \cap mishaps = {} =>
          \A c \in Cas : given[c][1] = given[c][2]
    /\ disabled /\ Quiet /\ "mixed" \notin mishaps => \A c \in Cas : given[c] = NoPmt

(* While the manager's thread sleeps, each of its tables is being received,  *)
(* or has an event that will make the thread receive it: the stream is       *)
(* watched for changes as long as the manager is open.  The PMT of a service *)
(* that is in the PAT has been asked for.                                    *)
TablesWatched ==
    mpc = "wait" /\ Quiet /\ dmx.at = "idle" /\ ~quit
    /\ {"raced", "timeout", "lost", "paused"} \cap mishaps = {} =>
          \/ NewTs \in tsevt
          \/ /\ \A t \in Tables :
                   table[t].open => table[t].run \/ Events(t) \cap tsevt # {}
             /\ service # NoService /\ Evt("mon", "pat") \in tsevt => table["pmt"].open

(* What a thread uses has not been freed: the table a callback is in, the    *)
(* table whose lock the thread holds, the CA that is forced, the argument of *)
(* the CI, and the manager, when AM_CAMAN_Close has returned.  A CA that is  *)
(* removed has been closed.                                                  *)
NothingFreedIsUsed ==
    /\ dmx.at # "idle" => table[dmx.table].open
    /\ "raced" \notin mishaps => \A t \in Tables : tlock[t] = "mon" => table[t].open
    /\ "dangling" \notin mishaps => force = NoCa \/ Registered(force)
    /\ ci.freed => cam = "none"
    /\ "matched" \notin mishaps /\ Quiet => \A c \in Cas : opened[c] => Registered(c)
    /\ apc = "over" /\ "restarted" \notin mishaps =>
          dmx.at = "idle" /\ \A t \in Tables : ~table[t].run

(* The messages of a CAM that is open come to the manager: the thread that   *)
(* polls it is there, and ca_ci.c has a function to send them with.          *)
OpenCaIsHeard ==
    status[Ci] /\ Quiet /\ {"matched", "reopened", "nocam"} \cap mishaps = {} =>
        cam # "none" /\ ci.called /\ ci.send /\ ci.enabled

(* Only the CAM's thread and match_ca_auto's loop can keep a thread that     *)
(* holds man->lock from going on: of those above, the demux does not need    *)
(* man->lock, and the thread does not wait for a callback that waits for a   *)
(* table it holds itself.                                                    *)
OnlyTheCamBlocks ==
    \/ lock = Nobody \/ clock = "cam" \/ cilock = "cam"
    \/ At("closed") \/ At("collect")
    \/ ENABLED (Work \/ Section)
----------------------------------------------------------------------------
(* The inductive invariants behind PmtOfService, TablesWatched,              *)
(* NothingFreedIsUsed and OpenCaIsHeard.                                     *)

Pending == Range(agenda)
Waits(op, x) == For(op, x) \in Pending
Happened(S) == S \cap mishaps # {}

(* Whose agenda it is, and what its owner may have to do.                    *)
RemoveOps == {"unlist", "enter", "disable", "uncall", "stopci", "closed", "destroy"}
AppOps == RemoveOps \cup {"list", "open", "register", "stoppmt", "receive", "getmsg", "pause",
                          "resume", "service", "noservice", "stop", "sync", "closets", "quit"}
RunOps == {"stop", "sync", "closets", "first", "runfirst", "handled", "from", "new", "again",
           "runagain", "monitor", "arrange", "enter", "unmatch", "match", "collect", "give",
           "start", "stoppmt", "open"}

Allowed(op) ==
    /\ mpc = "run" => op \in RunOps
    /\ mpc = "late" => op \in {"timeout", "sync"}
    /\ apc = "run" => op \in AppOps
    /\ apc = "remove" => op \in RemoveOps

Owned ==
    /\ agenda = << >> <=> lock = Nobody /\ apc # "remove"
    /\ lock = "mon" <=> mpc \in {"run", "late"}
    /\ lock = "app" <=> apc = "run"
    /\ apc \in {"join", "remove", "over"} => quit
    /\ apc \in {"remove", "over"} => mpc = "gone"
    /\ \A x \in Pending : Allowed(x[1])

(* What may come behind a task.                                              *)
Behind(op) ==
    CASE op = "stop" -> {"stop", "closets", "first", "handled", "from", "quit"}
      [] op = "closets" -> {"first", "handled", "from", "quit"}
      [] op \in {"first", "runfirst"} -> {"first", "handled", "monitor", "from"}
      [] op \in {"new", "handled", "monitor"} -> {"from"}
      [] op \in {"again", "runagain"} -> {"again"}
      [] op = "timeout" -> {"timeout"}
      [] op \in {"arrange", "collect"} -> {"give", "monitor", "from"}
      [] op = "give" -> {"monitor", "from"}
      [] op \in {"unmatch", "match"} -> {"enter", "unmatch", "match", "collect", "give", "monitor",
                                        "from"}
      [] op = "start" -> {"enter", "start", "monitor", "from"}
      [] op = "stoppmt" -> {"enter", "unmatch", "match", "collect", "give", "monitor", "from",
                            "stoppmt", "service", "noservice"}
      [] op = "open" -> {"enter", "unmatch", "match", "collect", "give", "monitor", "from",
                         "register"}
      [] op \in RemoveOps \ {"enter"} -> RemoveOps
      [] op = "enter" -> (RunOps \cup AppOps) \ {"sync", "closets", "stop"}
      [] op = "sync" -> (RunOps \cup AppOps \cup {"timeout"}) \ {"sync"}
      [] OTHER -> {}

Before(x, y) ==
    /\ y[1] \in Behind(x[1])
    /\ x[1] \in {"first", "runfirst"} =>
          /\ y[1] = "first" => x[2] = "pat" /\ y[2] = "cat"
          /\ y[1] = "handled" => x[2] # "pmt"
    /\ x[1] = "closed" /\ y[2] = x[2] => y[1] = "destroy"
    /\ x[1] = "destroy" => y[2] # x[2]

Ordered == \A i, j \in 1 .. Len(agenda) : i < j => Before(agenda[i], agenda[j])

AgendaInv == TypeOK /\ Owned /\ Ordered

(* A table that is closed is empty; one that a callback is in, or that the   *)
(* thread works with, is open.                                               *)
Stopped(t) ==
    ~table[t].run /\ (dmx.at = "idle" \/ dmx.table # t \/ Do("sync") \in Pending)

Tabled ==
    /\ \A t \in Tables : ~table[t].open => table[t] = Closed
    /\ dmx.at # "idle" => table[dmx.table].open
    /\ \A t \in Tables : Waits("stop", t) => Do("closets") \in Pending
    /\ Do("closets") \in Pending => \A t \in Tables : Waits("stop", t) \/ Stopped(t)
    /\ table["pmt"].open => table["pmt"].prog \in Services
    /\ Waits("first", "pmt") \/ Waits("runfirst", "pmt") => service \in Services
    /\ (\E c \in Cas : Waits("start", c)) \/ Do("give") \in Pending => table["pmt"].open

InUse ==
    /\ \A t \in Tables : tlock[t] = "mon" => Waits("monitor", t)
    /\ ~Happened({"raced"}) => \A t \in Tables :
          Evt("new", t) \in tsevt \/ Waits("new", t) \/ Waits("monitor", t) => table[t].open

(* AM_CAMAN_Close has closed the tables and nothing opens them again.        *)
ClosedDown ==
    (quit \/ (Do("quit") \in Pending /\ Do("closets") \notin Pending))
    /\ ~Happened({"restarted"}) =>
        /\ \A t \in Tables : table[t] = Closed
        /\ dmx.at = "idle" /\ tsevt \subseteq {NewTs}
        /\ \A x \in Pending :
              /\ x[1] \notin {"new", "monitor", "again", "runagain", "runfirst"}
              /\ x[1] = "first" => Do("closets") \in Pending

TableInv == Tabled /\ InUse /\ ClosedDown

(* The service of the PMT.                                                   *)
Served ==
    /\ disabled => force = NoCa /\ \A c \in Cas : ~Waits("start", c)
    /\ ~Happened({"paused", "raced"}) =>
          /\ table["pmt"].open => \/ table["pmt"].prog = service
                                  \/ disabled \/ NewTs \in tsevt
          /\ mpc = "run" /\ ~Waits("handled", "ts") => NewTs \notin tsevt
          /\ Waits("handled", "ts") => Do("closets") \in Pending \/ ~table["pmt"].open
          /\ Do("give") \in Pending => table["pmt"].prog = service \/ disabled
          /\ (\E c \in Cas : Waits("start", c)) => table["pmt"].prog = service
          /\ \A c \in Cas : given[c][1] = given[c][2]

(* The watch.                                                                *)
PatSeen ==
    \/ table["pat"].monitor
    \/ {Evt("mon", "pat"), Evt("start", "pat")} \cap tsevt # {}
    \/ {For("again", "pat"), For("runagain", "pat")} \cap Pending # {}
    \/ Waits("monitor", "pat") /\ {For("first", "pmt"), For("runfirst", "pmt")} \cap Pending = {}

Watched ==
    ~Happened({"raced", "timeout", "lost", "paused"}) =>
        /\ \A t \in Tables : table[t].open =>
              \/ table[t].run \/ Events(t) \cap tsevt # {}
              \/ dmx.at # "idle" /\ dmx.table = t
              \/ {Do("closets"), For("runfirst", t), For("runagain", t)} \cap Pending # {}
        /\ PatSeen => \/ service = NoService \/ table["pmt"].open \/ NewTs \in tsevt
                       \/ Do("closets") \in Pending
        /\ Waits("handled", "ts") => Do("closets") \in Pending \/ ~PatSeen
        /\ \A t \in {"pat", "cat"} : Waits("first", t) \/ Waits("runfirst", t) =>
              ~table[t].open \/ Do("closets") \in Pending
        /\ \/ Evt("new", "pat") \in tsevt \/ Waits("new", "pat")
           \/ dmx.at = "end" /\ dmx.table = "pat"
           => table["pat"].monitor \/ table["pat"].got # {}

(* The CAs that are removed are closed and out of their list before they are  *)
(* destroyed; those that are called are registered.                          *)
Removed ==
    \A c \in Cas :
        /\ Waits("unlist", c) => Waits("destroy", c)
        /\ Waits("disable", c) \/ Waits("uncall", c) \/ Waits("stopci", c) => Waits("closed", c)
        /\ Waits("uncall", c) \/ Waits("stopci", c) => c = Ci
        /\ Waits("destroy", c) => /\ status[c] => Waits("closed", c)
                                  /\ listed[c] # "none" => Waits("unlist", c)

Listed ==
    /\ \A c \in Cas :
          /\ \/ Waits("open", c) \/ Waits("register", c) \/ Waits("start", c)
             \/ \E x \in Systems : Waits("match", <<c, x>>) \/ Waits("unmatch", <<c, x>>)
             => Registered(c)
          /\ Waits("list", c) => ~Registered(c)
          /\ status[c] => Registered(c) \/ Waits("closed", c)
          /\ given[c] # NoPmt => Registered(c) \/ Waits("destroy", c)
          /\ ~Happened({"matched"}) /\ opened[c] =>
                /\ status[c] \/ Waits("register", c)
                /\ Registered(c) \/ Waits("closed", c)
          /\ ~Happened({"matched"}) /\ Waits("open", c) => Waits("register", c) /\ ~status[c]
    /\ \A x \in Pending :
          /\ x[1] = "service" => x[2][2] = NoCa \/ Registered(x[2][2])
          /\ x[1] \in {"arrange", "unmatch", "match", "collect"} => force = NoCa
    /\ ~Happened({"dangling"}) /\ force # NoCa => bound[force] /\ Registered(force)

(* The CI and the thread that polls its CAM.                                 *)
Polled ==
    /\ cam # "none" => ci.started
    /\ ci.started /\ ~ci.quit => cam # "none"
    /\ ci.started => status[Ci] \/ Waits("register", Ci)
    /\ Waits("open", Ci) => Waits("register", Ci) \/ status[Ci]
    /\ ci.freed => listed[Ci] = "none" /\ ~ci.started
    /\ ~Happened({"reopened"}) /\ ci.started /\ ci.quit => Waits("closed", Ci)
    /\ ~Happened({"matched", "reopened", "nocam"}) =>
          /\ status[Ci] => \/ Waits("closed", Ci)
                           \/ ci.started /\ ~ci.quit /\ ci.called /\ ci.send /\ ci.enabled
          /\ Waits("register", Ci) /\ ~Waits("open", Ci) => ci.started /\ ~ci.quit /\ ci.called

(* Who works on a service.                                                   *)
Working(c) == IF force # NoCa THEN c = force ELSE listed[c] = "ts"

Told ==
    /\ \A c \in Cas : Waits("start", c) => Working(c)
    /\ Do("give") \in Pending => force = NoCa
    /\ ~Happened({"mixed"}) =>
          /\ \A c \in Cas : given[c] # NoPmt =>
                Working(c) \/ Waits("stoppmt", c) \/ Waits("destroy", c)
          /\ Do("noservice") \in Pending =>
                \A c \in Cas : given[c] = NoPmt \/ Waits("stoppmt", c)
          /\ disabled => \A c \in Cas : given[c] = NoPmt
          /\ \A x \in Pending : x[1] = "service" /\ force \notin {NoCa, x[2][2]} =>
                given[force] = NoPmt \/ Waits("stoppmt", force)

(* The messages the CAM has still to send are among those it may send.       *)
Counted ==
    /\ \A c \in Cas : msgs[c] <= spent.msgs
    /\ cam \in {"ci", "ca", "man"} => msgs[Ci] < spent.msgs
    /\ \A c \in Cas : Waits("getmsg", c) => msgs[c] > 0

(* All of it: what AmCamanProofs shows to be inductive.                      *)
CamanInv ==
    /\ AgendaInv /\ TableInv /\ Served /\ Watched
    /\ Removed /\ Listed /\ Polled /\ Told /\ Counted
============================================================================
