------------------------------ MODULE AmTfile ------------------------------
(***************************************************************************)
(* The time-shift file (am_adp/am_tfile/am_tfile.c) in loop mode: a ring   *)
(* of `size' units kept in subfiles of at most SubSize units, one writer   *)
(* (the recorder) and one reader (the player), which also seeks.           *)
(*                                                                         *)
(* Two descriptions of where the reader and the writer are live side by    *)
(* side in the code: the logical offsets start, read, write with the       *)
(* lengths avail, total (struct AM_TFileData_s), and the position of the   *)
(* file descriptors of the current subfiles.  Both are kept here.          *)
(*                                                                         *)
(* Every section under tfile->lock is one action.  AM_TFile_Write moves    *)
(* the data without the lock, in up to two parts, and publishes it         *)
(* afterwards: the reader may run between.  A unit of data is the number   *)
(* it has in the stream, so that `disk' says what a read really delivers.  *)
(***************************************************************************)
EXTENDS Integers, Sequences

CONSTANTS
    Size,       \* the size AM_TFile_Open is given
    SubSize,    \* sub_file_size
    Chunks,     \* sizes AM_TFile_Write and AM_TFile_Read are called with
    Offsets,    \* offsets AM_TFile_Seek is called with
    Products,   \* what rate * duration may come to (size limits found later)
    Timers,     \* when AM_TFile_TimeStart is called: "never", "open", "late"
    Faults,     \* a write to the disk may stop short
    MaxWritten  \* bound: units written in a behaviour

ASSUME SizeAssumption == Size \in Nat \ {0} /\ SubSize \in Nat \ {0}
ASSUME ChunksAssumption == Chunks \subseteq Nat \ {0}
ASSUME OffsetsAssumption == Offsets \subseteq Int
ASSUME ProductsAssumption == Products \subseteq Nat
ASSUME TimersAssumption == Timers \subseteq {"never", "open", "late"}
ASSUME FaultsAssumption == Faults \in BOOLEAN
ASSUME MaxWrittenAssumption == MaxWritten \in Nat

VARIABLES
    size, avail, total, start, read, write, \* struct AM_TFileData_s
    rateKnown,  \* tfile->rate is set
    disk,       \* what each subfile holds
    rfd, wfd,   \* current subfile and position of the reader and the writer
    timer,      \* "never", "late": still to be started, "on"
    frags,      \* the fragments of the timer, the last one still growing
    wpc, req,   \* where the writer is and what it writes
    rpc, want,  \* where the reader is and how much it asked for
    signalled,  \* its condition variable has been signalled
    stream,     \* history: units of the stream whose write is finished
    due,        \* history: the units before the one `avail' promised last time
    got,        \* history: what the last read delivered
    mishaps     \* history: known mishaps (see Mishaps) that have happened

ringVars == <<size, avail, total, start, read, write>>
writerVars == <<rateKnown, wfd, wpc, req, stream>>
readerVars == <<rfd, rpc, want, due, got>>
timerVars == <<timer, frags>>
vars == <<ringVars, writerVars, readerVars, timerVars, disk, signalled, mishaps>>

NoReq == [len1 |-> 0, len2 |-> 0, done |-> 0, wrap |-> FALSE, failed |-> FALSE]

(* What the code lets happen and does not repair.  A property says which of  *)
(* them it survives.                                                         *)
(*   overrun   data is written that does not fit into what the reader has    *)
(*             read, or the ring moves `read' past unread data               *)
(*   drift     a subfile took more than SubSize units                        *)
(*   ragged    without a timer, a write filled the ring past its size        *)
(*   early     a seek beyond the end of an empty file                        *)
(*   ahead     a time seek to a fragment whose data is not yet published     *)
(*   full      a time seek to the oldest unit of a full ring                 *)
(*   late      the timer was started when data had been written              *)
(*   refused   a fragment begins where the last one does: the ring holds less *)
(*             than the second a fragment lasts                              *)
(*   coarse    the last fragment and a write are together more than the ring *)
(*   nowhere   a seek into a subfile the writer has not created yet          *)
Mishaps == {"overrun", "drift", "ragged", "early", "ahead", "full", "late",
            "refused", "coarse", "nowhere"}
Mishap(cond, m) == IF cond THEN {m} ELSE {}

Fragment(start0, after) == [start |-> start0, end |-> 0, after |-> after]

Minimum(a, b) == IF a < b THEN a ELSE b

TypeOK ==
    /\ {size, avail, total, start, read, write} \subseteq Int
    /\ rateKnown \in BOOLEAN
    /\ \A i \in DOMAIN disk : \A j \in DOMAIN disk[i] : disk[i][j] \in Nat
    /\ rfd.sub \in DOMAIN disk /\ rfd.pos \in Nat
    /\ wfd.sub \in DOMAIN disk /\ wfd.pos \in 0 .. Len(disk[wfd.sub])
    /\ timer \in {"never", "late", "on"}
    /\ (timer = "on") <=> (frags # <<>>)
    /\ wpc \in {"idle", "first", "second", "adjust", "rate", "hung"}
    /\ rpc \in {"idle", "wait"}
    /\ signalled \in BOOLEAN
    /\ mishaps \subseteq Mishaps

(* AM_TFile_Open in loop mode, with AM_TFile_TimeStart when it follows at    *)
(* once: one empty subfile, one fragment at the write offset.                *)
Init ==
    /\ size = Size /\ avail = 0 /\ total = 0
    /\ start = 0 /\ read = 0 /\ write = 0
    /\ rateKnown = FALSE
    /\ disk = << <<>> >>
    /\ rfd = [sub |-> 1, pos |-> 0] /\ wfd = [sub |-> 1, pos |-> 0]
    /\ \E t \in Timers :
          /\ timer = (IF t = "open" THEN "on" ELSE t)
          /\ frags = IF t = "open" THEN <<Fragment(0, 0)>> ELSE <<>>
    /\ wpc = "idle" /\ req = NoReq
    /\ rpc = "idle" /\ want = 0 /\ signalled = FALSE
    /\ stream = 0 /\ due = 0 /\ got = <<>>
    /\ mishaps = {}

----------------------------------------------------------------------------
(* Subfiles.                                                                 *)

(* Mutants: the subfile is counted from one in the offset too; the descriptor *)
(* stays where it is at the beginning of the ring.                           *)
SubSeekOffByOne(fd, offset) ==
    LET sub == (offset \div SubSize) + 1
    IN  IF sub \in DOMAIN disk THEN [sub |-> sub, pos |-> offset - sub * SubSize] ELSE fd
SubSeekNoRewind(fd, offset) ==
    LET sub == (offset \div SubSize) + 1
    IN  IF sub \in DOMAIN disk /\ offset > 0
        THEN [sub |-> sub, pos |-> offset % SubSize] ELSE fd

(* aml_timeshift_subfile_seek: the offset taken as if every subfile before   *)
(* it held SubSize units; nothing moves when there is no such subfile, and   *)
(* lseek refuses a negative position.                                        *)
SubSeek(fd, offset) ==
    LET sub == (offset \div SubSize) + 1
    IN  IF offset < 0 THEN [fd EXCEPT !.sub = 1]
        ELSE IF sub \in DOMAIN disk
        THEN [sub |-> sub, pos |-> offset % SubSize]
        ELSE fd

Nowhere == [sub |-> 0, pos |-> 0]

(* Where aml_timeshift_subfile_write writes: in the next subfile once the    *)
(* current one holds SubSize units, all in one subfile otherwise.            *)
WriteAt(fd) == IF fd.pos >= SubSize THEN [sub |-> fd.sub + 1, pos |-> 0] ELSE fd

Overlay(old, pos, data) ==
    SubSeq(old, 1, pos) \o data \o SubSeq(old, pos + Len(data) + 1, Len(old))

SubWrite(at, data) ==
    IF at.sub \in DOMAIN disk
    THEN [disk EXCEPT ![at.sub] = Overlay(@, at.pos, data)]
    ELSE Append(disk, data)

(* aml_timeshift_subfile_read: at the end of a subfile it goes on with the   *)
(* next, and it never reads from two of them in one call.                    *)
ReadAt(fd) ==
    IF fd.pos >= Len(disk[fd.sub]) /\ fd.sub + 1 \in DOMAIN disk
    THEN [sub |-> fd.sub + 1, pos |-> 0] ELSE fd

SubRead(fd, n) ==
    LET at == ReadAt(fd)
    IN  SubSeq(disk[at.sub], at.pos + 1, Minimum(at.pos + n, Len(disk[at.sub])))

After(at, data) == [at EXCEPT !.pos = @ + Len(data)]

----------------------------------------------------------------------------
(* The timer: a list of fragments, about one second of data each.  `after'   *)
(* is history: the units of the stream that precede the fragment.            *)

(* timer_try_add_fragment.  A fragment that would start where the last one   *)
(* does is refused ("should not get here").                                  *)
Refused(offset) == frags # <<>> /\ frags[Len(frags)].start = offset

(* Mutant: the last fragment is not closed.                                  *)
AddFragmentOpen(preEnd, offset, after) ==
    IF frags = <<>> \/ Refused(offset) THEN frags
    ELSE Append(frags, Fragment(offset, after))

AddFragment(preEnd, offset, after) ==
    LET n == Len(frags)
    IN  IF n = 0 \/ Refused(offset) THEN frags
        ELSE Append([frags EXCEPT ![n].end = preEnd], Fragment(offset, after))

FragmentSize(f) == IF f.end >= f.start THEN f.end - f.start ELSE size - f.start

(* What 0, 1, 2, ... calls of timer_remove_earliest_fragment remove, and how *)
(* many calls the loop of AM_TFile_Write makes: until they come to the size  *)
(* that was written.  No number of calls is enough when the list runs out.   *)
Removed[k \in 0 .. Len(frags)] ==
    IF k = 0 THEN 0 ELSE Removed[k - 1] + FragmentSize(frags[k])

Removals(n) == {k \in 1 .. Len(frags) - 1 :
                  Removed[k] >= n /\ \A j \in 1 .. k - 1 : Removed[j] < n}

----------------------------------------------------------------------------
(* AM_TFile_Write.                                                           *)

Units(from, n) == [i \in 1 .. n |-> from + i]

(* How much of n units reaches the disk.                                     *)
Reaches(n) == IF Faults THEN 0 .. n ELSE {n}

(* The size and the write offset are read under the lock; what is beyond the *)
(* ring is dropped, and what is beyond its end goes to its beginning.        *)
WriteBegin ==
    /\ wpc = "idle" /\ size > 0
    /\ \E n \in Chunks :
          LET len  == Minimum(n, size)
              wrap == write + len >= size
              len1 == IF wrap THEN size - write ELSE len
          IN  /\ stream + len <= MaxWritten
              /\ req' = [len1 |-> len1, len2 |-> len - len1, done |-> 0,
                         wrap |-> wrap, failed |-> FALSE]
              /\ wpc' = IF len1 > 0 THEN "first" ELSE "second"
              /\ mishaps' = mishaps \cup Mishap(len > size - avail, "overrun")
    /\ UNCHANGED <<ringVars, rateKnown, wfd, stream, readerVars, timerVars, disk, signalled>>

(* The part up to the end of the ring, written without the lock; at the end  *)
(* of the ring a fragment is forced, otherwise one is added every second.    *)
WriteFirst ==
    /\ wpc = "first"
    /\ \E k \in Reaches(req.len1), second \in BOOLEAN :
          LET at     == WriteAt(wfd)
              data   == Units(stream, k)
              failed == k # req.len1
              forced == req.wrap \/ (failed /\ k > 0)
              offset == IF req.wrap /\ ~failed THEN 0 ELSE write + k
          IN  /\ disk' = SubWrite(at, data)
              /\ wfd' = After(at, data)
              /\ frags' = IF forced \/ second
                          THEN AddFragment(write + k, offset, stream + k) ELSE frags
              /\ req' = [req EXCEPT !.done = k, !.failed = failed]
              /\ wpc' = IF failed \/ req.len2 = 0 THEN "adjust" ELSE "second"
              /\ mishaps' = mishaps
                    \cup Mishap(After(at, data).pos > SubSize, "drift")
                    \cup Mishap((forced \/ second) /\ Refused(offset), "refused")
    /\ UNCHANGED <<ringVars, rateKnown, stream, readerVars, timer, signalled>>

(* The rest, at the beginning of the ring.                                   *)
WriteSecond ==
    /\ wpc = "second"
    /\ \E k \in Reaches(req.len2) :
          LET at   == WriteAt(SubSeek(wfd, 0))
              data == Units(stream + req.done, k)
          IN  /\ disk' = SubWrite(at, data)
              /\ wfd' = After(at, data)
              /\ frags' = AddFragment(k, k, stream + req.done + k)
              /\ req' = [req EXCEPT !.done = @ + k, !.failed = k # req.len2]
              /\ mishaps' = mishaps
                    \cup Mishap(After(at, data).pos > SubSize, "drift")
                    \cup Mishap(Refused(k), "refused")
    /\ wpc' = "adjust"
    /\ UNCHANGED <<ringVars, rateKnown, stream, readerVars, timer, signalled>>

(* Mutant: the reader is woken only if it had data already.                  *)
WakesLate(unread) == rpc = "wait" /\ unread \in 1 .. size - 1

Wakes(unread) == rpc = "wait" /\ unread < size

WriteNothing ==
    /\ wpc = "adjust" /\ req.done = 0
    /\ wpc' = "rate"
    /\ UNCHANGED <<ringVars, rateKnown, wfd, req, stream, readerVars, timerVars, disk,
                   signalled, mishaps>>

(* The data is published, under the lock.  When it does not fit, the oldest  *)
(* data goes: with a timer whole fragments, without one as much as was       *)
(* written.  The reader is moved to the new start when its data has gone;    *)
(* its file descriptor is not.                                               *)
WriteAdjust ==
    /\ wpc = "adjust" /\ req.done > 0
    /\ LET n     == req.done
           rleft == size - avail
           sleft == size - total
           moved == n > sleft
           w     == (write + n) % size
       IN  /\ \E k \in IF moved /\ timer = "on" THEN Removals(n) ELSE {0} :
                LET s  == IF ~moved THEN start ELSE IF k > 0 THEN frags[k + 1].start ELSE w
                    t0 == IF ~moved THEN total ELSE total - (IF k > 0 THEN Removed[k] ELSE n)
                    t  == IF t0 < size THEN Minimum(t0 + n, size) ELSE t0
                    a0 == IF n > rleft THEN avail - (n - rleft) ELSE avail
                    a  == IF a0 < size THEN Minimum(a0 + n, size) ELSE a0
                    reset == n > rleft \/ a > t
                IN  /\ start' = s /\ total' = t /\ write' = w
                    /\ read' = IF reset THEN s ELSE read
                    /\ avail' = Minimum(a, t)
                    /\ frags' = SubSeq(frags, k + 1, Len(frags))
                    /\ signalled' = (signalled \/ Wakes(a0))
                    /\ mishaps' = mishaps \cup Mishap(reset, "overrun")
                                    \cup Mishap(moved /\ k = 0 /\ sleft > 0, "ragged")
           /\ wfd' = IF w = 0 THEN SubSeek(wfd, 0) ELSE wfd
           /\ stream' = stream + n
    /\ wpc' = "rate"
    /\ UNCHANGED <<size, rateKnown, req, readerVars, timer, disk>>

(* The loop that removes fragments goes past the last one.                   *)
WriteHangs ==
    /\ wpc = "adjust" /\ req.done > size - total /\ timer = "on"
    /\ Removals(req.done) = {}
    /\ wpc' = "hung"
    /\ LET grown == stream + req.done - frags[Len(frags)].after
       IN  mishaps' = mishaps \cup Mishap(grown + req.done > size, "coarse")
    /\ UNCHANGED <<ringVars, rateKnown, wfd, req, stream, readerVars, timerVars, disk,
                   signalled>>

(* After three seconds the rate is known, and the ring is cut to what holds  *)
(* `duration' seconds, without the lock.  A duration of more than those      *)
(* seconds leaves room for all that was written in them; a duration of 0     *)
(* ("recording will be stopped manually", am_rec.h:121) leaves none.         *)
WriteDone ==
    /\ wpc = "rate"
    /\ \/ UNCHANGED <<size, rateKnown>>
       \/ /\ ~rateKnown /\ req.len1 > 0 /\ req.done > 0
          /\ \E product \in Products :
                /\ product = 0 \/ product > stream
                /\ size' = Minimum(product, size)
          /\ rateKnown' = TRUE
    /\ wpc' = "idle" /\ req' = NoReq
    /\ UNCHANGED <<avail, total, start, read, write, wfd, stream, readerVars, timerVars,
                   disk, signalled, mishaps>>

----------------------------------------------------------------------------
(* AM_TFile_Read.                                                            *)

Locking == wpc # "hung" /\ size > 0

(* The data section of AM_TFile_Read: up to the end of the ring first, then  *)
(* from its beginning; a short read of the first part ends it.               *)
Deliver(n) ==
    LET todo  == Minimum(n, avail)
        split == IF read + todo > size THEN size - read ELSE 0
        head  == SubRead(rfd, split)
        short == Len(head) # split
        fd1   == IF split > 0 THEN After(ReadAt(rfd), head) ELSE rfd
        fd2   == IF split > 0 THEN SubSeek(fd1, 0) ELSE rfd
        tail  == SubRead(fd2, todo - split)
        fd3   == After(ReadAt(fd2), tail)
        from  == IF split > 0 THEN 0 ELSE read
        r     == IF short THEN read + Len(head)
                 ELSE IF tail # <<>> THEN (from + Len(tail)) % size ELSE from
    IN  /\ read' = r
        /\ got' = IF short THEN head ELSE head \o tail
        /\ rfd' = IF short THEN fd1 ELSE IF r = 0 THEN SubSeek(fd3, 0) ELSE fd3
        /\ avail' = IF short \/ tail # <<>> THEN avail - Len(got') ELSE avail
        /\ due' = stream - avail

Read ==
    /\ rpc = "idle" /\ Locking /\ avail > 0
    /\ \E n \in Chunks : Deliver(n)
    /\ UNCHANGED <<size, total, start, write, writerVars, rpc, want, timerVars, disk,
                   signalled, mishaps>>

ReadWait ==
    /\ rpc = "idle" /\ Locking /\ avail <= 0
    /\ want' \in Chunks
    /\ rpc' = "wait" /\ signalled' = FALSE
    /\ UNCHANGED <<ringVars, writerVars, rfd, due, got, timerVars, disk, mishaps>>

(* The wait ends by the signal or by its timeout; it is not repeated.        *)
ReadWoken ==
    /\ rpc = "wait" /\ Locking
    /\ IF avail > 0 THEN Deliver(want)
                    ELSE avail' = 0 /\ UNCHANGED <<read, rfd, due, got>>
    /\ rpc' = "idle" /\ want' = 0 /\ signalled' = FALSE
    /\ UNCHANGED <<size, total, start, write, writerVars, timerVars, disk, mishaps>>

----------------------------------------------------------------------------
(* The reader's thread also seeks.                                           *)

(* A write that is in progress and does not fit beside the unread data.      *)
Crowded(unread) ==
    wpc \in {"first", "second", "adjust"} /\ req.len1 + req.len2 > size - unread

Moved(to, unread) ==
    (mishaps \ {"overrun"}) \cup Mishap(Crowded(unread), "overrun")
                            \cup Mishap(SubSeek(Nowhere, to) = Nowhere, "nowhere")

(* AM_TFile_Seek; the remainder of a negative offset is negative in C.       *)
Seek ==
    /\ rpc = "idle" /\ Locking
    /\ \E offset \in Offsets :
          LET off == IF offset > total THEN total - 1 ELSE IF offset < 0 THEN 0 ELSE offset
              to  == start + off
          IN  /\ read' = IF to < 0 THEN to ELSE to % size
              /\ avail' = total - off
              /\ mishaps' = Moved(read', avail') \cup Mishap(off < 0, "early")
    /\ rfd' = SubSeek(rfd, read')
    /\ due' = stream - avail' /\ got' = <<>>
    /\ UNCHANGED <<size, total, start, write, writerVars, rpc, want, timerVars, disk, signalled>>

(* AM_TFile_TimeSeek, to the fragment the time falls into.                   *)
TimeSeek ==
    /\ rpc = "idle" /\ Locking /\ timer = "on"
    /\ \E k \in DOMAIN frags :
          LET from == frags[k].start
          IN  /\ read' = from
              /\ avail' = IF write >= from THEN write - from ELSE size - from + write
              /\ mishaps' = Moved(read', avail')
                    \cup Mishap(frags[k].after > stream, "ahead")
                    \cup Mishap(from = write /\ frags[k].after < stream, "full")
    /\ rfd' = SubSeek(rfd, read')
    /\ due' = stream - avail' /\ got' = <<>>
    /\ UNCHANGED <<size, total, start, write, writerVars, rpc, want, timerVars, disk, signalled>>

(* AM_TFile_TimeStart by an application that did not do it at once.          *)
TimeStart ==
    /\ timer = "late" /\ Locking
    /\ timer' = "on" /\ frags' = <<Fragment(write, stream)>>
    /\ mishaps' = mishaps \cup Mishap(total > 0 \/ wpc \in {"second", "adjust"}, "late")
    /\ UNCHANGED <<ringVars, writerVars, readerVars, disk, signalled>>

----------------------------------------------------------------------------
Write == \/ WriteBegin \/ WriteFirst \/ WriteSecond
         \/ WriteNothing \/ WriteAdjust \/ WriteHangs \/ WriteDone
Reader == Read \/ ReadWait \/ ReadWoken \/ Seek \/ TimeSeek

Next == Write \/ Reader \/ TimeStart
Spec == Init /\ [][Next]_vars

----------------------------------------------------------------------------
(* The lengths and offsets of the ring agree: what is unread is part of what *)
(* is kept, and what is kept ends at the write offset.  And when it makes    *)
(* room, timer_remove_earliest_fragment always finds the "next fragment"     *)
(* whose start becomes the start of the ring, provided that the timer was    *)
(* started with the file.                                                    *)
RingConsistent ==
    /\ mishaps \cap {"early", "ahead"} = {} /\ size > 0 =>
          /\ 0 <= avail /\ avail <= total /\ total <= size
          /\ {start, read, write} \subseteq 0 .. size
    /\ mishaps \cap {"ragged", "late", "refused"} = {} /\ size > 0 =>
          (start + total) % size = write % size
    /\ mishaps \cap {"late", "refused", "coarse"} = {} => wpc # "hung"

(* As long as none of the mishaps has happened, a read delivers the stream   *)
(* from where the last read ended or the last seek pointed, in order: the    *)
(* file descriptor follows the offsets through every wrap, every change of   *)
(* subfile and every write in progress.                                      *)
InOrder ==
    mishaps = {} =>
        /\ got = Units(due, Len(got))
        /\ stream - avail <= due + Len(got)

(* A reader does not sleep on data.                                          *)
NoLostWakeup == rpc = "wait" /\ avail > 0 => signalled
----------------------------------------------------------------------------
(* What makes the invariants inductive.                                      *)

Without(ms) == mishaps \cap ms = {}

FragmentSet == [start : Int, end : Int, after : Int]
RequestSet == [len1 : Nat, len2 : Nat, done : Nat, wrap : BOOLEAN, failed : BOOLEAN]

Types ==
    /\ TypeOK
    /\ size \in Nat /\ stream \in Nat /\ want \in Nat /\ due \in Int
    /\ disk \in Seq(Seq(Nat)) /\ got \in Seq(Nat)
    /\ rfd \in [sub : Nat, pos : Nat] /\ wfd \in [sub : Nat, pos : Nat]
    /\ frags \in Seq(FragmentSet) /\ req \in RequestSet

(* The parts of a write end where the ring ends, and begin where it begins.  *)
Requested ==
    /\ wpc # "idle" => size > 0
    /\ wpc \in {"first", "second", "adjust", "hung"} =>
          /\ req.len1 > 0 /\ req.len1 + req.len2 <= size
          /\ write + req.len1 <= size
          /\ req.wrap <=> write + req.len1 = size
          /\ req.len2 > 0 => req.wrap
          /\ req.done <= req.len1 + req.len2
    /\ wpc = "first" => req.done = 0
    /\ wpc = "second" => req.done = req.len1 /\ req.len2 > 0

(* The offsets are places in the stream, modulo the size of the ring; before *)
(* the first wrap they are the same, which is what makes cutting it possible. *)
Placed ==
    size > 0 =>
        /\ total \in 0 .. size /\ write = stream % size /\ start \in 0 .. size - 1
        /\ stream < size => start = 0 /\ total = stream
        /\ Without({"early", "ahead"}) =>
              /\ 0 <= avail /\ avail <= total /\ read \in 0 .. size
              /\ stream < size => read + avail <= stream
        /\ Without({"ragged", "late", "refused"}) => (start + total) % size = write

(* What has been written, published or not.                                  *)
Written == stream + IF wpc \in {"first", "second", "adjust", "hung"} THEN req.done ELSE 0

(* The fragments divide what is kept and what is being written, in order; the *)
(* last one lies within one turn of the ring.                                *)
Fragmented ==
    size > 0 /\ frags # <<>> =>
        /\ \A k \in DOMAIN frags :
              /\ 0 <= frags[k].after /\ frags[k].after <= Written
              /\ frags[k].start = frags[k].after % size
        /\ \A k, l \in DOMAIN frags : k <= l => frags[k].after <= frags[l].after
        /\ \A k \in 1 .. Len(frags) - 1 :
              FragmentSize(frags[k]) \in 0 .. frags[k + 1].after - frags[k].after
        /\ stream - frags[1].after <= total
        /\ Without({"late", "refused"}) =>
              /\ \A k \in 1 .. Len(frags) - 1 :
                    frags[k].end - frags[k].start = frags[k + 1].after - frags[k].after
              /\ stream - frags[1].after = total
              /\ LET last == frags[Len(frags)]
                 IN  Written - last.after = (Written % size) - last.start

NotHung == wpc = "hung" => ~Without({"late", "refused", "coarse"})

RingInv == Types /\ Requested /\ Placed /\ Fragmented /\ NotHung

(* What makes the order of the data inductive: where the subfiles keep it.   *)
Place(fd) == ((fd.sub - 1) * SubSize) + fd.pos

Holds(d, x, u) ==
    \E i \in DOMAIN d : \E j \in DOMAIN d[i] :
        x = ((i - 1) * SubSize) + (j - 1) /\ d[i][j] = u

(* Every subfile but the last holds SubSize units.                           *)
Shaped ==
    "drift" \notin mishaps =>
        \A i \in DOMAIN disk : /\ Len(disk[i]) <= SubSize
                               /\ i < Len(disk) => Len(disk[i]) = SubSize

(* The descriptor of the writer is where the next unit goes.                 *)
WriterPlaced ==
    "drift" \notin mishaps =>
        /\ wfd.pos <= SubSize
        /\ wpc \in {"idle", "first", "rate"} => Place(wfd) = write
        /\ wpc = "adjust" => /\ Place(wfd) \in {write + req.done, write + req.done - size}
                             /\ Place(wfd) \in 0 .. size

(* The subfiles hold the last units written, as many as the ring has places. *)
Kept ==
    "drift" \notin mishaps /\ size > 0 =>
        \A u \in 1 .. Written : u > Written - size => Holds(disk, (u - 1) % size, u)

(* The descriptor of the reader is at the first unread unit, and no write in *)
(* progress comes that far.                                                  *)
ReaderPlaced ==
    mishaps = {} /\ size > 0 =>
        /\ rfd.pos <= SubSize /\ Place(rfd) = read /\ read = (stream - avail) % size
        /\ wpc \in {"first", "second", "adjust", "hung"} =>
              req.len1 + req.len2 + avail <= size

OrderInv == Shaped /\ WriterPlaced /\ Kept /\ ReaderPlaced /\ InOrder
============================================================================
