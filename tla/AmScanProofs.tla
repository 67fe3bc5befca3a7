---------------------------- MODULE AmScanProofs ----------------------------
(* Proofs of the safety properties of AmScan, for any plans, slots, stages   *)
(* of the blind scan and bounds.                                             *)
EXTENDS AmScan, SequenceTheorems, FiniteSetTheorems, TLAPS

-----------------------------------------------------------------------------
(* Sequences of tasks.                                                       *)

InOrderSeq(s) == \A i, j \in 1 .. Len(s) : i < j => Before(s[i], s[j])

\* A sequence of tasks, of A, that may be put before those of R.
Fits(s, A, R) ==
    /\ s \in Seq(ScanTasks) /\ InOrderSeq(s)
    /\ \A x \in Range(s) : x[1] \in A /\ R \subseteq Behind(x[1])

Rest == Range(Tail(agenda))

LEMMA NoRange == Range(<< >>) = {}
<1>1. DOMAIN << >> = {}
  OBVIOUS
<1> QED BY <1>1 DEF Range

LEMMA FitsNone ==
    ASSUME NEW A, NEW R
    PROVE  Fits(<< >>, A, R) /\ Range(<< >>) = {}
<1>1. << >> \in Seq(ScanTasks) /\ Len(<< >>) = 0
  OBVIOUS
<1> QED BY <1>1, NoRange DEF Fits, InOrderSeq

LEMMA FitsOne ==
    ASSUME NEW A, NEW R, NEW x \in ScanTasks, x[1] \in A, R \subseteq Behind(x[1])
    PROVE  Fits(<<x>>, A, R) /\ Range(<<x>>) = {x}
<1>1. <<x>> \in Seq(ScanTasks) /\ Len(<<x>>) = 1 /\ <<x>>[1] = x
  OBVIOUS
<1>2. Range(<<x>>) = {x}
  BY DEF Range
<1> QED BY <1>1, <1>2 DEF Fits, InOrderSeq

LEMMA ConcatOrder ==
    ASSUME NEW s \in Seq(ScanTasks), NEW u \in Seq(ScanTasks), InOrderSeq(s), InOrderSeq(u),
           \A x \in Range(s) : \A y \in Range(u) : Before(x, y)
    PROVE  InOrderSeq(s \o u)
<1>1. /\ Len(s) \in Nat /\ Len(u) \in Nat /\ Len(s \o u) = Len(s) + Len(u)
      /\ \A i \in 1 .. Len(s) : (s \o u)[i] = s[i] /\ s[i] \in Range(s)
      /\ Range(u) = {u[i] : i \in 1 .. Len(u)}
  BY ConcatProperties, RangeEquality
<1>2. ASSUME NEW i \in 1 .. Len(s \o u), i > Len(s)
      PROVE  i - Len(s) \in 1 .. Len(u) /\ (s \o u)[i] = u[i - Len(s)] /\ u[i - Len(s)] \in Range(u)
  BY <1>1, <1>2, ConcatProperties
<1>3. ASSUME NEW i \in 1 .. Len(s \o u), NEW j \in 1 .. Len(s \o u), i < j
      PROVE  Before((s \o u)[i], (s \o u)[j])
  <2>1. CASE j <= Len(s)
    BY <1>1, <1>3, <2>1 DEF InOrderSeq
  <2>2. CASE i > Len(s)
    <3>1. j > Len(s) /\ i - Len(s) < j - Len(s)
      BY <1>1, <1>3, <2>2
    <3> QED BY <1>2, <2>2, <3>1 DEF InOrderSeq
  <2>3. CASE i <= Len(s) /\ j > Len(s)
    <3>1. i \in 1 .. Len(s)
      BY <1>1, <2>3
    <3> QED BY <1>1, <1>2, <2>3, <3>1
  <2> QED BY <1>1, <2>1, <2>2, <2>3
<1> QED BY <1>3 DEF InOrderSeq

LEMMA FitsConcat ==
    ASSUME NEW A, NEW B, NEW R, NEW s, NEW u, Fits(s, A, R \cup B), Fits(u, B, R)
    PROVE  Fits(s \o u, A \cup B, R) /\ Range(s \o u) = Range(s) \cup Range(u)
<1>1. s \in Seq(ScanTasks) /\ u \in Seq(ScanTasks) /\ InOrderSeq(s) /\ InOrderSeq(u)
  BY DEF Fits
<1>2. s \o u \in Seq(ScanTasks) /\ Range(s \o u) = Range(s) \cup Range(u)
  BY <1>1, ConcatProperties, RangeConcatenation
<1>3. \A x \in Range(s) : \A y \in Range(u) : Before(x, y)
  BY DEF Fits, Before
<1>4. InOrderSeq(s \o u)
  BY <1>1, <1>3, ConcatOrder
<1> QED BY <1>2, <1>4 DEF Fits

\* More tasks may be allowed, fewer be behind.
LEMMA FitsMore ==
    ASSUME NEW A, NEW B, NEW R, NEW Q, NEW s, Fits(s, A, R), A \subseteq B, Q \subseteq R
    PROVE  Fits(s, B, Q)
BY DEF Fits

\* The two sequences, one after the other.
Join(s, u, A, R) == Fits(s \o u, A, R) /\ Range(s \o u) = Range(s) \cup Range(u)

LEMMA FitsJoin ==
    ASSUME NEW A, NEW B, NEW C, NEW R, NEW Q, NEW s, NEW u, Fits(s, A, Q), Fits(u, B, R),
           B \subseteq Q, R \subseteq Q, A \subseteq C, B \subseteq C
    PROVE  Join(s, u, C, R)
<1>1. Fits(s, A, R \cup B)
  <2> DEFINE P == R \cup B
  <2>1. P \subseteq Q /\ A \subseteq A
    OBVIOUS
  <2> HIDE DEF P
  <2>2. Fits(s, A, P)
    BY <2>1, FitsMore
  <2> QED BY <2>2 DEF P
<1>2. Fits(s \o u, A \cup B, R) /\ Range(s \o u) = Range(s) \cup Range(u)
  BY <1>1, FitsConcat
<1>3. A \cup B \subseteq C /\ R \subseteq R
  OBVIOUS
<1> QED BY <1>2, <1>3, FitsMore DEF Join

LEMMA FitsIf ==
    ASSUME NEW A, NEW R, NEW s, NEW cond \in BOOLEAN, cond => Fits(s, A, R)
    PROVE  Fits(If(cond, s), A, R) /\ Range(If(cond, s)) = IF cond THEN Range(s) ELSE {}
<1>1. CASE cond
  <2>1. If(cond, s) = s
    BY <1>1 DEF If
  <2> QED BY <1>1, <2>1
<1>2. CASE ~cond
  <2>1. If(cond, s) = << >>
    BY <1>2 DEF If
  <2>2. Fits(<< >>, A, R) /\ Range(<< >>) = {}
    BY FitsNone
  <2> QED BY <1>2, <2>1, <2>2
<1> QED BY <1>1, <1>2

LEMMA FitsTwo ==
    ASSUME NEW A, NEW R, NEW x \in ScanTasks, NEW z \in ScanTasks, x[1] \in A, z[1] \in A,
           R \subseteq Behind(x[1]), R \subseteq Behind(z[1]), Before(x, z)
    PROVE  Fits(<<x, z>>, A, R) /\ Range(<<x, z>>) = {x, z}
<1>1. <<x, z>> \in Seq(ScanTasks) /\ Len(<<x, z>>) = 2 /\ <<x, z>>[1] = x /\ <<x, z>>[2] = z
  OBVIOUS
<1>2. Range(<<x, z>>) = {x, z}
  BY DEF Range
<1>3. InOrderSeq(<<x, z>>)
  BY <1>1 DEF InOrderSeq
<1> QED BY <1>1, <1>2, <1>3 DEF Fits

LEMMA FitsCons ==
    ASSUME NEW A, NEW R, NEW x \in ScanTasks, NEW s, x[1] \in A, R \subseteq Behind(x[1]),
           Fits(s, A, R), \A y \in Range(s) : Before(x, y)
    PROVE  Fits(<<x>> \o s, A, R) /\ Range(<<x>> \o s) = {x} \cup Range(s)
<1> DEFINE u == <<x>>
<1>1. Fits(u, A, R) /\ Range(u) = {x} /\ s \in Seq(ScanTasks) /\ InOrderSeq(s)
  <2>1. Fits(<<x>>, A, R) /\ Range(<<x>>) = {x}
    BY FitsOne
  <2> QED BY <2>1 DEF Fits
<1> HIDE DEF u
<1>2. u \in Seq(ScanTasks) /\ InOrderSeq(u)
  BY <1>1 DEF Fits
<1>3. u \o s \in Seq(ScanTasks) /\ Range(u \o s) = {x} \cup Range(s)
  BY <1>1, <1>2, ConcatProperties, RangeConcatenation
<1>4. InOrderSeq(u \o s)
  BY <1>1, <1>2, ConcatOrder
<1> QED BY <1>1, <1>3, <1>4 DEF Fits, u

\* Tasks of one kind for each of the slots.
LEMMA FitsSlots ==
    ASSUME NEW A, NEW R, NEW op \in {"free", "pmtfree"}, op \in A, R \subseteq Behind(op)
    PROVE  /\ Fits([i \in 1 .. Len(Slots) |-> For(op, Slots[i])], A, R)
           /\ Range([i \in 1 .. Len(Slots) |-> For(op, Slots[i])]) = {For(op, t) : t \in SlotSet}
<1> DEFINE s == [i \in 1 .. Len(Slots) |-> For(op, Slots[i])]
<1>1. Len(Slots) \in Nat /\ \A i \in 1 .. Len(Slots) : Slots[i] \in SlotSet
  <2>1. Slots \in Seq(SlotSet)
    BY SlotsAssumption
  <2> QED BY <2>1, LenProperties, ElementOfSeq
<1>2. \A i \in 1 .. Len(Slots) : For(op, Slots[i]) \in ScanTasks /\ For(op, Slots[i])[1] = op
  BY <1>1 DEF For, ScanTasks, Tables
<1>3. s \in Seq(ScanTasks) /\ Len(s) = Len(Slots)
  <2>1. s \in [1 .. Len(Slots) -> ScanTasks]
    BY <1>2
  <2> QED BY <1>1, <2>1, IsASeq, LenProperties
<1>4. InOrderSeq(s)
  <2>1. op \in Behind(op)
    BY DEF Behind, Later, Finals
  <2> QED BY <1>2, <1>3, <2>1 DEF InOrderSeq, Before
<1>5. Range(s) = {For(op, t) : t \in SlotSet}
  <2>1. Range(s) = {For(op, Slots[i]) : i \in 1 .. Len(Slots)}
    BY DEF Range
  <2> QED BY <2>1 DEF SlotSet
<1>6. \A x \in Range(s) : x[1] = op
  BY <1>5 DEF For
<1> QED BY <1>3, <1>4, <1>5, <1>6 DEF Fits

-----------------------------------------------------------------------------
(* The agenda, as the set of the tasks that are on it.                       *)

Agenda ==
    /\ agenda \in Seq(ScanTasks) /\ Ordered
    /\ agenda = << >> <=> spc \in Idling
    /\ agenda # << >> => \E x \in Pending : x[1] \in Finals

LEMMA AgendaOf == AgendaInv => Agenda
BY DEF AgendaInv, TypeOK, Agenda

\* A task and what it is about.
LEMMA TaskType ==
    ASSUME NEW x \in ScanTasks
    PROVE  /\ x = <<x[1], x[2]>>
           /\ x[1] \in {"free", "request", "done", "recheck"} => x[2] \in Tables
           /\ x[1] = "pmtfree" => x[2] \in SlotSet
           /\ x[1] = "check" => x[2] \in 1 .. Len(Slots) + 4
           /\ x[1] = "slot" => x[2] \in 1 .. Len(Slots)
           /\ x[1] \in Calls \cup (Finals \ {"check"}) => x[2] = "none"
<1>1. /\ \A y \in {"free", "request", "done", "recheck"} \X Tables :
            y = <<y[1], y[2]>> /\ y[1] \in {"free", "request", "done", "recheck"} /\ y[2] \in Tables
      /\ \A y \in {"pmtfree"} \X SlotSet : y = <<y[1], y[2]>> /\ y[1] = "pmtfree" /\ y[2] \in SlotSet
      /\ \A y \in {"check"} \X (1 .. Len(Slots) + 4) :
            y = <<y[1], y[2]>> /\ y[1] = "check" /\ y[2] \in 1 .. Len(Slots) + 4
      /\ \A y \in {"slot"} \X (1 .. Len(Slots)) :
            y = <<y[1], y[2]>> /\ y[1] = "slot" /\ y[2] \in 1 .. Len(Slots)
      /\ \A y \in (Calls \cup (Finals \ {"check"})) \X {"none"} :
            y = <<y[1], y[2]>> /\ y[1] \in Calls \cup (Finals \ {"check"}) /\ y[2] = "none"
  OBVIOUS
<1>2. \/ x \in {"free", "request", "done", "recheck"} \X Tables
      \/ x \in {"pmtfree"} \X SlotSet
      \/ x \in {"check"} \X (1 .. Len(Slots) + 4)
      \/ x \in {"slot"} \X (1 .. Len(Slots))
      \/ x \in (Calls \cup (Finals \ {"check"})) \X {"none"}
  BY DEF ScanTasks
<1>3. /\ x = <<x[1], x[2]>>
      /\ \/ x[1] \in {"free", "request", "done", "recheck"} /\ x[2] \in Tables
         \/ x[1] = "pmtfree" /\ x[2] \in SlotSet
         \/ x[1] = "check" /\ x[2] \in 1 .. Len(Slots) + 4
         \/ x[1] = "slot" /\ x[2] \in 1 .. Len(Slots)
         \/ x[1] \in Calls \cup (Finals \ {"check"}) /\ x[2] = "none"
  BY <1>1, <1>2
<1> QED BY <1>3 DEF Calls, Finals

\* The first task and the others.
LEMMA Split ==
    ASSUME agenda \in Seq(ScanTasks), agenda # << >>
    PROVE  /\ Head(agenda) \in ScanTasks /\ Tail(agenda) \in Seq(ScanTasks)
           /\ Len(agenda) \in Nat \ {0} /\ Len(Tail(agenda)) = Len(agenda) - 1
           /\ Head(agenda) = agenda[1]
           /\ \A i \in 1 .. Len(agenda) - 1 : Tail(agenda)[i] = agenda[i + 1]
           /\ Pending = {Head(agenda)} \cup Rest
           /\ Rest \subseteq ScanTasks
<1>1. /\ Head(agenda) \in ScanTasks /\ Tail(agenda) \in Seq(ScanTasks)
      /\ Len(agenda) \in Nat \ {0} /\ Len(Tail(agenda)) = Len(agenda) - 1
      /\ Head(agenda) = agenda[1]
      /\ \A i \in 1 .. Len(agenda) - 1 : Tail(agenda)[i] = agenda[i + 1]
  OBVIOUS
<1>2. /\ Pending = {agenda[i] : i \in 1 .. Len(agenda)}
      /\ Rest = {Tail(agenda)[i] : i \in 1 .. Len(Tail(agenda))}
      /\ Rest \subseteq ScanTasks
  BY <1>1, RangeEquality, RangeOfSeq DEF Pending, Rest
<1>3. ASSUME NEW i \in 1 .. Len(agenda)
      PROVE  agenda[i] \in {Head(agenda)} \cup Rest
  <2>1. CASE i = 1
    BY <1>1, <2>1
  <2>2. CASE i # 1
    <3>1. i - 1 \in 1 .. Len(Tail(agenda)) /\ i - 1 \in 1 .. Len(agenda) - 1 /\ (i - 1) + 1 = i
      BY <1>1, <2>2
    <3>2. Tail(agenda)[i - 1] = agenda[i]
      BY <1>1, <3>1
    <3> QED BY <1>2, <3>1, <3>2
  <2> QED BY <2>1, <2>2
<1>4. ASSUME NEW i \in 1 .. Len(Tail(agenda))
      PROVE  Tail(agenda)[i] \in Pending
  <2>1. i \in 1 .. Len(agenda) - 1 /\ i + 1 \in 1 .. Len(agenda)
    BY <1>1
  <2> QED BY <1>1, <1>2, <2>1
<1>5. Head(agenda) \in Pending
  BY <1>1, <1>2
<1> QED BY <1>1, <1>2, <1>3, <1>4, <1>5

\* The order of two tasks.
LEMMA SplitOrder ==
    ASSUME agenda \in Seq(ScanTasks), agenda # << >>, Ordered
    PROVE  /\ InOrderSeq(Tail(agenda))
           /\ \A y \in Rest : Before(Head(agenda), y)
<1>1. \A i \in 1 .. Len(Tail(agenda)) :
          i + 1 \in 1 .. Len(agenda) /\ Tail(agenda)[i] = agenda[i + 1]
  BY Split
<1>2. Rest = {Tail(agenda)[i] : i \in 1 .. Len(Tail(agenda))}
  BY Split, RangeEquality DEF Rest
<1>3. 1 \in 1 .. Len(agenda) /\ Head(agenda) = agenda[1]
  BY Split
<1>4. InOrderSeq(Tail(agenda))
  BY <1>1, Split DEF Ordered, InOrderSeq
<1>5. \A i \in 1 .. Len(Tail(agenda)) : Before(Head(agenda), Tail(agenda)[i])
  BY <1>1, <1>3, Split DEF Ordered
<1> QED BY <1>2, <1>4, <1>5

\* The task at the head, and what is behind it.
Heads(op) ==
    /\ agenda # << >> /\ Head(agenda) = <<op, Of>> /\ <<op, Of>> \in ScanTasks
    /\ Pending = {<<op, Of>>} \cup Rest /\ Rest \subseteq ScanTasks
    /\ \A y \in Rest : y[1] \in Behind(op)
    /\ op \in Finals => Rest = {}
    /\ op \notin Finals => \E x \in Rest : x[1] \in Finals

LEMMA HeadTask ==
    ASSUME Agenda, NEW op, At(op)
    PROVE  Heads(op)
<1>1. agenda \in Seq(ScanTasks) /\ Ordered /\ agenda # << >> /\ Head(agenda)[1] = op
      /\ \E x \in Pending : x[1] \in Finals
  BY DEF Agenda, Idling, At
<1>2. /\ Head(agenda) \in ScanTasks /\ Pending = {Head(agenda)} \cup Rest
      /\ Rest \subseteq ScanTasks
  BY <1>1, Split
<1>3. Head(agenda) = <<op, Of>>
  BY <1>1, <1>2, TaskType DEF Of
<1>4. \A y \in Rest : y[1] \in Behind(op)
  BY <1>1, SplitOrder DEF Before
<1>5. op \in Finals => Rest = {}
  BY <1>4 DEF Behind, Finals
<1>6. op \notin Finals => \E x \in Rest : x[1] \in Finals
  BY <1>1, <1>2
<1> QED BY <1>1, <1>2, <1>3, <1>4, <1>5, <1>6 DEF Heads

\* What a step does with the agenda: the head is replaced, or all of it, or none.
Pops(op, N) == Heads(op) /\ Agenda' /\ Pending' = N \cup Rest

LEMMA Popped ==
    ASSUME Agenda, NEW op, At(op), NEW tasks, agenda' = tasks \o Tail(agenda), spc' \notin Idling,
           NEW A, Fits(tasks, A, Behind(op)),
           op \notin Finals \/ \E x \in Range(tasks) : x[1] \in Finals
    PROVE  Pops(op, Range(tasks))
<1>1. Heads(op)
  BY HeadTask
<1>2. agenda \in Seq(ScanTasks) /\ Ordered /\ agenda # << >>
  BY <1>1 DEF Agenda, Heads
<1>3. Tail(agenda) \in Seq(ScanTasks) /\ InOrderSeq(Tail(agenda))
  BY <1>2, Split, SplitOrder
<1>4. tasks \in Seq(ScanTasks) /\ InOrderSeq(tasks)
  BY DEF Fits
<1>5. \A x \in Range(tasks) : \A y \in Range(Tail(agenda)) : Before(x, y)
  BY <1>1 DEF Fits, Heads, Before, Rest
<1>6. InOrderSeq(agenda') /\ agenda' \in Seq(ScanTasks)
  BY <1>3, <1>4, <1>5, ConcatOrder, ConcatProperties
<1>7. Range(agenda') = Range(tasks) \cup Rest
  BY <1>3, <1>4, RangeConcatenation DEF Rest
<1>8. Pending' = Range(tasks) \cup Rest
  BY <1>7 DEF Pending
<1>9. \E x \in Pending' : x[1] \in Finals
  BY <1>1, <1>8 DEF Heads
<1>10. agenda' # << >>
  BY <1>9, FitsNone DEF Pending
<1>11. Ordered'
  BY <1>6 DEF InOrderSeq, Ordered
<1> QED BY <1>1, <1>6, <1>8, <1>9, <1>10, <1>11 DEF Agenda, Pops

LEMMA Returned ==
    ASSUME Agenda, NEW op, At(op), op \notin Finals, agenda' = Tail(agenda), spc' \notin Idling
    PROVE  Pops(op, {})
<1>1. Heads(op)
  BY HeadTask
<1>2. agenda \in Seq(ScanTasks) /\ Ordered /\ agenda # << >>
  BY <1>1 DEF Agenda, Heads
<1>3. Tail(agenda) \in Seq(ScanTasks) /\ InOrderSeq(Tail(agenda))
  BY <1>2, Split, SplitOrder
<1>4. Pending' = Rest
  BY DEF Pending, Rest
<1>5. \E x \in Pending' : x[1] \in Finals
  BY <1>1, <1>4 DEF Heads
<1>6. agenda' # << >>
  BY <1>5, FitsNone DEF Pending
<1>7. Ordered'
  BY <1>3 DEF InOrderSeq, Ordered
<1> QED BY <1>1, <1>3, <1>4, <1>5, <1>6, <1>7 DEF Agenda, Pops

LEMMA Returning ==
    ASSUME Agenda, NEW op, At(op), op \notin Finals, agenda' = << >> \o Tail(agenda),
           spc' \notin Idling
    PROVE  Pops(op, {})
<1>1. agenda \in Seq(ScanTasks) /\ agenda # << >>
  BY HeadTask DEF Agenda, Heads
<1>2. Tail(agenda) \in Seq(ScanTasks)
  BY <1>1, Split
<1>3. << >> \o Tail(agenda) = Tail(agenda)
  BY <1>2, ConcatEmptySeq
<1> QED BY <1>3, Returned

LEMMA Replaced ==
    ASSUME NEW tasks, agenda' = tasks, spc' \notin Idling, NEW A, NEW R, Fits(tasks, A, R),
           \E x \in Range(tasks) : x[1] \in Finals
    PROVE  Agenda' /\ Pending' = Range(tasks)
<1>1. Pending' = Range(tasks)
  BY DEF Pending
<1>2. agenda' # << >>
  BY <1>1, FitsNone DEF Pending
<1>3. Ordered'
  BY DEF InOrderSeq, Ordered, Fits
<1> QED BY <1>1, <1>2, <1>3 DEF Agenda, Fits

LEMMA Emptied ==
    ASSUME agenda' = << >>, spc' \in Idling
    PROVE  Agenda' /\ Pending' = {}
<1>1. Pending' = {}
  BY FitsNone DEF Pending
<1>2. agenda' \in Seq(ScanTasks) /\ Ordered'
  BY DEF Ordered
<1> QED BY <1>1, <1>2 DEF Agenda

LEMMA Kept ==
    ASSUME Agenda, agenda' = agenda, spc \in Idling <=> spc' \in Idling
    PROVE  Agenda' /\ Pending' = Pending
<1>1. Pending' = Pending /\ (Ordered' <=> Ordered)
  BY DEF Pending, Ordered
<1> QED BY <1>1 DEF Agenda

-----------------------------------------------------------------------------
(* What is put on the agenda.                                                *)

\* The tasks that any other may be behind of, but for the few of Behind.
Plain == {"recheck", "pmtfree", "slot"} \cup (Calls \ {"window", "stop", "free all", "blind", "fend"})
Events == Later \ {"fend"}
Ops == {"window", "begin"} \cup Later

LEMMA BehindOf ==
    /\ \A op \in Finals : Behind(op) = {}
    /\ \A op \in Plain : Behind(op) = Later
    /\ Behind("request") = Later \cup {"request"}
    /\ Behind("free") = Later \cup {"request", "free", "ts"}
    /\ Behind("window") = Later \cup {"begin", "leave", "unsub"}
    /\ Behind("stop") = {"window", "unsub"} /\ Behind("free all") = {"window", "unsub"}
    /\ Behind("done") = Events /\ Behind("fend") = Events /\ Behind("blind") = {"quit", "clear"}
BY DEF Behind, Finals, Plain, Calls, Events

LEMMA ThreeParts ==
    ASSUME NEW S, NEW s \in Seq(S), NEW u \in Seq(S), NEW v \in Seq(S)
    PROVE  s \o u \o v \in Seq(S) /\ Len(s \o u \o v) = Len(s) + Len(u) + Len(v)
OBVIOUS

LEMMA SlotIsTable ==
    /\ Len(Slots) \in Nat \ {0} /\ \A i \in 1 .. Len(Slots) : Slots[i] \in SlotSet
    /\ SlotSet \subseteq Tables /\ {"pat", "sdt", "nit"} \cap SlotSet = {}
    /\ Len(Order) = Len(Slots) + 3 /\ \A j \in 1 .. Len(Order) : Order[j] \in Tables
<1>1. Slots \in Seq(SlotSet) /\ Len(Slots) > 0 /\ {"pat", "sdt", "nit"} \cap SlotSet = {}
  BY SlotsAssumption
<1>2. Len(Slots) \in Nat \ {0} /\ \A i \in 1 .. Len(Slots) : Slots[i] \in SlotSet
  BY <1>1, LenProperties, ElementOfSeq
<1>3. SlotSet \subseteq Tables /\ "pat" \in Tables /\ "sdt" \in Tables /\ "nit" \in Tables
  BY DEF Tables
<1>4. Slots \in Seq(Tables)
  BY <1>1, <1>3
<1>5. /\ <<"pat">> \in Seq(Tables) /\ Len(<<"pat">>) = 1
      /\ <<"sdt", "nit">> \in Seq(Tables) /\ Len(<<"sdt", "nit">>) = 2
  BY <1>3
<1>6. Order \in Seq(Tables) /\ Len(Order) = Len(Slots) + 3
  <2>1. ASSUME NEW a \in Seq(Tables), NEW b \in Seq(Tables), NEW c \in Seq(Tables),
               Len(a) = 1, Len(c) = 2, Order = a \o b \o c
        PROVE  Order \in Seq(Tables) /\ Len(Order) = Len(b) + 3
    <3>1. a \o b \o c \in Seq(Tables) /\ Len(a \o b \o c) = Len(a) + Len(b) + Len(c)
      BY ThreeParts
    <3>2. Len(b) \in Nat
      BY LenProperties
    <3> QED BY <2>1, <3>1, <3>2
  <2>2. Order = <<"pat">> \o Slots \o <<"sdt", "nit">>
    BY DEF Order
  <2> QED BY <1>4, <1>5, <2>1, <2>2
<1>7. \A j \in 1 .. Len(Order) : Order[j] \in Tables
  BY <1>6, ElementOfSeq
<1> QED BY <1>1, <1>2, <1>3, <1>6, <1>7

DoneTasks(t) ==
    IF t \in SlotSet THEN {For("pmtfree", u) : u \in SlotSet} \cup {Do("pmts")}
    ELSE {For("done", t)}

LEMMA DoneFits ==
    ASSUME NEW t \in Tables
    PROVE  Fits(Done(t), {"pmtfree", "pmts", "done"}, Events) /\ Range(Done(t)) = DoneTasks(t)
<1>1. CASE t \in SlotSet
  <2> DEFINE s == [i \in 1 .. Len(Slots) |-> For("pmtfree", Slots[i])]
             u == <<Do("pmts")>>
  <2>1. Fits(s, {"pmtfree"}, Events \cup {"pmts"}) /\ Range(s) = {For("pmtfree", v) : v \in SlotSet}
    BY FitsSlots, BehindOf DEF Plain, Later, Events
  <2>2. Do("pmts") \in ScanTasks /\ Do("pmts")[1] = "pmts" /\ Behind("pmts") = Later
    BY BehindOf DEF Plain, Calls, ScanTasks, Do
  <2>3. Fits(u, {"pmts"}, Events) /\ Range(u) = {Do("pmts")}
    BY <2>2, FitsOne DEF Events
  <2>4. Done(t) = s \o u
    BY <1>1 DEF Done
  <2> HIDE DEF s, u
  <2>5. Fits(s \o u, {"pmtfree"} \cup {"pmts"}, Events) /\ Range(s \o u) = Range(s) \cup Range(u)
    BY <2>1, <2>3, FitsConcat
  <2>6. Fits(s \o u, {"pmtfree", "pmts", "done"}, Events)
    BY <2>5, FitsMore
  <2> QED BY <1>1, <2>1, <2>3, <2>4, <2>5, <2>6 DEF DoneTasks
<1>2. CASE t \notin SlotSet
  <2>1. For("done", t) \in ScanTasks /\ For("done", t)[1] = "done" /\ Behind("done") = Events
    BY BehindOf DEF ScanTasks, For
  <2>2. Done(t) = <<For("done", t)>> /\ DoneTasks(t) = {For("done", t)}
    BY <1>2 DEF Done, DoneTasks
  <2> QED BY <2>1, <2>2, FitsOne
<1> QED BY <1>1, <1>2

LEMMA FitsEvents ==
    ASSUME NEW s, NEW u, Fits(s, Ops, Events), Fits(u, Events, Events)
    PROVE  Fits(s \o u, Ops, Events) /\ Range(s \o u) = Range(s) \cup Range(u)
<1>1. s \in Seq(ScanTasks) /\ u \in Seq(ScanTasks) /\ InOrderSeq(s) /\ InOrderSeq(u)
  BY DEF Fits
<1>2. s \o u \in Seq(ScanTasks) /\ Range(s \o u) = Range(s) \cup Range(u)
  BY <1>1, ConcatProperties, RangeConcatenation
<1>3. \A x \in Range(s) : \A y \in Range(u) : Before(x, y)
  BY DEF Fits, Before
<1>4. InOrderSeq(s \o u)
  BY <1>1, <1>3, ConcatOrder
<1> QED BY <1>2, <1>4 DEF Fits, Ops, Events

\* The tasks of the events of e.
HandleTasks(e) ==
    (IF "start" \in e /\ ~started THEN {Do("window"), Do("begin")} ELSE {})
    \cup (IF "fend" \in e THEN {Do("fend")} ELSE {})
    \cup (IF "pat" \in e THEN {For("done", "pat")} ELSE {})
    \cup (IF "pmt" \in e THEN {For("pmtfree", u) : u \in SlotSet} \cup {Do("pmts")} ELSE {})
    \cup (IF "sdt" \in e THEN {For("done", "sdt")} ELSE {})
    \cup (IF "nit" \in e THEN {For("done", "nit")} ELSE {})
    \cup (IF "blind" \in e THEN {Do("blind")} ELSE {})
    \cup {IF "quit" \in e THEN Do("quit") ELSE Do("clear")}

LEMMA HandleFits ==
    ASSUME NEW e, started \in BOOLEAN
    PROVE  /\ Fits(Handle(e), Ops, {}) /\ Range(Handle(e)) = HandleTasks(e)
           /\ \E x \in HandleTasks(e) : x[1] \in Finals
<1> DEFINE s1 == If("start" \in e /\ ~started, <<Do("window"), Do("begin")>>)
           s2 == If("fend" \in e, <<Do("fend")>>)
           s3 == If("pat" \in e, Done("pat"))
           s4 == If("pmt" \in e, Done(Slots[1]))
           s5 == If("sdt" \in e, Done("sdt"))
           s6 == If("nit" \in e, Done("nit"))
           s7 == If("blind" \in e, <<Do("blind")>>)
           x8 == IF "quit" \in e THEN Do("quit") ELSE Do("clear")
           s8 == <<x8>>
           r1 == IF "start" \in e /\ ~started THEN {Do("window"), Do("begin")} ELSE {}
           r2 == IF "fend" \in e THEN {Do("fend")} ELSE {}
           r3 == IF "pat" \in e THEN {For("done", "pat")} ELSE {}
           r4 == IF "pmt" \in e THEN {For("pmtfree", u) : u \in SlotSet} \cup {Do("pmts")} ELSE {}
           r5 == IF "sdt" \in e THEN {For("done", "sdt")} ELSE {}
           r6 == IF "nit" \in e THEN {For("done", "nit")} ELSE {}
           r7 == IF "blind" \in e THEN {Do("blind")} ELSE {}
<1>1. /\ Do("window") \in ScanTasks /\ Do("begin") \in ScanTasks /\ Do("fend") \in ScanTasks
      /\ Do("blind") \in ScanTasks /\ Do("quit") \in ScanTasks /\ Do("clear") \in ScanTasks
      /\ \A op : Do(op)[1] = op
  BY DEF Do, ScanTasks, Calls, Finals
<1>2. /\ Later \subseteq Behind("window") /\ Later \subseteq Behind("begin")
      /\ Events \subseteq Behind("fend") /\ Behind("blind") = {"quit", "clear"}
      /\ "begin" \in Behind("window")
  BY BehindOf DEF Plain, Calls, Events
<1>3. Fits(s1, Ops, Later) /\ Range(s1) = r1
  <2>1. Fits(<<Do("window"), Do("begin")>>, Ops, Later)
        /\ Range(<<Do("window"), Do("begin")>>) = {Do("window"), Do("begin")}
    BY <1>1, <1>2, FitsTwo DEF Before, Ops
  <2> DEFINE v == <<Do("window"), Do("begin")>>
             c == "start" \in e /\ ~started
  <2>2. Fits(v, Ops, Later) /\ Range(v) = {Do("window"), Do("begin")} /\ c \in BOOLEAN
        /\ s1 = If(c, v) /\ r1 = IF c THEN {Do("window"), Do("begin")} ELSE {}
    BY <2>1
  <2> HIDE DEF v, c, s1, r1
  <2> QED BY <2>2, FitsIf
<1>4. Fits(s2, {"fend"}, Events) /\ Range(s2) = r2
  <2>1. Fits(<<Do("fend")>>, {"fend"}, Events) /\ Range(<<Do("fend")>>) = {Do("fend")}
    BY <1>1, <1>2, FitsOne DEF Events
  <2> DEFINE v == <<Do("fend")>>
             c == "fend" \in e
  <2>2. Fits(v, {"fend"}, Events) /\ Range(v) = {Do("fend")} /\ c \in BOOLEAN
        /\ s2 = If(c, v) /\ r2 = IF c THEN {Do("fend")} ELSE {}
    BY <2>1
  <2> HIDE DEF v, c, s2, r2
  <2> QED BY <2>2, FitsIf
<1>5. ASSUME NEW t \in Tables
      PROVE  Fits(Done(t), Events, Events) /\ Range(Done(t)) = DoneTasks(t)
  <2>1. {"pmtfree", "pmts", "done"} \subseteq Events
    BY DEF Events, Later
  <2> QED BY <2>1, DoneFits, FitsMore
<1>6. /\ Fits(s3, Events, Events) /\ Range(s3) = r3
      /\ Fits(s5, Events, Events) /\ Range(s5) = r5
      /\ Fits(s6, Events, Events) /\ Range(s6) = r6
  <2>1. \A t \in {"pat", "sdt", "nit"} : t \in Tables /\ DoneTasks(t) = {For("done", t)}
    BY SlotIsTable DEF Tables, DoneTasks
  <2>2. \A t \in {"pat", "sdt", "nit"} :
            Fits(Done(t), Events, Events) /\ Range(Done(t)) = {For("done", t)}
    BY <2>1, <1>5
  <2>3. ASSUME NEW t \in {"pat", "sdt", "nit"}
        PROVE  /\ Fits(If(t \in e, Done(t)), Events, Events)
               /\ Range(If(t \in e, Done(t))) = IF t \in e THEN {For("done", t)} ELSE {}
    <3> DEFINE c == t \in e
               v == Done(t)
    <3>1. c \in BOOLEAN /\ Fits(v, Events, Events) /\ Range(v) = {For("done", t)}
      BY <2>2
    <3> HIDE DEF c, v
    <3>2. /\ Fits(If(c, v), Events, Events)
          /\ Range(If(c, v)) = IF c THEN {For("done", t)} ELSE {}
      BY <3>1, FitsIf
    <3> QED BY <3>2 DEF c, v
  <2> QED BY <2>3
<1>7. Fits(s4, Events, Events) /\ Range(s4) = r4
  <2>1. Slots[1] \in Tables /\ Slots[1] \in SlotSet
    BY SlotIsTable
  <2>2. Fits(Done(Slots[1]), Events, Events)
        /\ Range(Done(Slots[1])) = {For("pmtfree", u) : u \in SlotSet} \cup {Do("pmts")}
    BY <2>1, <1>5 DEF DoneTasks
  <2> DEFINE T == {For("pmtfree", u) : u \in SlotSet} \cup {Do("pmts")}
             v == Done(Slots[1])
             c == "pmt" \in e
  <2>3. Fits(v, Events, Events) /\ Range(v) = T /\ c \in BOOLEAN /\ s4 = If(c, v)
        /\ r4 = IF c THEN T ELSE {}
    BY <2>2
  <2> HIDE DEF T, v, c, s4, r4
  <2> QED BY <2>3, FitsIf
<1>8. Fits(s7, {"blind"}, {"quit", "clear"}) /\ Range(s7) = r7
  <2>1. Fits(<<Do("blind")>>, {"blind"}, {"quit", "clear"}) /\ Range(<<Do("blind")>>) = {Do("blind")}
    BY <1>1, <1>2, FitsOne
  <2> DEFINE v == <<Do("blind")>>
             c == "blind" \in e
  <2>2. Fits(v, {"blind"}, {"quit", "clear"}) /\ Range(v) = {Do("blind")} /\ c \in BOOLEAN
        /\ s7 = If(c, v) /\ r7 = IF c THEN {Do("blind")} ELSE {}
    BY <2>1
  <2> HIDE DEF v, c, s7, r7
  <2> QED BY <2>2, FitsIf
<1>9. Fits(s8, {"quit", "clear"}, {}) /\ Range(s8) = {x8} /\ x8[1] \in Finals
  <2>1. x8 \in ScanTasks /\ x8[1] \in {"quit", "clear"} /\ x8[1] \in Finals
    BY <1>1 DEF Finals
  <2> QED BY <2>1, FitsOne
<1>10. Handle(e) = s1 \o s2 \o s3 \o s4 \o s5 \o s6 \o s7 \o s8
  BY DEF Handle
<1>11. HandleTasks(e) = r1 \cup r2 \cup r3 \cup r4 \cup r5 \cup r6 \cup r7 \cup {x8}
  BY DEF HandleTasks
<1> HIDE DEF s1, s2, s3, s4, s5, s6, s7, s8, r1, r2, r3, r4, r5, r6, r7, x8
<1>12. Fits(s1 \o s2, Ops, Events) /\ Range(s1 \o s2) = r1 \cup r2
  <2> DEFINE F == {"fend"}
             P == Ops
             Q == Events
  <2>1. Fits(s1, P, Q \cup F) /\ Fits(s2, F, Q) /\ F \subseteq P
    <3>1. Later = Events \cup F /\ F \subseteq Ops
      BY DEF Events, Later, Ops
    <3> QED BY <1>3, <1>4, <3>1
  <2> HIDE DEF F, P, Q
  <2>2. Fits(s1 \o s2, P \cup F, Q) /\ Range(s1 \o s2) = Range(s1) \cup Range(s2)
    BY <2>1, FitsConcat
  <2>3. Fits(s1 \o s2, P, Q)
    BY <2>1, <2>2, FitsMore
  <2> QED BY <1>3, <1>4, <2>2, <2>3 DEF P, Q
<1>13. Fits(s1 \o s2 \o s3, Ops, Events) /\ Range(s1 \o s2 \o s3) = r1 \cup r2 \cup r3
  BY <1>12, <1>6, FitsEvents
<1>14. Fits(s1 \o s2 \o s3 \o s4, Ops, Events)
       /\ Range(s1 \o s2 \o s3 \o s4) = r1 \cup r2 \cup r3 \cup r4
  BY <1>13, <1>7, FitsEvents
<1>15. Fits(s1 \o s2 \o s3 \o s4 \o s5, Ops, Events)
       /\ Range(s1 \o s2 \o s3 \o s4 \o s5) = r1 \cup r2 \cup r3 \cup r4 \cup r5
  BY <1>14, <1>6, FitsEvents
<1>16. Fits(s1 \o s2 \o s3 \o s4 \o s5 \o s6, Ops, Events)
       /\ Range(s1 \o s2 \o s3 \o s4 \o s5 \o s6) = r1 \cup r2 \cup r3 \cup r4 \cup r5 \cup r6
  BY <1>15, <1>6, FitsEvents
<1> DEFINE w == s1 \o s2 \o s3 \o s4 \o s5 \o s6
           u == w \o s7
           B == {"blind"}
           Q == {"quit", "clear"}
           N == {}
<1>17. /\ Fits(w, Ops, Q \cup B) /\ Range(w) = r1 \cup r2 \cup r3 \cup r4 \cup r5 \cup r6
       /\ Fits(s7, B, N \cup Q) /\ Range(s7) = r7 /\ Fits(s8, Q, N)
       /\ Handle(e) = u \o s8 /\ Q \subseteq Ops /\ B \subseteq Ops
  <2>1. Q \cup B \subseteq Events /\ Q \subseteq Ops /\ B \subseteq Ops
    BY DEF Later, Events, Ops
  <2>2. Fits(w, Ops, Q \cup B)
    BY <1>16, <2>1, FitsMore
  <2> QED BY <1>8, <1>9, <1>10, <1>16, <2>1, <2>2
<1> HIDE DEF w, B, Q, N
<1>18. Fits(u, Ops \cup B, Q) /\ Range(u) = r1 \cup r2 \cup r3 \cup r4 \cup r5 \cup r6 \cup r7
  <2>1. Fits(s7, B, Q)
    BY <1>17, FitsMore
  <2> QED BY <1>17, <2>1, FitsConcat
<1> HIDE DEF u
<1>19. Fits(u \o s8, Ops \cup Q, N) /\ Range(u \o s8) = Range(u) \cup Range(s8)
  <2>1. Fits(u, Ops, N \cup Q) /\ Fits(s8, Q, N)
    <3> DEFINE P == Ops \cup B
    <3>1. Fits(u, P, Q) /\ P \subseteq Ops /\ N \cup Q \subseteq Q
      BY <1>17, <1>18 DEF N
    <3> HIDE DEF P
    <3>2. Fits(u, Ops, N \cup Q)
      BY <3>1, FitsMore
    <3> QED BY <1>17, <3>2
  <2> QED BY <2>1, FitsConcat
<1>20. Fits(u \o s8, Ops, N)
  BY <1>17, <1>19, FitsMore
<1> QED BY <1>9, <1>11, <1>17, <1>18, <1>19, <1>20 DEF N

-----------------------------------------------------------------------------
(* What each action does with the agenda.                                    *)

LEMMA PoppedOne ==
    ASSUME Agenda, NEW op, At(op), NEW x \in ScanTasks, agenda' = <<x>> \o Tail(agenda),
           spc' \notin Idling, Behind(op) \subseteq Behind(x[1]), op \notin Finals \/ x[1] \in Finals
    PROVE  Pops(op, {x})
<1> DEFINE A == {x[1]}
           R == Behind(op)
           s == <<x>>
<1>1. x[1] \in A /\ R \subseteq Behind(x[1])
  OBVIOUS
<1> HIDE DEF A
<1>2. Fits(s, A, R) /\ Range(s) = {x}
  <2> HIDE DEF R
  <2> QED BY <1>1, FitsOne
<1> HIDE DEF s
<1>3. agenda' = s \o Tail(agenda)
  BY DEF s
<1>4. op \notin Finals \/ \E y \in Range(s) : y[1] \in Finals
  BY <1>2
<1>5. Pops(op, Range(s))
  BY <1>2, <1>3, <1>4, Popped
<1> QED BY <1>2, <1>5

LEMMA PairFits ==
    ASSUME NEW x \in ScanTasks, NEW z \in ScanTasks, NEW R, R \subseteq Behind(x[1]),
           R \subseteq Behind(z[1]), Before(x, z)
    PROVE  Fits(<<x, z>>, {x[1], z[1]}, R) /\ Range(<<x, z>>) = {x, z}
<1> DEFINE A == {x[1], z[1]}
<1>1. x[1] \in A /\ z[1] \in A
  OBVIOUS
<1> HIDE DEF A
<1>2. Fits(<<x, z>>, A, R) /\ Range(<<x, z>>) = {x, z}
  BY <1>1, FitsTwo
<1> QED BY <1>2 DEF A

LEMMA PoppedTwo ==
    ASSUME Agenda, NEW op, At(op), NEW x \in ScanTasks, NEW z \in ScanTasks, Before(x, z),
           agenda' = <<x, z>> \o Tail(agenda), spc' \notin Idling,
           Behind(op) \subseteq Behind(x[1]), Behind(op) \subseteq Behind(z[1]), op \notin Finals
    PROVE  Pops(op, {x, z})
<1> DEFINE A == {x[1], z[1]}
           s == <<x, z>>
<1>1. Fits(s, A, Behind(op)) /\ Range(s) = {x, z} /\ agenda' = s \o Tail(agenda)
  BY PairFits
<1> HIDE DEF A, s
<1>2. Pops(op, Range(s))
  BY <1>1, Popped
<1> QED BY <1>1, <1>2

\* One task or none.
LEMMA PoppedIf ==
    ASSUME Agenda, NEW op, At(op), NEW x \in ScanTasks, NEW c \in BOOLEAN,
           agenda' = If(c, <<x>>) \o Tail(agenda),
           spc' \notin Idling, Behind(op) \subseteq Behind(x[1]), op \notin Finals
    PROVE  Pops(op, IF c THEN {x} ELSE {})
<1>1. CASE c
  <2>1. agenda' = <<x>> \o Tail(agenda)
    BY <1>1 DEF If
  <2> QED BY <1>1, <2>1, PoppedOne
<1>2. CASE ~c
  <2>1. agenda' = << >> \o Tail(agenda)
    BY <1>2 DEF If
  <2>2. Pops(op, {})
    BY <2>1, Returning
  <2> QED BY <1>2, <2>2
<1> QED BY <1>1, <1>2

LEMMA TasksTyped ==
    /\ \A op \in Calls \cup (Finals \ {"check"}) : Do(op) \in ScanTasks /\ Do(op)[1] = op
    /\ \A op \in {"free", "request", "done", "recheck"} : \A t \in Tables :
          For(op, t) \in ScanTasks /\ For(op, t)[1] = op /\ For(op, t)[2] = t
    /\ \A t \in SlotSet :
          For("pmtfree", t) \in ScanTasks /\ For("pmtfree", t)[1] = "pmtfree"
          /\ For("pmtfree", t)[2] = t
BY DEF Do, For, ScanTasks

LEMMA CallsTyped ==
    \A op \in {"begin", "fend", "status", "patlist", "pmts", "nextbs", "bs", "trynit", "ts",
               "leave", "next", "tune"} :
        Do(op) \in ScanTasks /\ Do(op)[1] = op /\ Behind(op) = IF op = "fend" THEN Events ELSE Later
<1>1. \A op \in {"begin", "fend", "status", "patlist", "pmts", "nextbs", "bs", "trynit", "ts",
               "leave", "next", "tune"} : op \in Calls /\ (op = "fend" \/ op \in Plain)
  BY DEF Calls, Plain
<1> QED BY <1>1, TasksTyped, BehindOf

LEMMA HeadOf ==
    ASSUME Agenda, NEW op, At(op)
    PROVE  /\ op \in {"free", "request", "done", "recheck"} => Of \in Tables
           /\ op = "pmtfree" => Of \in SlotSet
           /\ op = "check" => Of \in 1 .. Len(Slots) + 4
           /\ op = "slot" => Of \in 1 .. Len(Slots)
<1>1. Heads(op)
  BY HeadTask
<1>2. <<op, Of>> \in ScanTasks /\ <<op, Of>>[1] = op /\ <<op, Of>>[2] = Of
  BY <1>1 DEF Heads
<1> QED BY <1>2, TaskType

\* The calls that push one call, or none.
LEMMA SimplePops ==
    ASSUME Agenda
    PROVE  /\ Recheck => Pops("recheck", {})
           /\ Window => Pops("window", {})
           /\ NothingToFree => Pops("free", {})
           /\ PatList => Pops("patlist", {})
           /\ NitDoneInTs => Pops("done", {})
           /\ NextBlind => Pops("nextbs", {Do("bs")})
           /\ BlindDone => Pops("blind", {Do("nextbs")})
           /\ LeaveTs => Pops("leave", {Do("next")})
           /\ TryNit => Pops("trynit", {Do("next")})
           /\ NitMissing => Pops("done", {Do("trynit")})
           /\ LockedForNit => Pops("status", {For("request", "nit")})
           /\ Stop => Pops("stop", {}) \/ Pops("free all", {})
           /\ StopBlind => Pops("stop", {Do("free all")})
<1> USE DEF Then, Return, Signal, Idling
<1>1. Recheck => Pops("recheck", {})
  BY Returning DEF Recheck, Finals
<1>2. Window => Pops("window", {})
  BY Returning DEF Window, Finals
<1>3. NothingToFree => Pops("free", {})
  BY Returning DEF NothingToFree, Finals
<1>4. PatList => Pops("patlist", {})
  BY Returning DEF PatList, Finals
<1>5. NitDoneInTs => Pops("done", {})
  BY Returning DEF NitDoneInTs, Freed, Finals
<1>6. NextBlind => Pops("nextbs", {Do("bs")})
  <2>1. Do("bs") \in ScanTasks /\ Do("bs")[1] = "bs" /\ Behind("nextbs") = Behind("bs")
    BY CallsTyped
  <2> QED BY <2>1, PoppedOne DEF NextBlind, Finals
<1>7. BlindDone => Pops("blind", {Do("nextbs")})
  <2>1. Do("nextbs") \in ScanTasks /\ Do("nextbs")[1] = "nextbs"
        /\ Behind("blind") \subseteq Behind("nextbs")
    BY CallsTyped, BehindOf DEF Later
  <2> QED BY <2>1, PoppedOne DEF BlindDone, Finals
<1>8. /\ LeaveTs => Pops("leave", {Do("next")})
      /\ TryNit => Pops("trynit", {Do("next")})
  <2>1. Do("next") \in ScanTasks /\ Do("next")[1] = "next" /\ Behind("leave") = Behind("next")
        /\ Behind("trynit") = Behind("next")
    BY CallsTyped
  <2>2. LeaveTs => Pops("leave", {Do("next")})
    BY <2>1, PoppedOne DEF LeaveTs, Finals
  <2>3. TryNit => agenda' = <<Do("next")>> \o Tail(agenda) /\ spc' \in {"run", "window"}
    BY DEF TryNit
  <2>4. TryNit => Pops("trynit", {Do("next")})
    BY <2>1, <2>3, PoppedOne DEF TryNit, Finals
  <2> QED BY <2>2, <2>4
<1>9. NitMissing => Pops("done", {Do("trynit")})
  <2>1. Do("trynit") \in ScanTasks /\ Do("trynit")[1] = "trynit"
        /\ Behind("done") \subseteq Behind("trynit")
    BY CallsTyped, BehindOf DEF Events
  <2> QED BY <2>1, PoppedOne DEF NitMissing, Freed, Finals
<1>10. LockedForNit => Pops("status", {For("request", "nit")})
  <2>1. For("request", "nit") \in ScanTasks /\ For("request", "nit")[1] = "request"
        /\ Behind("status") \subseteq Behind("request")
    BY CallsTyped, TasksTyped, BehindOf DEF Tables
  <2> QED BY <2>1, PoppedOne DEF LockedForNit, Finals
<1>11. Stop => Pops("stop", {}) \/ Pops("free all", {})
  BY Returned DEF Stop, Finals
<1>12. StopBlind => Pops("stop", {Do("free all")})
  <2>1. Do("free all") \in ScanTasks /\ Do("free all")[1] = "free all"
        /\ Behind("stop") \subseteq Behind("free all")
    BY TasksTyped, BehindOf DEF Calls
  <2> QED BY <2>1, PoppedOne DEF StopBlind, Finals
<1> QED BY <1>1, <1>2, <1>3, <1>4, <1>5, <1>6, <1>7, <1>8, <1>9, <1>10, <1>11, <1>12

FreeTasks == {For("free", t) : t \in Tables}

LEMMA CompletePops ==
    ASSUME Agenda, Complete
    PROVE  Pops("complete", FreeTasks \cup {Do("ts"), Do("wait")})
<1> DEFINE s == [i \in 1 .. Len(Slots) |-> For("free", Slots[i])]
           u == <<For("free", "pat"), For("free", "sdt"), For("free", "nit"), Do("ts"), Do("wait")>>
           R == {"free", "ts", "wait"}
           N == {}
           A == {"free"}
<1>1. R \subseteq Behind("free") /\ Behind("ts") = Later /\ Behind("complete") = {} /\ Behind("wait") = {}
  BY BehindOf, CallsTyped DEF Later, Finals
<1>2. /\ For("free", "pat") \in ScanTasks /\ For("free", "sdt") \in ScanTasks
      /\ For("free", "nit") \in ScanTasks /\ Do("ts") \in ScanTasks /\ Do("wait") \in ScanTasks
  BY TasksTyped, SlotIsTable DEF Tables, Calls, Finals
<1>3. \A t : For("free", t)[1] = "free" /\ Do("ts")[1] = "ts" /\ Do("wait")[1] = "wait"
  BY DEF For, Do
<1>4. u \in Seq(ScanTasks) /\ Len(u) = 5
  BY <1>2
<1>5. InOrderSeq(u)
  <2>1. ASSUME NEW i \in 1 .. 5, NEW j \in 1 .. 5, i < j
        PROVE  Before(u[i], u[j])
    <3>1. (i \in 1 .. 3 /\ u[i][1] = "free") \/ (i = 4 /\ u[i][1] = "ts")
      BY <1>3, <2>1
    <3>2. u[j][1] \in R
      BY <1>3
    <3>3. i = 4 => u[j][1] = "wait"
      BY <1>3, <2>1
    <3>4. "wait" \in Later
      BY DEF Later
    <3> QED BY <1>1, <3>1, <3>2, <3>3, <3>4 DEF Before
  <2> QED BY <1>4, <2>1 DEF InOrderSeq
<1>6. Range(u) = {For("free", "pat"), For("free", "sdt"), For("free", "nit"), Do("ts"), Do("wait")}
  BY DEF Range
<1>7. Fits(u, R, N)
  <2>1. \A x \in Range(u) : x[1] \in R
    BY <1>3, <1>6
  <2> HIDE DEF u, R
  <2> QED BY <1>4, <1>5, <2>1 DEF Fits
<1>8. Fits(s, A, N \cup R) /\ Range(s) = {For("free", t) : t \in SlotSet}
  <2>1. "free" \in A /\ N \cup R \subseteq Behind("free")
    BY <1>1
  <2> HIDE DEF A, N, R
  <2> QED BY <2>1, FitsSlots
<1>9. agenda' = s \o u \o Tail(agenda) /\ At("complete") /\ spc' \notin Idling
  BY DEF Complete, Then, Idling
<1>10. {For("free", t) : t \in SlotSet} \cup Range(u) = FreeTasks \cup {Do("ts"), Do("wait")}
  BY <1>6 DEF FreeTasks, Tables
<1>11. Do("wait") \in Range(u) /\ "wait" \in Finals
  BY <1>6 DEF Finals
<1> HIDE DEF s, u, R, A
<1>12. Fits(s \o u, A \cup R, N) /\ Range(s \o u) = Range(s) \cup Range(u)
  BY <1>7, <1>8, FitsConcat
<1> DEFINE v == s \o u
           B == A \cup R
<1>13. Fits(v, B, Behind("complete")) /\ agenda' = v \o Tail(agenda)
       /\ \E x \in Range(v) : x[1] \in Finals
  BY <1>1, <1>3, <1>9, <1>11, <1>12
<1>14. Range(v) = FreeTasks \cup {Do("ts"), Do("wait")}
  BY <1>8, <1>10, <1>12
<1> HIDE DEF v, B
<1>15. Pops("complete", Range(v))
  BY <1>9, <1>13, Popped
<1> QED BY <1>14, <1>15

LEMMA RequestPops ==
    ASSUME Agenda, Request
    PROVE  /\ Of \in Tables
           /\ Pops("request", IF fid[Of] # NoFid THEN {For("free", Of), For("request", Of)} ELSE {})
<1>1. At("request") /\ Of \in Tables
  BY HeadOf DEF Request
<1>2. CASE fid[Of] # NoFid
  <2>1. agenda' = <<For("free", Of), For("request", Of)>> \o Tail(agenda) /\ spc' \notin Idling
    BY <1>2 DEF Request, Then, Idling
  <2>2. /\ For("free", Of) \in ScanTasks /\ For("request", Of) \in ScanTasks
        /\ For("free", Of)[1] = "free" /\ For("request", Of)[1] = "request"
        /\ Behind("request") \subseteq Behind("free") /\ "request" \in Behind("free")
        /\ "request" \notin Finals
    BY <1>1, TasksTyped, BehindOf DEF Finals
  <2>3. Pops("request", {For("free", Of), For("request", Of)})
    BY <1>1, <2>1, <2>2, PoppedTwo DEF Before
  <2> QED BY <1>1, <1>2, <2>3
<1>3. CASE fid[Of] = NoFid
  <2>1. agenda' = << >> \o Tail(agenda) /\ spc' \notin Idling
    BY <1>3 DEF Request, Return, Then, Idling
  <2>2. Pops("request", {})
    BY <1>1, <2>1, Returning DEF Finals
  <2> QED BY <1>1, <1>3, <2>2
<1> QED BY <1>2, <1>3

\* The filter of the slot is freed.
Arrived == fid[Of] # NoFid /\ got[Of] # "some" /\ (got[Of] # "none" \/ Of \in marked)

LEMMA FreeSlotPops ==
    ASSUME Agenda, FreeSlot
    PROVE  Of \in SlotSet /\ Pops("pmtfree", IF Arrived THEN {For("free", Of)} ELSE {})
<1>1. At("pmtfree") /\ Of \in SlotSet /\ Of \in Tables
  BY HeadOf, SlotIsTable DEF FreeSlot
<1>2. agenda' = If(Arrived, <<For("free", Of)>>) \o Tail(agenda) /\ spc' \notin Idling
  BY DEF FreeSlot, Then, Idling, Arrived
<1>3. For("free", Of) \in ScanTasks /\ Behind("pmtfree") \subseteq Behind(For("free", Of)[1])
      /\ "pmtfree" \notin Finals
  <2>1. For("free", Of) \in ScanTasks /\ For("free", Of)[1] = "free"
    BY <1>1, TasksTyped
  <2>2. Behind("pmtfree") \subseteq Behind("free")
    BY BehindOf DEF Plain
  <2> QED BY <2>1, <2>2 DEF Finals
<1> DEFINE c == Arrived
<1>4. c \in BOOLEAN /\ agenda' = If(c, <<For("free", Of)>>) \o Tail(agenda)
  BY <1>2 DEF Arrived
<1> HIDE DEF c
<1>5. Pops("pmtfree", IF c THEN {For("free", Of)} ELSE {})
  BY <1>1, <1>2, <1>3, <1>4, PoppedIf
<1> QED BY <1>1, <1>5 DEF c

\* The slots that are yet to be looked at.
Slotted(i) == IF i <= Len(Slots) THEN {<<"slot", i>>} ELSE {}

LEMMA SlotNext ==
    ASSUME Agenda, NEW op \in {"slot", "pmts"}, At(op), NEW i \in Nat \ {0},
           agenda' = NextSlot(i) \o Tail(agenda), spc' \notin Idling
    PROVE  Pops(op, Slotted(i))
<1>1. CASE i <= Len(Slots)
  <2>1. agenda' = <<<<"slot", i>>>> \o Tail(agenda)
    BY <1>1 DEF NextSlot, If
  <2>2. <<"slot", i>> \in ScanTasks /\ <<"slot", i>>[1] = "slot"
    BY <1>1, SlotIsTable DEF ScanTasks
  <2>3. Behind(op) \subseteq Behind("slot") /\ op \notin Finals
    BY BehindOf DEF Plain, Calls, Finals
  <2>4. Pops(op, {<<"slot", i>>})
    BY <2>1, <2>2, <2>3, PoppedOne
  <2> QED BY <1>1, <2>4 DEF Slotted
<1>2. CASE ~(i <= Len(Slots))
  <2>1. agenda' = << >> \o Tail(agenda)
    BY <1>2 DEF NextSlot, If
  <2>2. Pops(op, {})
    BY <2>1, Returning DEF Finals
  <2> QED BY <1>2, <2>2 DEF Slotted
<1> QED BY <1>1, <1>2

LEMMA SlotPops ==
    ASSUME Agenda
    PROVE  /\ RequestPmts => Pops("pmts", IF currTs /\ pats # NoList THEN {<<"slot", 1>>} ELSE {})
           /\ SkipSlot => Pops("slot", Slotted(Of + 1))
           /\ RequestSlot => Pops("slot", Slotted(Of + 1)) \/ Pops("slot", {})
<1>1. ASSUME RequestPmts
      PROVE  Pops("pmts", IF currTs /\ pats # NoList THEN {<<"slot", 1>>} ELSE {})
  <2>1. At("pmts") /\ spc' \notin Idling
    BY <1>1 DEF RequestPmts, Then, Idling
  <2>2. CASE currTs /\ pats # NoList
    <3>1. agenda' = NextSlot(1) \o Tail(agenda)
      BY <1>1, <2>2 DEF RequestPmts, Then, If
    <3>2. Pops("pmts", Slotted(1))
      BY <2>1, <3>1, SlotNext
    <3>3. Slotted(1) = {<<"slot", 1>>}
      BY SlotIsTable DEF Slotted
    <3> QED BY <2>2, <3>2, <3>3
  <2>3. CASE ~(currTs /\ pats # NoList)
    <3>1. agenda' = << >> \o Tail(agenda)
      BY <1>1, <2>3 DEF RequestPmts, Then, If
    <3>2. Pops("pmts", {})
      BY <2>1, <3>1, Returning DEF Finals
    <3> QED BY <2>3, <3>2
  <2> QED BY <2>2, <2>3
<1>2. ASSUME At("slot"), Then(NextSlot(Of + 1))
      PROVE  Pops("slot", Slotted(Of + 1))
  <2>1. Of + 1 \in Nat \ {0}
    BY <1>2, HeadOf, SlotIsTable
  <2> QED BY <1>2, <2>1, SlotNext DEF Then, Idling
<1>3. SkipSlot => Pops("slot", Slotted(Of + 1))
  BY <1>2 DEF SkipSlot
<1>4. ASSUME RequestSlot
      PROVE  Pops("slot", Slotted(Of + 1)) \/ Pops("slot", {})
  <2>1. At("slot") /\ (Then(NextSlot(Of + 1)) \/ Return \/ Signal(<< >>))
    BY <1>4 DEF RequestSlot
  <2>2. Return \/ Signal(<< >>) => Pops("slot", {})
    BY <2>1, Returning DEF Return, Then, Signal, Idling, Finals
  <2> QED BY <1>2, <2>1, <2>2
<1> QED BY <1>1, <1>3, <1>4

Emptying(state) == Agenda' /\ Pending' = {} /\ agenda' = << >> /\ spc' = state

LEMMA DonePops ==
    ASSUME Agenda
    PROVE  /\ PatDone => IF currTs THEN Pops("done", {Do("patlist"), Do("pmts")})
                                  ELSE Emptying("crashed")
           /\ SdtDone => IF currTs THEN Pops("done", {}) ELSE Emptying("crashed")
           /\ NitFound => Pops("done", IF recv' = {} THEN {Do("ts")} ELSE {})
<1>1. ASSUME PatDone, currTs
      PROVE  Pops("done", {Do("patlist"), Do("pmts")})
  <2>1. At("done") /\ agenda' = <<Do("patlist"), Do("pmts")>> \o Tail(agenda) /\ spc' \notin Idling
    BY <1>1 DEF PatDone, Freed, Signal, Idling
  <2>2. /\ Do("patlist") \in ScanTasks /\ Do("patlist")[1] = "patlist"
        /\ Do("pmts") \in ScanTasks /\ Do("pmts")[1] = "pmts"
        /\ Behind("done") \subseteq Behind("patlist") /\ Behind("done") \subseteq Behind("pmts")
        /\ "pmts" \in Behind("patlist")
    BY CallsTyped, BehindOf DEF Events, Later
  <2> QED BY <2>1, <2>2, PoppedTwo DEF Before, Finals
<1>2. Crash => Emptying("crashed")
  BY Emptied DEF Crash, Emptying, Idling
<1>3. ASSUME SdtDone, currTs
      PROVE  Pops("done", {})
  BY <1>3, Returning DEF SdtDone, Freed, Signal, Idling, Finals
<1>4. ASSUME NitFound
      PROVE  Pops("done", IF recv' = {} THEN {Do("ts")} ELSE {})
  <2>1. At("done")
    BY <1>4 DEF NitFound, Freed
  <2>2. CASE recv' = {}
    <3>1. agenda' = <<Do("ts")>> \o Tail(agenda) /\ spc' \notin Idling
      BY <1>4, <2>2 DEF NitFound, Signal, Idling
    <3>2. Do("ts") \in ScanTasks /\ Do("ts")[1] = "ts" /\ Behind("done") \subseteq Behind("ts")
      BY CallsTyped, BehindOf DEF Events
    <3>3. Pops("done", {Do("ts")})
      BY <2>1, <3>1, <3>2, PoppedOne DEF Finals
    <3> QED BY <2>2, <3>3
  <2>3. CASE recv' # {}
    <3>1. agenda' = << >> \o Tail(agenda) /\ spc' \notin Idling
      BY <1>4, <2>3 DEF NitFound, Return, Then, Idling
    <3>2. Pops("done", {})
      BY <2>1, <3>1, Returning DEF Finals
    <3> QED BY <2>3, <3>2
  <2> QED BY <2>2, <2>3
<1> QED BY <1>1, <1>2, <1>3, <1>4 DEF PatDone, SdtDone

LEMMA Pair ==
    ASSUME NEW x, NEW z
    PROVE  <<x>> \o <<z>> = <<x, z>>
<1> DEFINE S == {x, z}
           a == <<x>>
           b == <<z>>
           c == <<x, z>>
<1>1. /\ a \in Seq(S) /\ b \in Seq(S) /\ c \in Seq(S) /\ Len(a) = 1 /\ Len(b) = 1 /\ Len(c) = 2
      /\ a[1] = x /\ b[1] = z /\ c[1] = x /\ c[2] = z
  OBVIOUS
<1> HIDE DEF S, a, b, c
<1>2. /\ a \o b \in Seq(S) /\ Len(a \o b) = 2
      /\ (a \o b)[1] = a[1] /\ (a \o b)[2] = b[1]
  BY <1>1, ConcatProperties
<1>3. \A i \in 1 .. Len(c) : (a \o b)[i] = c[i]
  BY <1>1, <1>2
<1>4. a \o b = c
  BY <1>1, <1>2, <1>3, SeqEqual
<1> QED BY <1>4 DEF a, b, c

LEMMA StartTsPops ==
    ASSUME Agenda, StartTs
    PROVE  Pops("ts", IF curr >= 0 THEN {Do("window"), Do("leave")} ELSE {Do("leave")})
<1>1. /\ At("ts") /\ spc' \notin Idling
      /\ agenda' = If(curr >= 0, <<Do("window")>>) \o <<Do("leave")>> \o Tail(agenda)
  BY DEF StartTs, Idling
<1>2. /\ Do("window") \in ScanTasks /\ Do("window")[1] = "window"
      /\ Do("leave") \in ScanTasks /\ Do("leave")[1] = "leave"
      /\ Behind("ts") \subseteq Behind("window") /\ Behind("ts") \subseteq Behind("leave")
      /\ "leave" \in Behind("window") /\ "ts" \notin Finals
  <2>1. Do("window") \in ScanTasks /\ Do("window")[1] = "window"
    BY TasksTyped DEF Calls
  <2>2. Behind("ts") = Later /\ Behind("leave") = Later
        /\ Behind("window") = Later \cup {"begin", "leave", "unsub"}
    BY CallsTyped, BehindOf
  <2> QED BY <2>1, <2>2, CallsTyped DEF Finals
<1>3. CASE curr >= 0
  <2>1. If(curr >= 0, <<Do("window")>>) \o <<Do("leave")>> = <<Do("window"), Do("leave")>>
    <3>1. If(curr >= 0, <<Do("window")>>) = <<Do("window")>>
      BY <1>3 DEF If
    <3>2. \A x, z : <<x>> \o <<z>> = <<x, z>>
      BY Pair
    <3> QED BY <3>1, <3>2
  <2>2. agenda' = <<Do("window"), Do("leave")>> \o Tail(agenda)
    BY <1>1, <2>1
  <2>3. Pops("ts", {Do("window"), Do("leave")})
    BY <1>1, <1>2, <2>2, PoppedTwo DEF Before
  <2> QED BY <1>3, <2>3
<1>4. CASE ~(curr >= 0)
  <2>1. If(curr >= 0, <<Do("window")>>) \o <<Do("leave")>> = <<Do("leave")>>
    BY <1>4 DEF If
  <2>2. agenda' = <<Do("leave")>> \o Tail(agenda)
    BY <1>1, <2>1
  <2>3. Pops("ts", {Do("leave")})
    BY <1>1, <1>2, <2>2, PoppedOne
  <2> QED BY <1>4, <2>3
<1> QED BY <1>3, <1>4

LEMMA TunePops ==
    ASSUME Agenda
    PROVE  /\ NextFreq => Pops("next", IF curr + 1 >= cnt THEN {} ELSE {Do("tune")})
           /\ Tune => Pops("tune", {}) \/ Pops("tune", {Do("next")})
           /\ FendEvent => Pops("fend", IF FendExpected THEN {Do("status")} ELSE {})
           /\ NotLocked => Pops("status", IF stage = "nit" THEN {Do("trynit")}
                                          ELSE IF stage = "ts" THEN {Do("ts")} ELSE {})
<1>0. /\ Do("tune") \in ScanTasks /\ Do("tune")[1] = "tune" /\ Do("next") \in ScanTasks
      /\ Do("next")[1] = "next" /\ Do("status") \in ScanTasks /\ Do("status")[1] = "status"
      /\ Do("trynit") \in ScanTasks /\ Do("trynit")[1] = "trynit" /\ Do("ts") \in ScanTasks
      /\ Do("ts")[1] = "ts"
      /\ \A op \in {"next", "tune", "fend", "status", "trynit", "ts"} :
            Behind(op) \subseteq Later /\ op \notin Finals /\ (op # "fend" => Behind(op) = Later)
  BY CallsTyped DEF Finals, Events
<1>1. ASSUME NextFreq
      PROVE  Pops("next", IF curr + 1 >= cnt THEN {} ELSE {Do("tune")})
  <2>1. CASE curr + 1 >= cnt
    <3>1. At("next") /\ agenda' = << >> \o Tail(agenda) /\ spc' \notin Idling
      BY <1>1, <2>1 DEF NextFreq, AllDone, Signal, Idling
    <3> QED BY <1>0, <2>1, <3>1, Returning
  <2>2. CASE ~(curr + 1 >= cnt)
    <3>1. At("next") /\ agenda' = <<Do("tune")>> \o Tail(agenda) /\ spc' \notin Idling
      BY <1>1, <2>2 DEF NextFreq, Signal, Idling
    <3>2. Pops("next", {Do("tune")})
      BY <1>0, <3>1, PoppedOne
    <3> QED BY <2>2, <3>2
  <2> QED BY <2>1, <2>2
<1>2. ASSUME Tune
      PROVE  Pops("tune", {}) \/ Pops("tune", {Do("next")})
  <2>1. /\ At("tune") /\ spc' \notin Idling
        /\ agenda' = << >> \o Tail(agenda) \/ agenda' = <<Do("next")>> \o Tail(agenda)
    BY <1>2 DEF Tune, Return, Then, Signal, Idling
  <2>2. agenda' = << >> \o Tail(agenda) => Pops("tune", {})
    BY <1>0, <2>1, Returning
  <2>3. agenda' = <<Do("next")>> \o Tail(agenda) => Pops("tune", {Do("next")})
    BY <1>0, <2>1, PoppedOne
  <2> QED BY <2>1, <2>2, <2>3
<1>3. ASSUME FendEvent
      PROVE  Pops("fend", IF FendExpected THEN {Do("status")} ELSE {})
  <2>1. CASE FendExpected
    <3>1. At("fend") /\ agenda' = <<Do("status")>> \o Tail(agenda) /\ spc' \notin Idling
      BY <1>3, <2>1 DEF FendEvent, Signal, Idling
    <3>2. Pops("fend", {Do("status")})
      BY <1>0, <3>1, PoppedOne
    <3> QED BY <2>1, <3>2
  <2>2. CASE ~FendExpected
    <3>1. At("fend") /\ agenda' = << >> \o Tail(agenda) /\ spc' \notin Idling
      BY <1>3, <2>2 DEF FendEvent, Return, Then, Idling
    <3>2. Pops("fend", {})
      BY <1>0, <3>1, Returning
    <3> QED BY <2>2, <3>2
  <2> QED BY <2>1, <2>2
<1>4. ASSUME NotLocked
      PROVE  Pops("status", IF stage = "nit" THEN {Do("trynit")}
                            ELSE IF stage = "ts" THEN {Do("ts")} ELSE {})
  <2>1. /\ At("status") /\ spc' \notin Idling
        /\ agenda' = If(stage = "nit", <<Do("trynit")>>) \o If(stage = "ts", <<Do("ts")>>)
                     \o Tail(agenda)
    BY <1>4 DEF NotLocked, Then, Idling
  <2>2. CASE stage = "nit"
    <3>1. agenda' = <<Do("trynit")>> \o Tail(agenda)
      <4>1. If(stage = "nit", <<Do("trynit")>>) \o If(stage = "ts", <<Do("ts")>>) = <<Do("trynit")>>
        BY <2>2 DEF If
      <4> QED BY <2>1, <4>1
    <3>2. Pops("status", {Do("trynit")})
      BY <1>0, <2>1, <3>1, PoppedOne
    <3> QED BY <2>2, <3>2
  <2>3. CASE stage = "ts"
    <3>1. agenda' = <<Do("ts")>> \o Tail(agenda)
      <4>1. If(stage = "nit", <<Do("trynit")>>) \o If(stage = "ts", <<Do("ts")>>) = <<Do("ts")>>
        BY <2>3 DEF If
      <4> QED BY <2>1, <4>1
    <3>2. Pops("status", {Do("ts")})
      BY <1>0, <2>1, <3>1, PoppedOne
    <3> QED BY <2>3, <3>2
  <2>4. CASE stage \notin {"nit", "ts"}
    <3>1. agenda' = << >> \o Tail(agenda)
      <4>1. If(stage = "nit", <<Do("trynit")>>) \o If(stage = "ts", <<Do("ts")>>) = << >>
        BY <2>4 DEF If
      <4> QED BY <2>1, <4>1
    <3>2. Pops("status", {})
      BY <1>0, <2>1, <3>1, Returning
    <3> QED BY <2>4, <3>2
  <2> QED BY <2>2, <2>3, <2>4
<1> QED BY <1>1, <1>2, <1>3, <1>4

LEMMA LockedPops ==
    ASSUME Agenda, LockedForTs
    PROVE  Pops("status", {For("request", "pat"), For("request", "sdt")}
                          \cup IF plan.source = "terrestrial" THEN {For("request", "nit")} ELSE {})
<1> DEFINE s == <<For("request", "pat"), For("request", "sdt")>>
           x == For("request", "nit")
           c == plan.source = "terrestrial"
           z == If(c, <<x>>)
           A == {"request"}
           R == Later
<1>1. /\ For("request", "pat") \in ScanTasks /\ For("request", "sdt") \in ScanTasks
      /\ x \in ScanTasks /\ For("request", "pat")[1] = "request"
      /\ For("request", "sdt")[1] = "request" /\ x[1] = "request"
  BY TasksTyped DEF Tables
<1>2. Behind("request") = Later \cup {"request"} /\ Behind("status") = Later
      /\ "status" \notin Finals
  BY BehindOf, CallsTyped DEF Finals
<1>3. Fits(s, {"request"}, Later \cup {"request"})
      /\ Range(s) = {For("request", "pat"), For("request", "sdt")}
  <2>1. For("request", "pat")[1] = "request" /\ For("request", "sdt")[1] = "request"
        /\ Later \cup {"request"} \subseteq Behind("request")
        /\ Before(For("request", "pat"), For("request", "sdt"))
    BY <1>1, <1>2 DEF Before
  <2>2. /\ Fits(s, {For("request", "pat")[1], For("request", "sdt")[1]}, Later \cup {"request"})
        /\ Range(s) = {For("request", "pat"), For("request", "sdt")}
    BY <1>1, <2>1, PairFits
  <2> QED BY <2>1, <2>2
<1>4. c \in BOOLEAN /\ x \in ScanTasks /\ x[1] \in A /\ R \subseteq Behind(x[1])
  BY <1>1, <1>2
<1>5. At("status") /\ spc' \notin Idling /\ agenda' = s \o z \o Tail(agenda)
  BY DEF LockedForTs, Then, Idling
<1>6. Fits(s, A, R \cup A)
  BY <1>3
<1> HIDE DEF s, x, c, A, R
<1>7. Fits(<<x>>, A, R) /\ Range(<<x>>) = {x}
  BY <1>4, FitsOne
<1> DEFINE v == <<x>>
<1>8. Fits(v, A, R) /\ Range(v) = {x} /\ z = If(c, v)
  BY <1>7
<1> HIDE DEF v, z
<1>9. Fits(z, A, R) /\ Range(z) = IF c THEN {x} ELSE {}
  BY <1>4, <1>8, FitsIf
<1>10. Fits(s \o z, A, R) /\ Range(s \o z) = Range(s) \cup Range(z)
  <2> DEFINE Q == R \cup A
  <2>1. Fits(s, A, Q) /\ Fits(z, A, R) /\ A \subseteq Q /\ R \subseteq Q /\ A \subseteq A
    BY <1>6, <1>9
  <2> HIDE DEF Q
  <2>2. Join(s, z, A, R)
    BY <2>1, FitsJoin
  <2> QED BY <2>2 DEF Join
<1> DEFINE w == s \o z
           B == A
<1>11. Fits(w, B, R) /\ Range(w) = Range(s) \cup Range(z) /\ agenda' = w \o Tail(agenda)
  BY <1>5, <1>10
<1> HIDE DEF w, B
<1>12. Pops("status", Range(w))
  BY <1>2, <1>5, <1>11, Popped DEF R
<1> QED BY <1>3, <1>9, <1>11, <1>12 DEF x, c

Begins == {CASE mode = "auto" -> Do("trynit") [] mode = "blind" -> Do("bs") [] OTHER -> Do("ts")}

LEMMA BeginPops ==
    ASSUME Agenda
    PROVE  /\ Begin => Pops("begin", Begins)
           /\ StartBlind => Pops("bs", {}) \/ Pops("bs", {Do("bs")}) \/ Pops("bs", {Do("ts")})
<1>1. /\ Do("trynit") \in ScanTasks /\ Do("trynit")[1] = "trynit"
      /\ Do("bs") \in ScanTasks /\ Do("bs")[1] = "bs"
      /\ Do("ts") \in ScanTasks /\ Do("ts")[1] = "ts"
      /\ \A op \in {"begin", "trynit", "bs", "ts"} : Behind(op) = Later /\ op \notin Finals
  BY CallsTyped DEF Finals
<1>2. ASSUME Begin
      PROVE  Pops("begin", Begins)
  <2> DEFINE x == CASE mode = "auto" -> Do("trynit") [] mode = "blind" -> Do("bs") [] OTHER -> Do("ts")
  <2>1. x \in ScanTasks /\ x[1] \in {"trynit", "bs", "ts"}
    BY <1>1
  <2>2. At("begin") /\ spc' \notin Idling /\ agenda' = <<x>> \o Tail(agenda) /\ Begins = {x}
    BY <1>2 DEF Begin, Begins, Then, Idling
  <2> HIDE DEF x
  <2> QED BY <1>1, <2>1, <2>2, PoppedOne
<1>3. ASSUME StartBlind
      PROVE  Pops("bs", {}) \/ Pops("bs", {Do("bs")}) \/ Pops("bs", {Do("ts")})
  <2>1. /\ At("bs") /\ spc' \notin Idling
        /\ \/ agenda' = << >> \o Tail(agenda)
           \/ agenda' = <<Do("bs")>> \o Tail(agenda)
           \/ agenda' = <<Do("ts")>> \o Tail(agenda)
    BY <1>3 DEF StartBlind, Return, Then, Signal, Idling
  <2>2. agenda' = << >> \o Tail(agenda) => Pops("bs", {})
    BY <1>1, <2>1, Returning
  <2>3. agenda' = <<Do("bs")>> \o Tail(agenda) => Pops("bs", {Do("bs")})
    BY <1>1, <2>1, PoppedOne
  <2>4. agenda' = <<Do("ts")>> \o Tail(agenda) => Pops("bs", {Do("ts")})
    BY <1>1, <2>1, PoppedOne
  <2> QED BY <2>1, <2>2, <2>3, <2>4
<1> QED BY <1>2, <1>3

LEMMA QuitPops ==
    ASSUME Agenda, Quit, started \in BOOLEAN
    PROVE  /\ At("quit") /\ Heads("quit") /\ Agenda'
           /\ Pending' = {Do("window"), Do("unsub")} \cup IF started THEN {Do("stop")} ELSE {}
<1> DEFINE s == <<Do("stop")>>
           c == started
           r == If(c, s)
           z == <<Do("window"), Do("unsub")>>
           A == {"stop"}
           B == {"window", "unsub"}
           N == {}
<1>1. /\ Do("stop") \in ScanTasks /\ Do("stop")[1] = "stop"
      /\ Do("window") \in ScanTasks /\ Do("window")[1] = "window"
      /\ Do("unsub") \in ScanTasks /\ Do("unsub")[1] = "unsub"
  BY TasksTyped DEF Calls, Finals
<1>2. Behind("stop") = {"window", "unsub"} /\ "unsub" \in Behind("window")
  BY BehindOf
<1>3. Fits(s, A, N \cup B) /\ Range(s) = {Do("stop")}
  <2>1. Do("stop")[1] \in A /\ N \cup B \subseteq Behind(Do("stop")[1])
    BY <1>1, <1>2
  <2> HIDE DEF A, N, B
  <2> QED BY <1>1, <2>1, FitsOne
<1>4. Fits(z, B, N) /\ Range(z) = {Do("window"), Do("unsub")}
  <2>1. Fits(z, {Do("window")[1], Do("unsub")[1]}, {}) /\ Range(z) = {Do("window"), Do("unsub")}
    BY <1>1, <1>2, PairFits DEF Before
  <2> QED BY <1>1, <2>1
<1>5. At("quit") /\ agenda' = r \o z /\ spc' \notin Idling /\ c \in BOOLEAN
  BY DEF Quit, Idling
<1>6. Do("unsub") \in Range(z) /\ Do("unsub")[1] \in Finals
  BY <1>1, <1>4 DEF Finals
<1> HIDE DEF s, r, z, A, B, N, c
<1>7. Fits(r, A, N \cup B) /\ Range(r) = IF c THEN {Do("stop")} ELSE {}
  <2> DEFINE R == N \cup B
  <2>1. Fits(s, A, R)
    BY <1>3
  <2> HIDE DEF R
  <2>2. Fits(r, A, R) /\ Range(r) = IF c THEN Range(s) ELSE {}
    BY <1>5, <2>1, FitsIf DEF r
  <2> QED BY <1>3, <2>2 DEF R
<1>8. Fits(r \o z, A \cup B, N) /\ Range(r \o z) = Range(r) \cup Range(z)
  <2> DEFINE Q == N \cup B
             C == A \cup B
  <2>1. Fits(r, A, Q) /\ Fits(z, B, N) /\ B \subseteq Q /\ N \subseteq Q /\ A \subseteq C /\ B \subseteq C
    BY <1>4, <1>7
  <2> HIDE DEF Q, C
  <2>2. Fits(r \o z, C, N) /\ Range(r \o z) = Range(r) \cup Range(z)
    <3>1. Join(r, z, C, N)
      BY <2>1, FitsJoin
    <3> QED BY <3>1 DEF Join
  <2> QED BY <2>2 DEF C
<1> DEFINE w == r \o z
           D == A \cup B
<1>9. Fits(w, D, N) /\ Range(w) = Range(r) \cup Range(z) /\ agenda' = w
  BY <1>5, <1>8
<1> HIDE DEF w, D
<1>10. Agenda' /\ Pending' = Range(w)
  BY <1>5, <1>6, <1>9, Replaced
<1>11. Heads("quit")
  BY <1>5, HeadTask
<1> QED BY <1>4, <1>5, <1>7, <1>9, <1>10, <1>11 DEF c

\* A set of natural numbers has a least one.
LEMMA Least ==
    ASSUME NEW T \in SUBSET Nat, T # {}
    PROVE  \E m \in T : \A k \in T : m <= k
<1> DEFINE D == {0 .. k : k \in T}
           R == StrictSubsetOrdering(Nat)
<1>1. D \subseteq FiniteSubsetsOf(Nat)
  <2>1. \A k \in T : IsFiniteSet(0 .. k) /\ 0 .. k \in SUBSET Nat
    BY FS_Interval
  <2> QED BY <2>1 DEF FiniteSubsetsOf
<1>2. IsWellFoundedOn(R, FiniteSubsetsOf(Nat))
  BY FS_StrictSubsetOrderingWellFounded
<1>3. PICK X \in D : \A Y \in D : ~ (<<Y, X>> \in R)
  <2>1. D # {}
    OBVIOUS
  <2> HIDE DEF R, D
  <2> QED BY <1>1, <1>2, <2>1, WFMin
<1>4. PICK m \in T : X = 0 .. m
  BY <1>3
<1>5. ASSUME NEW k \in T, k < m PROVE FALSE
  <2>1. 0 .. k \in D
    OBVIOUS
  <2>2. 0 .. k \subseteq 0 .. m /\ m \in 0 .. m /\ m \notin 0 .. k
    BY <1>5
  <2>3. <<0 .. k, 0 .. m>> \in R
    BY <2>2 DEF StrictSubsetOrdering
  <2> QED BY <2>1, <2>3, <1>3, <1>4
<1> QED BY <1>5

\* The tasks for a table whose time is up, at place j of the order.
LateTasks(j) == DoneTasks(Order[j]) \cup {For("recheck", Order[j]), <<"check", j + 1>>}

LEMMA CheckPops ==
    ASSUME Agenda, Check
    PROVE  /\ At("check") /\ Heads("check") /\ Of \in 1 .. Len(Slots) + 4 /\ Agenda'
           /\ ReadsNull(Of) => Pending' = {} /\ spc' = "crashed"
           /\ ~ReadsNull(Of) /\ Late(Of) = {} => Pending' = {Do("complete")}
           /\ ~ReadsNull(Of) /\ Late(Of) # {} =>
                 LET j == First(Late(Of)) IN
                 /\ j \in Late(Of) /\ \A k \in Late(Of) : j <= k
                 /\ j \in Of .. Len(Order) /\ Order[j] \in Tables
                 /\ Pending' = LateTasks(j)
<1>1. /\ At("check") /\ Heads("check") /\ Of \in 1 .. Len(Slots) + 4
  BY HeadOf, HeadTask DEF Check
<1>2. /\ "check" \in Finals /\ "complete" \in Finals /\ Behind("check") = {}
      /\ ~ReadsNull(Of) => spc' = "run"
  BY BehindOf DEF Check, Then, Finals
<1>3. Rest = {}
  BY <1>1, <1>2 DEF Heads
<1>4. ASSUME ~ReadsNull(Of), Late(Of) = {}
      PROVE  Agenda' /\ Pending' = {Do("complete")}
  <2>1. agenda' = <<Do("complete")>> \o Tail(agenda)
    BY <1>4 DEF Check, Then
  <2>2. Do("complete") \in ScanTasks /\ Do("complete")[1] = "complete"
    BY TasksTyped DEF Finals
  <2>3. Pops("check", {Do("complete")})
    BY <1>1, <1>2, <1>4, <2>1, <2>2, PoppedOne DEF Idling
  <2> QED BY <1>3, <2>3 DEF Pops
<1>5. ASSUME ~ReadsNull(Of), Late(Of) # {}
      PROVE  LET j == First(Late(Of)) IN
                 /\ j \in Late(Of) /\ \A k \in Late(Of) : j <= k
                 /\ j \in Of .. Len(Order) /\ Order[j] \in Tables
                 /\ Agenda' /\ Pending' = LateTasks(j)
  <2> DEFINE S == Late(Of)
             j == First(S)
             t == Order[j]
             s == Done(t)
             x == For("recheck", t)
             y == <<"check", j + 1>>
             z == <<x, y>>
  <2>1. S \subseteq Of .. Len(Order) /\ S \in SUBSET Nat
    <3>1. S \subseteq Of .. Len(Order)
      BY DEF Late, LookedAt
    <3> QED BY <1>1, <3>1, SlotIsTable
  <2>2. j \in S /\ \A k \in S : j <= k
    <3>1. \E m \in S : \A k \in S : m <= k
      BY <1>5, <2>1, Least
    <3> QED BY <3>1 DEF First
  <2>3. j \in Of .. Len(Order) /\ t \in Tables /\ j + 1 \in 1 .. Len(Slots) + 4
    <3>1. j \in Of .. Len(Order) /\ j \in 1 .. Len(Order)
      BY <1>1, <2>1, <2>2, SlotIsTable
    <3> QED BY <3>1, SlotIsTable
  <2>4. agenda' = s \o z \o Tail(agenda)
    <3>1. agenda' = (Done(t) \o <<For("recheck", t), <<"check", j + 1>>>>) \o Tail(agenda)
      BY <1>5 DEF Check, Then
    <3> QED BY <3>1
  <2>5. x \in ScanTasks /\ y \in ScanTasks /\ x[1] = "recheck" /\ y[1] = "check"
    <3>1. x \in ScanTasks /\ x[1] = "recheck"
      BY <2>3, TasksTyped
    <3>2. y \in ScanTasks
      BY <2>3 DEF ScanTasks
    <3> QED BY <3>1, <3>2
  <2>6. Range(s) = DoneTasks(t) /\ Fits(s, {"pmtfree", "pmts", "done"}, Events)
    BY <2>3, DoneFits
  <2> DEFINE A == {"pmtfree", "pmts", "done"}
             B == {"recheck", "check"}
             C == A \cup B
             N == {}
             Q == Events
  <2>7. Fits(z, B, N) /\ Range(z) = {x, y}
    <3>1. Before(x, y) /\ N \subseteq Behind(x[1]) /\ N \subseteq Behind(y[1]) /\ B = {x[1], y[1]}
      BY <2>5, BehindOf DEF Before, Plain, Later
    <3> HIDE DEF x, y, N
    <3>2. Fits(z, {x[1], y[1]}, N) /\ Range(z) = {x, y}
      BY <2>5, <3>1, PairFits
    <3> QED BY <3>1, <3>2
  <2>8. Fits(s, A, Q) /\ B \subseteq Q /\ N \subseteq Q /\ A \subseteq C /\ B \subseteq C
    BY <2>6 DEF Events, Later
  <2>9. LateTasks(j) = DoneTasks(t) \cup {x, y}
    BY DEF LateTasks
  <2> HIDE DEF S, j, t, s, x, y, z, A, B, C, N, Q
  <2>10. Join(s, z, C, N)
    BY <2>7, <2>8, FitsJoin
  <2> DEFINE w == s \o z
  <2>11. Fits(w, C, N) /\ Range(w) = DoneTasks(t) \cup {x, y} /\ agenda' = w \o Tail(agenda)
    BY <2>4, <2>6, <2>7, <2>10 DEF Join
  <2>12. \E v \in Range(w) : v[1] \in Finals
    BY <1>2, <2>5, <2>11
  <2> HIDE DEF w
  <2>13. Pops("check", Range(w))
    <3>1. Behind("check") = N
      BY <1>2 DEF N
    <3>2. Fits(w, C, Behind("check"))
      BY <2>11, <3>1
    <3> QED BY <1>1, <1>2, <1>5, <2>11, <2>12, <3>2, Popped DEF Idling
  <2> QED BY <1>3, <2>2, <2>3, <2>9, <2>11, <2>13 DEF Pops, S, j, t
<1>6. ReadsNull(Of) => Agenda' /\ Pending' = {} /\ spc' = "crashed"
  BY Emptied DEF Check, Crash, Idling
<1> QED BY <1>1, <1>4, <1>5, <1>6

LEMMA PassPops ==
    ASSUME NEW late, BeginPass(late)
    PROVE  Agenda' /\ Pending' = {<<"check", 1>>}
<1> DEFINE x == <<"check", 1>>
           s == <<x>>
           A == {"check"}
           R == {}
<1>1. x \in ScanTasks /\ x[1] \in A /\ R \subseteq Behind(x[1]) /\ x[1] \in Finals
  BY SlotIsTable DEF ScanTasks, Finals
<1>2. agenda' = s /\ spc' \notin Idling
  BY DEF BeginPass, Idling
<1> HIDE DEF x, A, R
<1>3. Fits(<<x>>, A, R) /\ Range(<<x>>) = {x}
  BY <1>1, FitsOne
<1>4. Fits(s, A, R) /\ Range(s) = {x} /\ \E y \in Range(s) : y[1] \in Finals
  BY <1>1, <1>3
<1> HIDE DEF s
<1>5. Agenda' /\ Pending' = Range(s)
  BY <1>2, <1>4, Replaced
<1> QED BY <1>4, <1>5 DEF x

LEMMA HandlePops ==
    ASSUME NEW e, agenda' = Handle(e), spc' \notin Idling, started \in BOOLEAN
    PROVE  Agenda' /\ Pending' = HandleTasks(e)
<1> DEFINE s == Handle(e)
           R == {}
<1>1. Fits(s, Ops, R) /\ Range(s) = HandleTasks(e) /\ \E x \in Range(s) : x[1] \in Finals
  BY HandleFits
<1> HIDE DEF s, R
<1>2. agenda' = s
  BY DEF s
<1>3. Agenda' /\ Pending' = Range(s)
  BY <1>1, <1>2, Replaced
<1> QED BY <1>1, <1>3

\* There is nothing behind the last task.
LEMMA LastTask ==
    ASSUME Agenda, NEW op \in Finals, At(op)
    PROVE  Pending = {<<op, Of>>} /\ agenda # << >>
<1>1. Heads(op)
  BY HeadTask
<1> QED BY <1>1 DEF Heads

LEMMA EventPops ==
    ASSUME Agenda, started \in BOOLEAN
    PROVE  /\ Wait => /\ spc = "run" /\ \E op \in {"wait", "complete"} : Pending = {<<op, Of>>}
                      /\ IF evt = {} THEN Emptying("wait")
                         ELSE Agenda' /\ Pending' = HandleTasks(evt) /\ spc' = "run"
           /\ Woken => Pending = {} /\ Agenda' /\ Pending' = HandleTasks(evt)
           /\ TimedOut => Pending = {} /\ Agenda' /\ Pending' = {<<"check", 1>>}
           /\ Clear => /\ spc = "run" /\ Pending = {<<"clear", Of>>} /\ Agenda' /\ spc' = "run"
                       /\ Pending' = IF evt' = {} THEN {<<"check", 1>>} ELSE HandleTasks(evt')
<1>1. spc = "wait" => Pending = {}
  BY FitsNone DEF Agenda, Idling, Pending
<1>2. ASSUME Wait
      PROVE  /\ spc = "run" /\ \E op \in {"wait", "complete"} : Pending = {<<op, Of>>}
             /\ IF evt = {} THEN Emptying("wait")
                ELSE Agenda' /\ Pending' = HandleTasks(evt) /\ spc' = "run"
  <2>1. \E op \in {"wait", "complete"} : At(op) /\ op \in Finals
    BY <1>2 DEF Wait, Finals
  <2>2. spc = "run" /\ \E op \in {"wait", "complete"} : Pending = {<<op, Of>>}
    BY <2>1, LastTask DEF At
  <2>3. CASE evt = {}
    <3>1. agenda' = << >> /\ spc' = "wait"
      BY <1>2, <2>3 DEF Wait
    <3>2. Emptying("wait")
      BY <3>1, Emptied DEF Emptying, Idling
    <3> QED BY <2>2, <2>3, <3>2
  <2>4. CASE evt # {}
    <3>1. agenda' = Handle(evt) /\ spc' = "run"
      BY <1>2, <2>2, <2>4 DEF Wait
    <3> QED BY <2>2, <2>4, <3>1, HandlePops DEF Idling
  <2> QED BY <2>3, <2>4
<1>3. ASSUME Woken
      PROVE  Pending = {} /\ Agenda' /\ Pending' = HandleTasks(evt)
  BY <1>1, <1>3, HandlePops DEF Woken, Idling
<1>4. ASSUME TimedOut
      PROVE  Pending = {} /\ Agenda' /\ Pending' = {<<"check", 1>>}
  BY <1>1, <1>4, PassPops DEF TimedOut
<1>5. ASSUME Clear
      PROVE  /\ spc = "run" /\ Pending = {<<"clear", Of>>} /\ Agenda' /\ spc' = "run"
             /\ Pending' = IF evt' = {} THEN {<<"check", 1>>} ELSE HandleTasks(evt')
  <2>1. At("clear") /\ spc = "run" /\ "clear" \in Finals
    BY <1>5 DEF Clear, At, Finals
  <2>2. Pending = {<<"clear", Of>>}
    BY <2>1, LastTask
  <2>3. CASE evt' = {}
    <3>1. PICK late : BeginPass(late)
      BY <1>5, <2>3 DEF Clear
    <3>2. Agenda' /\ Pending' = {<<"check", 1>>} /\ spc' = "run"
      BY <3>1, PassPops DEF BeginPass
    <3> QED BY <2>1, <2>2, <2>3, <3>2
  <2>4. CASE evt' # {}
    <3> DEFINE e == evt'
    <3>1. agenda' = Handle(e) /\ spc' = "run"
      BY <1>5, <2>1, <2>4 DEF Clear
    <3> HIDE DEF e
    <3>2. Agenda' /\ Pending' = HandleTasks(e)
      BY <3>1, HandlePops DEF Idling
    <3> QED BY <2>1, <2>2, <2>4, <3>1, <3>2 DEF e
  <2> QED BY <2>3, <2>4
<1> QED BY <1>2, <1>3, <1>4, <1>5

LEMMA OtherPops ==
    ASSUME Agenda
    PROVE  /\ Resume => spc = "window" /\ Agenda' /\ Pending' = Pending
           /\ Free => IF At("free") THEN Pops("free", {}) ELSE Agenda' /\ Pending' = Pending
           /\ Synced => spc = "sync" /\ Agenda' /\ Pending' = Pending
           /\ Resumed => spc = "paused" /\ Agenda' /\ Pending' = Pending
           /\ Joined => spc \in {"join", "exit"} /\ Agenda' /\ Pending' = Pending
           /\ Unlock => At("unsub") /\ Heads("unsub") /\ Emptying("unsub")
           /\ Unsubscribe => spc = "unsub" /\ Agenda' /\ Pending' = Pending
           /\ UNCHANGED <<spc, agenda>> => Agenda' /\ Pending' = Pending
<1>1. /\ Resume => agenda' = agenda /\ spc = "window" /\ spc' = "run"
      /\ Synced => agenda' = agenda /\ spc = "sync" /\ spc' = "run"
      /\ Resumed => agenda' = agenda /\ spc = "paused" /\ spc' = "run"
      /\ Joined => agenda' = agenda /\ spc \in {"join", "exit"} /\ spc' = "run"
      /\ Unsubscribe => agenda' = agenda /\ spc = "unsub" /\ spc' = "gone"
      /\ UNCHANGED <<spc, agenda>> => agenda' = agenda /\ spc' = spc
  BY DEF Resume, Synced, Resumed, Joined, Unsubscribe
<1>2. /\ Resume => Agenda' /\ Pending' = Pending
      /\ Synced => Agenda' /\ Pending' = Pending
      /\ Resumed => Agenda' /\ Pending' = Pending
      /\ Joined => Agenda' /\ Pending' = Pending
      /\ Unsubscribe => Agenda' /\ Pending' = Pending
      /\ UNCHANGED <<spc, agenda>> => Agenda' /\ Pending' = Pending
  BY <1>1, Kept DEF Idling
<1>3. ASSUME Free, At("free")
      PROVE  Pops("free", {})
  BY <1>3, Returned DEF Free, Idling, Finals
<1>4. ASSUME Free, ~At("free")
      PROVE  Agenda' /\ Pending' = Pending
  BY <1>4, Kept DEF Free, Idling, At
<1>5. Unlock => At("unsub") /\ Heads("unsub") /\ Emptying("unsub")
  BY HeadTask, Emptied DEF Unlock, Emptying, Idling
<1> QED BY <1>1, <1>2, <1>3, <1>4, <1>5

-----------------------------------------------------------------------------
(* The types.                                                                *)

ScanTypes ==
    /\ plan \in Plans /\ mode \in {"auto", "allband", "blind"}
    /\ stage \in {"start", "nit", "ts", "done"}
    /\ cnt \in NoList .. MaxFreqs
    /\ curr = NoList \/ curr \in 0 .. cnt - 1
          \/ (curr \in Nat /\ cnt = NoList /\ "unlisted" \in mishaps)
    /\ started \in BOOLEAN /\ currTs \in BOOLEAN /\ curPat \in BOOLEAN /\ nits \in BOOLEAN
    /\ pats \in NoList .. plan.progs /\ prog \in NoList .. plan.progs
EventTypes ==
    /\ evt \subseteq {"start", "fend", "pat", "pmt", "sdt", "nit", "blind", "quit"}
    /\ sampled \subseteq {"start", "fend", "pat", "pmt", "sdt", "nit", "blind", "quit"}
    /\ recv \subseteq {"pat", "pmt", "sdt", "nit", "fend"}
    /\ spc \in ThreadStates /\ timed \in BOOLEAN
TableTypes ==
    /\ fid \in [Tables -> Fids \cup {NoFid}] /\ live \subseteq Fids
    /\ got \in [Tables -> {"none", "some", "all"}]
    /\ marked \subseteq Tables /\ expired \subseteq Tables
SectionTypes ==
    section \in [table : Tables \cup {"none"}, fid : Fids \cup {NoFid}, stale : BOOLEAN]
FendTypes ==
    /\ tuned \in Nat \cup {NoList} /\ fevt \in Nat \cup {NoList} /\ owed \in 0 .. plan.status
    /\ feEvt \in [freq : Nat \cup {NoList}, locked : BOOLEAN] /\ subscribed \in BOOLEAN
RestTypes ==
    /\ bpc \in {"none", "scan", "call", "over", "ended"} /\ cancel \in BOOLEAN
    /\ found \in 0 .. 1 /\ bs \in 0 .. LastBs + 1
    /\ apc \in {"idle", "quit", "join", "returned"} /\ paused \in BOOLEAN
    /\ destroying \in BOOLEAN
    /\ answered \in BOOLEAN /\ mishaps \subseteq Mishaps

LEMMA TypeParts ==
    /\ TypeOK <=> /\ ScanTypes /\ EventTypes /\ TableTypes /\ SectionTypes /\ FendTypes /\ RestTypes
                  /\ agenda \in Seq(ScanTasks)
    /\ TypeOK' <=> /\ ScanTypes' /\ EventTypes' /\ TableTypes' /\ SectionTypes' /\ FendTypes'
                   /\ RestTypes' /\ agenda' \in Seq(ScanTasks)
BY DEF TypeOK, ScanTypes, EventTypes, TableTypes, SectionTypes, FendTypes, RestTypes

LEMMA PlanTyped ==
    ASSUME ScanTypes
    PROVE  /\ plan.mode \in {"auto", "allband", "blind"} /\ plan.nit \in 0 .. MaxFreqs
           /\ plan.freqs \in 0 .. MaxFreqs /\ plan.progs \in Nat /\ plan.status \in Nat \ {0}
           /\ MaxFreqs \in Nat \ {0} /\ LastBs \in Nat
BY PlansAssumption, BoundsAssumption DEF ScanTypes

LEMMA FlagTyped ==
    ASSUME NEW t \in Tables
    PROVE  /\ Flag(t) \in {"pat", "pmt", "sdt", "nit"}
           /\ Flag(t) = "pmt" <=> t \in SlotSet
           /\ t \notin SlotSet => Flag(t) = t
BY SlotIsTable DEF Tables, Flag

LEMMA TypesKept ==
    ASSUME TypeOK, agenda' \in Seq(ScanTasks)
    PROVE  (Check \/ Recheck \/ Complete \/ Wait \/ Woken \/ TimedOut \/ Clear \/ Window
           \/ Resume \/ Free \/ NothingToFree \/ Synced \/ FreeSlot \/ RequestPmts
           \/ SkipSlot \/ PatDone \/ PatList \/ SdtDone \/ NitDoneInTs \/ NitMissing
           \/ NitFound \/ TryNit \/ StartTs \/ Resumed \/ LeaveTs \/ NextFreq \/ Tune
           \/ FendEvent \/ NotLocked \/ LockedForNit \/ LockedForTs \/ Begin \/ BlindDone
           \/ Joined \/ Quit \/ StopBlind \/ Stop \/ Unlock \/ Unsubscribe \/ SectionRead
           \/ SectionIgnored \/ SectionUndecoded \/ SectionCollected \/ FendStatus
           \/ FendCallback \/ BlindReport \/ BlindCallback \/ BlindEnds \/ AppStart
           \/ AppPause \/ Destroy \/ DestroyQuit \/ DestroyReturn \/ Terminated) => TypeOK'
<1> USE DEF ThreadStates, LockFreeStates, NoList, scanVars, progVars, tableVars, fendVars,
            blindVars, appVars, dataVars, threadVars, outerVars, history, Untouched
<1>0. /\ ScanTypes /\ EventTypes /\ TableTypes /\ SectionTypes /\ FendTypes /\ RestTypes
      /\ SlotSet \subseteq Tables /\ {"pat", "sdt", "nit"} \subseteq Tables
  BY TypeParts DEF Tables
<1>1. ASSUME Check
      PROVE  TypeOK'
  <2> USE <1>0, <1>1, PlanTyped DEF Check, Then, Crash
  <2>1. ScanTypes' BY DEF ScanTypes
  <2>2. EventTypes' BY DEF EventTypes
  <2>3. TableTypes' BY DEF TableTypes
  <2>4. SectionTypes' BY DEF SectionTypes
  <2>5. FendTypes' BY DEF FendTypes
  <2>6. RestTypes' BY DEF RestTypes
  <2> QED BY <2>1, <2>2, <2>3, <2>4, <2>5, <2>6, TypeParts
<1>2. Recheck => TypeOK'
  BY DEF TypeOK, Recheck, Return, Then
<1>3. Complete => TypeOK'
  BY DEF TypeOK, Complete, Then, TablesAnswered
<1>4. ASSUME Wait
      PROVE  TypeOK'
  <2> USE <1>0, <1>4, PlanTyped DEF Wait
  <2>1. ScanTypes' BY DEF ScanTypes
  <2>2. EventTypes' BY DEF EventTypes
  <2>3. TableTypes' BY DEF TableTypes
  <2>4. SectionTypes' BY DEF SectionTypes
  <2>5. FendTypes' BY DEF FendTypes
  <2>6. RestTypes' BY DEF RestTypes
  <2> QED BY <2>1, <2>2, <2>3, <2>4, <2>5, <2>6, TypeParts
<1>5. ASSUME Woken
      PROVE  TypeOK'
  <2> USE <1>0, <1>5, PlanTyped DEF Woken
  <2>1. ScanTypes' BY DEF ScanTypes
  <2>2. EventTypes' BY DEF EventTypes
  <2>3. TableTypes' BY DEF TableTypes
  <2>4. SectionTypes' BY DEF SectionTypes
  <2>5. FendTypes' BY DEF FendTypes
  <2>6. RestTypes' BY DEF RestTypes
  <2> QED BY <2>1, <2>2, <2>3, <2>4, <2>5, <2>6, TypeParts
<1>6. ASSUME TimedOut
      PROVE  TypeOK'
  <2> USE <1>0, <1>6, PlanTyped DEF TimedOut, BeginPass, Expiring
  <2>1. ScanTypes' BY DEF ScanTypes
  <2>2. EventTypes' BY DEF EventTypes
  <2>3. TableTypes' BY DEF TableTypes
  <2>4. SectionTypes' BY DEF SectionTypes
  <2>5. FendTypes' BY DEF FendTypes
  <2>6. RestTypes' BY DEF RestTypes
  <2> QED BY <2>1, <2>2, <2>3, <2>4, <2>5, <2>6, TypeParts
<1>7. ASSUME Clear
      PROVE  TypeOK'
  <2> USE <1>0, <1>7, PlanTyped DEF Clear, BeginPass, Expiring, NoStatus, Mishap, Mishaps
  <2>1. ScanTypes' BY DEF ScanTypes
  <2>2. EventTypes' BY DEF EventTypes
  <2>3. TableTypes' BY DEF TableTypes
  <2>4. SectionTypes' BY DEF SectionTypes
  <2>5. FendTypes' BY DEF FendTypes
  <2>6. RestTypes' BY DEF RestTypes
  <2> QED BY <2>1, <2>2, <2>3, <2>4, <2>5, <2>6, TypeParts
<1>8. Window => TypeOK'
  BY DEF TypeOK, Window, Signal
<1>9. Resume => TypeOK'
  BY DEF TypeOK, Resume
<1>10. ASSUME Free
      PROVE  TypeOK'
  <2> USE <1>0, <1>10, PlanTyped DEF Free
  <2>1. ScanTypes' BY DEF ScanTypes
  <2>2. EventTypes' BY DEF EventTypes
  <2>3. TableTypes' BY DEF TableTypes
  <2>4. SectionTypes' BY DEF SectionTypes
  <2>5. FendTypes' BY DEF FendTypes
  <2>6. RestTypes' BY DEF RestTypes
  <2> QED BY <2>1, <2>2, <2>3, <2>4, <2>5, <2>6, TypeParts
<1>11. NothingToFree => TypeOK'
  BY DEF TypeOK, NothingToFree, Return, Then
<1>12. Synced => TypeOK'
  BY DEF TypeOK, Synced
<1>13. FreeSlot => TypeOK'
  BY DEF TypeOK, FreeSlot, Then, Mishap, Mishaps
<1>14. RequestPmts => TypeOK'
  BY DEF TypeOK, RequestPmts, Then
<1>15. SkipSlot => TypeOK'
  BY DEF TypeOK, SkipSlot, Then
<1>16. PatDone => TypeOK'
  BY DEF TypeOK, PatDone, Signal, Crash
<1>17. PatList => TypeOK'
  BY DEF TypeOK, PatList, Return, Then
<1>18. SdtDone => TypeOK'
  BY DEF TypeOK, SdtDone, Signal, Crash
<1>19. NitDoneInTs => TypeOK'
  BY DEF TypeOK, NitDoneInTs, Return, Then
<1>20. NitMissing => TypeOK'
  BY DEF TypeOK, NitMissing, Then, NitAnswered, Mishap, Mishaps
<1>21. ASSUME NitFound
      PROVE  TypeOK'
  <2>1. ScanTypes'
    <3>1. /\ plan' = plan /\ cnt' \in NoList .. plan.nit /\ curr' = NoList
          /\ UNCHANGED <<mode, stage, started, currTs, curPat, nits, pats, prog>>
      BY <1>21 DEF NitFound
    <3>2. cnt' \in NoList .. MaxFreqs
      BY <1>0, <3>1, PlanTyped
    <3> QED BY <1>0, <3>1, <3>2 DEF ScanTypes
  <2>2. EventTypes'
    BY <1>0, <1>21, PlanTyped DEF EventTypes, NitFound, Signal, Return, Then, NitAnswered
  <2>3. TableTypes'
    BY <1>0, <1>21, PlanTyped DEF TableTypes, NitFound, Signal, Return, Then, NitAnswered
  <2>4. SectionTypes'
    BY <1>0, <1>21, PlanTyped DEF SectionTypes, NitFound, Signal, Return, Then, NitAnswered
  <2>5. FendTypes'
    BY <1>0, <1>21, PlanTyped DEF FendTypes, NitFound, Signal, Return, Then, NitAnswered
  <2>6. RestTypes'
    BY <1>0, <1>21, PlanTyped DEF RestTypes, NitFound, Signal, Return, Then, NitAnswered
  <2> QED BY <2>1, <2>2, <2>3, <2>4, <2>5, <2>6, TypeParts
<1>22. TryNit => TypeOK'
  BY DEF TypeOK, TryNit, Signal, Then
<1>23. StartTs => TypeOK'
  BY DEF TypeOK, StartTs
<1>24. Resumed => TypeOK'
  BY DEF TypeOK, Resumed
<1>25. ASSUME LeaveTs
      PROVE  TypeOK'
  <2>1. ScanTypes'
    <3>1. /\ pats' = -1 /\ currTs' = FALSE /\ mishaps \subseteq mishaps'
          /\ UNCHANGED <<plan, mode, stage, started, cnt, curr, curPat, nits, prog>>
      BY <1>25 DEF LeaveTs
    <3>2. pats' \in NoList .. plan.progs
      BY <1>0, <3>1, PlanTyped DEF NoList
    <3> QED BY <1>0, <3>1, <3>2 DEF ScanTypes
  <2>2. EventTypes'
    BY <1>0, <1>25, PlanTyped DEF EventTypes, LeaveTs, Then, Mishap, Mishaps
  <2>3. TableTypes'
    BY <1>0, <1>25, PlanTyped DEF TableTypes, LeaveTs, Then, Mishap, Mishaps
  <2>4. SectionTypes'
    BY <1>0, <1>25, PlanTyped DEF SectionTypes, LeaveTs, Then, Mishap, Mishaps
  <2>5. FendTypes'
    BY <1>0, <1>25, PlanTyped DEF FendTypes, LeaveTs, Then, Mishap, Mishaps
  <2>6. RestTypes'
    BY <1>0, <1>25, PlanTyped DEF RestTypes, LeaveTs, Then, Mishap, Mishaps
  <2> QED BY <2>1, <2>2, <2>3, <2>4, <2>5, <2>6, TypeParts
<1>26. ASSUME NextFreq
      PROVE  TypeOK'
  <2> USE <1>0, <1>26, PlanTyped DEF NextFreq, AllDone, Signal, Mishap
  <2>1. ScanTypes'
    <3>1. /\ UNCHANGED <<plan, mode, started, currTs, curPat, nits, pats, prog>>
          /\ stage' = "done" \/ stage' = stage
          /\ mishaps \subseteq mishaps'
      OBVIOUS
    <3>2. CASE curr + 1 >= cnt /\ cnt = NoList
      BY <3>1, <3>2 DEF ScanTypes
    <3>3. CASE curr + 1 >= cnt /\ cnt # NoList
      BY <3>1, <3>3 DEF ScanTypes
    <3>4. CASE ~(curr + 1 >= cnt)
      BY <3>1, <3>4 DEF ScanTypes
    <3> QED BY <3>2, <3>3, <3>4
  <2>2. EventTypes' BY DEF EventTypes
  <2>3. TableTypes' BY DEF TableTypes
  <2>4. SectionTypes' BY DEF SectionTypes
  <2>5. FendTypes' BY DEF FendTypes
  <2>6. RestTypes' BY DEF RestTypes, Mishaps
  <2> QED BY <2>1, <2>2, <2>3, <2>4, <2>5, <2>6, TypeParts
<1>27. ASSUME Tune
      PROVE  TypeOK'
  <2>1. ScanTypes'
    BY <1>0, <1>27, PlanTyped DEF ScanTypes, Tune, Return, Then, Signal
  <2>2. EventTypes'
    BY <1>0, <1>27, PlanTyped DEF EventTypes, Tune, Return, Then, Signal
  <2>3. TableTypes'
    BY <1>0, <1>27, PlanTyped DEF TableTypes, Tune, Return, Then, Signal
  <2>4. SectionTypes'
    BY <1>0, <1>27, PlanTyped DEF SectionTypes, Tune, Return, Then, Signal
  <2>5. FendTypes'
    <3>1. /\ UNCHANGED <<plan, subscribed, fevt, feEvt>>
          /\ tuned' = curr \/ tuned' = tuned
          /\ owed' = plan.status \/ owed' = owed
      BY <1>27 DEF Tune, scanVars, progVars, tableVars, fendVars, blindVars, appVars, dataVars, threadVars, outerVars, history, Untouched
    <3>2. curr \in Nat \cup {NoList}
      BY <1>0, PlanTyped DEF ScanTypes
    <3>3. plan.status \in 0 .. plan.status
      BY <1>0, PlanTyped
    <3> QED BY <1>0, <3>1, <3>2, <3>3 DEF FendTypes
  <2>6. RestTypes'
    BY <1>0, <1>27, PlanTyped DEF RestTypes, Tune, Return, Then, Signal
  <2> QED BY <2>1, <2>2, <2>3, <2>4, <2>5, <2>6, TypeParts
<1>28. FendEvent => TypeOK'
  BY DEF TypeOK, FendEvent, Signal, Return, Then
<1>29. NotLocked => TypeOK'
  BY DEF TypeOK, NotLocked, Then
<1>30. LockedForNit => TypeOK'
  BY DEF TypeOK, LockedForNit, Then
<1>31. ASSUME LockedForTs
      PROVE  TypeOK'
  <2> USE <1>0, <1>31, PlanTyped DEF LockedForTs, Then
  <2>1. ScanTypes' BY DEF ScanTypes
  <2>2. EventTypes' BY DEF EventTypes
  <2>3. TableTypes' BY DEF TableTypes
  <2>4. SectionTypes' BY DEF SectionTypes
  <2>5. FendTypes' BY DEF FendTypes
  <2>6. RestTypes' BY DEF RestTypes
  <2> QED BY <2>1, <2>2, <2>3, <2>4, <2>5, <2>6, TypeParts
<1>32. ASSUME Begin
      PROVE  TypeOK'
  <2> USE <1>0, <1>32, PlanTyped DEF Begin, Then
  <2>1. ScanTypes' BY DEF ScanTypes
  <2>2. EventTypes' BY DEF EventTypes
  <2>3. TableTypes' BY DEF TableTypes
  <2>4. SectionTypes' BY DEF SectionTypes
  <2>5. FendTypes' BY DEF FendTypes
  <2>6. RestTypes' BY DEF RestTypes
  <2> QED BY <2>1, <2>2, <2>3, <2>4, <2>5, <2>6, TypeParts
<1>33. ASSUME BlindDone
      PROVE  TypeOK'
  <2>1. ScanTypes'
    <3>1. /\ cnt' = IF cnt \in 0 .. MaxFreqs - found THEN cnt + found ELSE cnt
          /\ UNCHANGED <<plan, mode, stage, started, curr, currTs, curPat, nits, pats, prog, mishaps>>
      BY <1>33 DEF BlindDone
    <3>2. cnt' \in NoList .. MaxFreqs /\ cnt' >= cnt
      BY <1>0, <3>1, PlanTyped DEF ScanTypes, RestTypes
    <3>3. curr' = NoList \/ curr' \in 0 .. cnt' - 1 \/ (curr' \in Nat /\ cnt' = NoList /\ "unlisted" \in mishaps')
      BY <1>0, <3>1, <3>2, PlanTyped DEF ScanTypes, RestTypes
    <3> QED BY <1>0, <3>1, <3>2, <3>3 DEF ScanTypes
  <2>2. EventTypes'
    BY <1>0, <1>33, PlanTyped DEF EventTypes, BlindDone
  <2>3. TableTypes'
    BY <1>0, <1>33, PlanTyped DEF TableTypes, BlindDone
  <2>4. SectionTypes'
    BY <1>0, <1>33, PlanTyped DEF SectionTypes, BlindDone
  <2>5. FendTypes'
    BY <1>0, <1>33, PlanTyped DEF FendTypes, BlindDone
  <2>6. RestTypes'
    BY <1>0, <1>33, PlanTyped DEF RestTypes, BlindDone
  <2> QED BY <2>1, <2>2, <2>3, <2>4, <2>5, <2>6, TypeParts
<1>34. Joined => TypeOK'
  BY DEF TypeOK, Joined
<1>35. Quit => TypeOK'
  BY DEF TypeOK, Quit
<1>36. ASSUME StopBlind
      PROVE  TypeOK'
  <2> USE <1>0, <1>36, PlanTyped DEF StopBlind
  <2>1. ScanTypes' BY DEF ScanTypes
  <2>2. EventTypes' BY DEF EventTypes
  <2>3. TableTypes' BY DEF TableTypes
  <2>4. SectionTypes' BY DEF SectionTypes
  <2>5. FendTypes' BY DEF FendTypes
  <2>6. RestTypes' BY DEF RestTypes
  <2> QED BY <2>1, <2>2, <2>3, <2>4, <2>5, <2>6, TypeParts
<1>37. ASSUME Stop
      PROVE  TypeOK'
  <2> USE <1>0, <1>37, PlanTyped DEF Stop
  <2>1. ScanTypes' BY DEF ScanTypes
  <2>2. EventTypes' BY DEF EventTypes
  <2>3. TableTypes' BY DEF TableTypes
  <2>4. SectionTypes' BY DEF SectionTypes
  <2>5. FendTypes' BY DEF FendTypes
  <2>6. RestTypes' BY DEF RestTypes
  <2> QED BY <2>1, <2>2, <2>3, <2>4, <2>5, <2>6, TypeParts
<1>38. Unlock => TypeOK'
  BY DEF TypeOK, Unlock
<1>39. ASSUME Unsubscribe
      PROVE  TypeOK'
  <2> USE <1>0, <1>39, PlanTyped DEF Unsubscribe
  <2>1. ScanTypes' BY DEF ScanTypes
  <2>2. EventTypes' BY DEF EventTypes
  <2>3. TableTypes' BY DEF TableTypes
  <2>4. SectionTypes' BY DEF SectionTypes
  <2>5. FendTypes' BY DEF FendTypes
  <2>6. RestTypes' BY DEF RestTypes
  <2> QED BY <2>1, <2>2, <2>3, <2>4, <2>5, <2>6, TypeParts
<1>40. SectionRead => TypeOK'
  BY DEF TypeOK, SectionRead
<1>41. SectionIgnored => TypeOK'
  BY DEF TypeOK, SectionIgnored, NoSection
<1>42. ASSUME SectionUndecoded
      PROVE  TypeOK'
  <2>1. ScanTypes'
    BY <1>0, <1>42, PlanTyped DEF ScanTypes, SectionUndecoded, NoSection, Raise, Flag, Mishaps
  <2>2. EventTypes'
    <3>1. UNCHANGED <<sampled, recv, spc, timed>> /\ \E t \in Tables : evt' = evt \cup {Flag(t)}
      BY <1>42 DEF SectionUndecoded, Raise, Handled, scanVars, progVars, tableVars, fendVars, blindVars, appVars, dataVars, threadVars, outerVars, history, Untouched
    <3> QED BY <1>0, <3>1, FlagTyped DEF EventTypes
  <2>3. TableTypes'
    BY <1>0, <1>42, PlanTyped DEF TableTypes, SectionUndecoded, NoSection, Raise, Flag, Mishaps
  <2>4. SectionTypes'
    BY <1>0, <1>42, PlanTyped DEF SectionTypes, SectionUndecoded, NoSection, Raise, Flag, Mishaps
  <2>5. FendTypes'
    BY <1>0, <1>42, PlanTyped DEF FendTypes, SectionUndecoded, NoSection, Raise, Flag, Mishaps
  <2>6. RestTypes'
    BY <1>0, <1>42, PlanTyped DEF RestTypes, SectionUndecoded, NoSection, Raise, Flag, Mishaps
  <2> QED BY <2>1, <2>2, <2>3, <2>4, <2>5, <2>6, TypeParts
<1>43. ASSUME SectionCollected
      PROVE  TypeOK'
  <2>1. ScanTypes'
    BY <1>0, <1>43, PlanTyped DEF ScanTypes, SectionCollected, NoSection, Raise, Flag, Crash
  <2>2. EventTypes'
    <3>1. /\ UNCHANGED <<sampled, recv, timed>> /\ spc' \in {spc, "crashed"}
          /\ evt' = evt \/ \E t \in Tables : evt' = evt \cup {Flag(t)}
      BY <1>43 DEF SectionCollected, Raise, Handled, Crash, scanVars, progVars, tableVars, fendVars, blindVars, appVars, dataVars, threadVars, outerVars, history, Untouched
    <3> QED BY <1>0, <3>1, FlagTyped DEF EventTypes, ThreadStates
  <2>3. TableTypes'
    BY <1>0, <1>43, PlanTyped DEF TableTypes, SectionCollected, NoSection, Raise, Flag, Crash
  <2>4. SectionTypes'
    BY <1>0, <1>43, PlanTyped DEF SectionTypes, SectionCollected, NoSection, Raise, Flag, Crash
  <2>5. FendTypes'
    BY <1>0, <1>43, PlanTyped DEF FendTypes, SectionCollected, NoSection, Raise, Flag, Crash
  <2>6. RestTypes'
    BY <1>0, <1>43, PlanTyped DEF RestTypes, SectionCollected, NoSection, Raise, Flag, Crash
  <2> QED BY <2>1, <2>2, <2>3, <2>4, <2>5, <2>6, TypeParts
<1>44. ASSUME FendStatus
      PROVE  TypeOK'
  <2> USE <1>0, <1>44, PlanTyped DEF FendStatus
  <2>1. ScanTypes' BY DEF ScanTypes
  <2>2. EventTypes' BY DEF EventTypes
  <2>3. TableTypes' BY DEF TableTypes
  <2>4. SectionTypes' BY DEF SectionTypes
  <2>5. FendTypes' BY DEF FendTypes
  <2>6. RestTypes' BY DEF RestTypes
  <2> QED BY <2>1, <2>2, <2>3, <2>4, <2>5, <2>6, TypeParts
<1>45. ASSUME FendCallback
      PROVE  TypeOK'
  <2> USE <1>0, <1>45, PlanTyped DEF FendCallback, Raise
  <2>1. ScanTypes' BY DEF ScanTypes
  <2>2. EventTypes' BY DEF EventTypes
  <2>3. TableTypes' BY DEF TableTypes
  <2>4. SectionTypes' BY DEF SectionTypes
  <2>5. FendTypes' BY DEF FendTypes
  <2>6. RestTypes' BY DEF RestTypes
  <2> QED BY <2>1, <2>2, <2>3, <2>4, <2>5, <2>6, TypeParts
<1>46. BlindReport => TypeOK'
  BY DEF TypeOK, BlindReport
<1>47. ASSUME BlindCallback
      PROVE  TypeOK'
  <2> USE <1>0, <1>47, PlanTyped DEF BlindCallback, Raise
  <2>1. ScanTypes' BY DEF ScanTypes
  <2>2. EventTypes' BY DEF EventTypes
  <2>3. TableTypes' BY DEF TableTypes
  <2>4. SectionTypes' BY DEF SectionTypes
  <2>5. FendTypes' BY DEF FendTypes
  <2>6. RestTypes' BY DEF RestTypes
  <2> QED BY <2>1, <2>2, <2>3, <2>4, <2>5, <2>6, TypeParts
<1>48. BlindEnds => TypeOK'
  BY DEF TypeOK, BlindEnds
<1>49. AppStart => TypeOK'
  BY DEF TypeOK, AppStart, Raise
<1>50. AppPause => TypeOK'
  BY DEF TypeOK, AppPause
<1>51. ASSUME Destroy
      PROVE  TypeOK'
  <2> USE <1>0, <1>51, PlanTyped DEF Destroy
  <2>1. ScanTypes' BY DEF ScanTypes
  <2>2. EventTypes' BY DEF EventTypes
  <2>3. TableTypes' BY DEF TableTypes
  <2>4. SectionTypes' BY DEF SectionTypes
  <2>5. FendTypes' BY DEF FendTypes
  <2>6. RestTypes' BY DEF RestTypes
  <2> QED BY <2>1, <2>2, <2>3, <2>4, <2>5, <2>6, TypeParts
<1>52. DestroyQuit => TypeOK'
  BY DEF TypeOK, DestroyQuit, Raise
<1>53. DestroyReturn => TypeOK'
  BY DEF TypeOK, DestroyReturn
<1>54. Terminated => TypeOK'
  BY DEF TypeOK, Terminated, vars
<1> QED BY <1>1, <1>2, <1>3, <1>4, <1>5, <1>6, <1>7, <1>8, <1>9, <1>10, <1>11, <1>12, <1>13, <1>14, <1>15, <1>16, <1>17, <1>18, <1>19, <1>20, <1>21, <1>22, <1>23, <1>24, <1>25, <1>26, <1>27, <1>28, <1>29, <1>30, <1>31, <1>32, <1>33, <1>34, <1>35, <1>36, <1>37, <1>38, <1>39, <1>40, <1>41, <1>42, <1>43, <1>44, <1>45, <1>46, <1>47, <1>48, <1>49, <1>50, <1>51, <1>52, <1>53, <1>54

-----------------------------------------------------------------------------
(* What a step does to the calls and the table tasks that are on the agenda. *)

\* The calls the invariants look at.  None of them may come behind itself.
Tracked == {"begin", "status", "bs", "nextbs", "trynit", "ts", "leave", "next", "tune", "stop",
            "free all", "blind", "quit", "clear", "unsub"}

\* The call `op' is over: the calls of S follow, and of the others those of C are kept.
Runs(op, S, C) ==
    /\ \A x \in Tracked : Has(x) => x = op \/ x \in C
    /\ \A x \in Tracked : Has(x)' <=> x \in S \/ (x \in C /\ Has(x))

\* No request and no end of a table is asked for that was not before.
Slotting == \E i \in 1 .. Len(Slots) : Waits("slot", i)
Fewer ==
    /\ \A t \in Tables : /\ Waits("request", t)' => Waits("request", t)
                         /\ Waits("done", t)' => Waits("done", t)
    /\ Slotting' => Slotting

\* Neither are the filters of the tables to be freed, before or after.
NoFrees == \A t \in Tables : ~Waits("free", t)

LEMMA PopsRuns ==
    ASSUME NEW op, NEW N, Pops(op, N), NEW S, NEW C,
           \A x \in Tracked : x \in C <=> x \in Behind(op),
           \A x \in Tracked : Do(x) \in N <=> x \in S,
           op \notin C
    PROVE  Runs(op, S, C)
<1>1. /\ Pending = {<<op, Of>>} \cup Rest /\ Pending' = N \cup Rest
      /\ \A y \in Rest : y[1] \in Behind(op)
  BY DEF Pops, Heads
<1>2. ASSUME NEW x \in Tracked
      PROVE  /\ Do(x) \in Rest => x \in C
             /\ Do(x) = <<op, Of>> => x = op
  <2>1. Do(x) = <<x, "none">> /\ Do(x)[1] = x
    BY DEF Do
  <2>2. Do(x) \in Rest => x \in C
    BY <1>1, <2>1
  <2>3. Do(x) = <<op, Of>> => x = op
    BY <2>1
  <2> QED BY <2>2, <2>3
<1>3. ASSUME NEW x \in Tracked
      PROVE  Has(x) => x = op \/ x \in C
  BY <1>1, <1>2 DEF Has
<1>4. ASSUME NEW x \in Tracked
      PROVE  Has(x)' <=> x \in S \/ (x \in C /\ Has(x))
  <2>1. Has(x)' <=> Do(x) \in N \/ Do(x) \in Rest
    BY <1>1 DEF Has, Do
  <2>2. Has(x) <=> Do(x) = <<op, Of>> \/ Do(x) \in Rest
    BY <1>1 DEF Has
  <2> QED BY <1>2, <2>1, <2>2
<1> QED BY <1>3, <1>4 DEF Runs

LEMMA PopsWaits ==
    ASSUME NEW op, NEW N, Pops(op, N), NEW x, NEW t
    PROVE  /\ Waits(x, t)' <=> For(x, t) \in N \/ For(x, t) \in Rest
           /\ Waits(x, t) <=> (x = op /\ t = Of) \/ For(x, t) \in Rest
           /\ For(x, t) \in Rest => x \in Behind(op)
<1>1. /\ Pending = {<<op, Of>>} \cup Rest /\ Pending' = N \cup Rest
      /\ \A y \in Rest : y[1] \in Behind(op)
  BY DEF Pops, Heads
<1>2. For(x, t) = <<op, Of>> <=> x = op /\ t = Of
  BY DEF For
<1>3. For(x, t) \in Rest => x \in Behind(op)
  BY <1>1 DEF For
<1>4. Waits(x, t)' <=> For(x, t) \in N \/ For(x, t) \in Rest
  BY <1>1 DEF Waits, For
<1>5. Waits(x, t) <=> (x = op /\ t = Of) \/ For(x, t) \in Rest
  BY <1>1, <1>2 DEF Waits
<1> QED BY <1>3, <1>4, <1>5

\* Nothing is pushed that asks for a table.
LEMMA PopsFewer ==
    ASSUME NEW op, NEW N, Pops(op, N),
           \A t \in Tables : /\ For("request", t) \in N => op = "request" /\ t = Of
                             /\ For("done", t) \notin N,
           \A i \in 1 .. Len(Slots) : For("slot", i) \in N => op = "slot" /\ Of \in 1 .. Len(Slots)
    PROVE  Fewer
<1>1. ASSUME NEW t \in Tables
      PROVE  /\ Waits("request", t)' => Waits("request", t)
             /\ Waits("done", t)' => Waits("done", t)
  BY PopsWaits
<1>2. ASSUME NEW i \in 1 .. Len(Slots), Waits("slot", i)'
      PROVE  Slotting
  <2>1. CASE For("slot", i) \in N
    <3>1. Waits("slot", Of) /\ Of \in 1 .. Len(Slots)
      BY <2>1, PopsWaits
    <3> QED BY <3>1 DEF Slotting
  <2>2. CASE For("slot", i) \in Rest
    BY <2>2, PopsWaits DEF Slotting
  <2> QED BY <1>2, <2>1, <2>2, PopsWaits
<1>3. Slotting' => Slotting
  BY <1>2 DEF Slotting
<1> QED BY <1>1, <1>3 DEF Fewer

\* No filter is to be freed where none may come behind.
LEMMA PopsNoFrees ==
    ASSUME NEW op, NEW N, Pops(op, N), "free" \notin Behind(op), op # "free"
    PROVE  /\ NoFrees
           /\ (\A t \in Tables : For("free", t) \notin N) => NoFrees'
<1>1. ASSUME NEW t \in Tables
      PROVE  /\ ~Waits("free", t)
             /\ For("free", t) \notin N => ~Waits("free", t)'
  BY PopsWaits
<1> QED BY <1>1 DEF NoFrees

\* What may come behind the calls of an event's handling.
Comes == {"blind", "quit", "clear"}
Handling == {"begin", "fend", "status", "patlist", "pmts", "nextbs", "bs", "trynit", "ts",
             "leave", "next", "tune", "pmtfree", "slot", "recheck", "done"}

LEMMA HandlingBehind ==
    ASSUME NEW op \in Handling
    PROVE  /\ Behind(op) = Later \/ Behind(op) = Later \ {"fend"}
           /\ \A x \in Tracked : x \in Comes <=> x \in Behind(op)
           /\ op \notin Comes /\ "free" \notin Behind(op) /\ op # "free"
<1>1. Behind(op) = Later \/ Behind(op) = Later \ {"fend"}
  BY DEF Behind, Later, Finals, Handling
<1>2. \A x \in Tracked : /\ x \in Comes <=> x \in Later
                         /\ x \in Comes <=> x \in Later \ {"fend"}
  BY DEF Tracked, Comes, Later
<1>3. op \notin Comes /\ "free" \notin Later /\ op # "free"
  BY DEF Comes, Later, Handling
<1> QED BY <1>1, <1>2, <1>3

LEMMA DoTracked ==
    /\ \A x, y : Do(x) = Do(y) => x = y
    /\ \A x \in Tracked : \A y, t : y \notin Tracked => Do(x) # For(y, t)
    /\ \A x : \A y, t : x # y => Do(x) # For(y, t)
    /\ \A x, y, s, t : For(x, s) = For(y, t) => x = y /\ s = t
BY DEF Do, For

\* Such a call pushes no other one, or one.
Runs0(op) == Runs(op, {}, Comes) /\ Fewer /\ NoFrees /\ NoFrees'
Runs1(op, x) == Runs(op, {x}, Comes) /\ Fewer /\ NoFrees /\ NoFrees'

LEMMA HandlingRuns ==
    ASSUME NEW op \in Handling
    PROVE  /\ Pops(op, {}) => Runs0(op)
           /\ \A x \in Tracked : Pops(op, {Do(x)}) => Runs1(op, x)
<1>1. ASSUME Pops(op, {})
      PROVE  Runs0(op)
  <2> DEFINE N == {}
  <2>1. /\ \A x \in Tracked : Do(x) \in N <=> x \in {}
        /\ \A y, t : For(y, t) \notin N
    OBVIOUS
  <2>2. Pops(op, N)
    BY <1>1
  <2> HIDE DEF N
  <2>3. Runs(op, {}, Comes)
    BY <2>1, <2>2, HandlingBehind, PopsRuns
  <2>4. Fewer
    BY <2>1, <2>2, PopsFewer
  <2>5. NoFrees /\ NoFrees'
    BY <2>1, <2>2, HandlingBehind, PopsNoFrees
  <2> QED BY <2>3, <2>4, <2>5 DEF Runs0
<1>2. ASSUME NEW x \in Tracked, Pops(op, {Do(x)})
      PROVE  Runs1(op, x)
  <2> DEFINE N == {Do(x)}
  <2> DEFINE S == {x}
  <2>0. x # "request" /\ x # "done" /\ x # "slot" /\ x # "free"
    BY DEF Tracked
  <2>1. /\ \A y \in Tracked : Do(y) \in N <=> y \in S
        /\ \A y, t : y # x => For(y, t) \notin N
    BY DoTracked
  <2>2. Pops(op, N)
    BY <1>2
  <2> HIDE DEF N
  <2>3. Runs(op, {x}, Comes)
    <3> HIDE DEF S
    <3>1. Runs(op, S, Comes)
      BY <2>1, <2>2, HandlingBehind, PopsRuns
    <3> QED BY <3>1 DEF S
  <2>4. Fewer
    BY <2>0, <2>1, <2>2, PopsFewer
  <2>5. NoFrees /\ NoFrees'
    BY <2>0, <2>1, <2>2, HandlingBehind, PopsNoFrees
  <2> QED BY <2>3, <2>4, <2>5 DEF Runs1
<1> QED BY <1>1, <1>2

LEMMA HandlingMore ==
    ASSUME NEW op \in Handling, NEW N, Pops(op, N), NEW S,
           \A x \in Tracked : Do(x) \in N <=> x \in S,
           \A x \in {"free", "request", "done", "slot"} : \A t : For(x, t) \notin N
    PROVE  Runs(op, S, Comes) /\ Fewer /\ NoFrees /\ NoFrees'
<1>1. Runs(op, S, Comes)
  BY HandlingBehind, PopsRuns
<1>2. /\ \A t : For("request", t) \notin N /\ For("done", t) \notin N
      /\ \A t : For("slot", t) \notin N /\ For("free", t) \notin N
  OBVIOUS
<1>3. Fewer
  BY <1>2, PopsFewer
<1>4. NoFrees /\ NoFrees'
  BY <1>2, HandlingBehind, PopsNoFrees
<1> QED BY <1>1, <1>3, <1>4

\* The calls that push no other one, or one.
LEMMA CallRuns ==
    ASSUME Agenda
    PROVE  /\ Recheck => Runs0("recheck")
           /\ PatList => Runs0("patlist")
           /\ NitDoneInTs => Runs0("done")
           /\ NextBlind => Runs1("nextbs", "bs")
           /\ LeaveTs => Runs1("leave", "next")
           /\ TryNit => Runs1("trynit", "next")
           /\ NitMissing => Runs1("done", "trynit")
           /\ SdtDone /\ currTs => Runs0("done")
           /\ NitFound => IF recv' = {} THEN Runs1("done", "ts") ELSE Runs0("done")
           /\ NextFreq => IF curr + 1 >= cnt THEN Runs0("next") ELSE Runs1("next", "tune")
           /\ FendEvent => IF FendExpected THEN Runs1("fend", "status") ELSE Runs0("fend")
           /\ NotLocked => IF stage = "nit" THEN Runs1("status", "trynit")
                           ELSE IF stage = "ts" THEN Runs1("status", "ts") ELSE Runs0("status")
           /\ Begin => IF mode = "auto" THEN Runs1("begin", "trynit")
                       ELSE IF mode = "blind" THEN Runs1("begin", "bs") ELSE Runs1("begin", "ts")
<1>1. /\ "recheck" \in Handling /\ "patlist" \in Handling /\ "done" \in Handling
      /\ "nextbs" \in Handling /\ "leave" \in Handling /\ "trynit" \in Handling
      /\ "next" \in Handling /\ "fend" \in Handling /\ "status" \in Handling /\ "begin" \in Handling
  BY DEF Handling
<1>2. /\ "bs" \in Tracked /\ "next" \in Tracked /\ "trynit" \in Tracked /\ "ts" \in Tracked
      /\ "tune" \in Tracked /\ "status" \in Tracked
  BY DEF Tracked
<1>3. /\ Recheck => Runs0("recheck")
      /\ PatList => Runs0("patlist")
      /\ NitDoneInTs => Runs0("done")
  BY <1>1, SimplePops, HandlingRuns
<1>4. /\ NextBlind => Runs1("nextbs", "bs")
      /\ LeaveTs => Runs1("leave", "next")
      /\ TryNit => Runs1("trynit", "next")
      /\ NitMissing => Runs1("done", "trynit")
  BY <1>1, <1>2, SimplePops, HandlingRuns
<1>5. /\ SdtDone /\ currTs => Runs0("done")
      /\ NitFound => IF recv' = {} THEN Runs1("done", "ts") ELSE Runs0("done")
  BY <1>1, <1>2, DonePops, HandlingRuns
<1>6. /\ NextFreq => IF curr + 1 >= cnt THEN Runs0("next") ELSE Runs1("next", "tune")
      /\ FendEvent => IF FendExpected THEN Runs1("fend", "status") ELSE Runs0("fend")
  <2> DEFINE c == curr + 1 >= cnt
  <2>1. NextFreq => Pops("next", IF c THEN {} ELSE {Do("tune")})
    BY TunePops
  <2> HIDE DEF c
  <2>2. NextFreq => IF c THEN Runs0("next") ELSE Runs1("next", "tune")
    BY <1>1, <1>2, <2>1, HandlingRuns
  <2>3. FendEvent => IF FendExpected THEN Runs1("fend", "status") ELSE Runs0("fend")
    BY <1>1, <1>2, TunePops, HandlingRuns
  <2> QED BY <2>2, <2>3 DEF c
<1>7. NotLocked => IF stage = "nit" THEN Runs1("status", "trynit")
                   ELSE IF stage = "ts" THEN Runs1("status", "ts") ELSE Runs0("status")
  <2>1. NotLocked => Pops("status", IF stage = "nit" THEN {Do("trynit")}
                                    ELSE IF stage = "ts" THEN {Do("ts")} ELSE {})
    BY TunePops
  <2> QED BY <1>1, <1>2, <2>1, HandlingRuns
<1>8. Begin => IF mode = "auto" THEN Runs1("begin", "trynit")
               ELSE IF mode = "blind" THEN Runs1("begin", "bs") ELSE Runs1("begin", "ts")
  <2>1. Begin => Pops("begin", Begins)
    BY BeginPops
  <2>2. CASE mode = "auto"
    BY <1>1, <1>2, <2>1, <2>2, HandlingRuns DEF Begins
  <2>3. CASE mode = "blind"
    BY <1>1, <1>2, <2>1, <2>3, HandlingRuns DEF Begins
  <2>4. CASE mode # "auto" /\ mode # "blind"
    BY <1>1, <1>2, <2>1, <2>4, HandlingRuns DEF Begins
  <2> QED BY <2>2, <2>3, <2>4
<1> QED BY <1>3, <1>4, <1>5, <1>6, <1>7, <1>8

\* The calls of which the branches differ in what they push.
LEMMA BranchRuns ==
    ASSUME Agenda
    PROVE  /\ Tune => \/ Runs0("tune") /\ tuned' = curr /\ recv' = recv \cup {"fend"}
                      \/ Runs1("tune", "next") /\ UNCHANGED <<recv, tuned>> /\ answered'
           /\ StartBlind => \/ Runs0("bs") /\ bs <= LastBs /\ bpc' = "scan" /\ ~cancel' /\ UNCHANGED <<mode, bs>>
                            \/ Runs1("bs", "bs") /\ bs <= LastBs /\ bs' = bs + 1 /\ UNCHANGED <<mode, bpc, cancel>>
                            \/ Runs1("bs", "ts") /\ bs > LastBs /\ mode' = "allband" /\ UNCHANGED blindVars
<1>1. /\ "tune" \in Handling /\ "bs" \in Handling
      /\ "bs" \in Tracked /\ "next" \in Tracked /\ "ts" \in Tracked
  BY DEF Handling, Tracked
<1>2. /\ Do("bs") \in ScanTasks /\ Do("bs")[1] = "bs" /\ Behind("bs") = Later
      /\ Do("ts") \in ScanTasks /\ Do("ts")[1] = "ts" /\ Behind("ts") = Later
      /\ Do("next") \in ScanTasks /\ Do("next")[1] = "next" /\ Behind("next") = Later
      /\ Behind("tune") = Later /\ "tune" \notin Finals /\ "bs" \notin Finals
  BY CallsTyped DEF Finals
<1>3. ASSUME Tune
      PROVE  \/ Runs0("tune") /\ tuned' = curr /\ recv' = recv \cup {"fend"}
             \/ Runs1("tune", "next") /\ UNCHANGED <<recv, tuned>> /\ answered'
  <2>1. CASE agenda' = Tail(agenda) /\ spc' = "run" /\ tuned' = curr /\ recv' = recv \cup {"fend"}
    <3>1. Pops("tune", {})
      BY <1>2, <1>3, <2>1, Returned DEF Tune, Idling
    <3> QED BY <1>1, <2>1, <3>1, HandlingRuns
  <2>2. CASE agenda' = <<Do("next")>> \o Tail(agenda) /\ spc' = "window"
             /\ UNCHANGED <<recv, tuned>> /\ answered'
    <3>1. Pops("tune", {Do("next")})
      BY <1>2, <1>3, <2>2, PoppedOne DEF Tune, Idling
    <3> QED BY <1>1, <2>2, <3>1, HandlingRuns
  <2>3. agenda' = << >> \o Tail(agenda) => agenda' = Tail(agenda)
    <3>1. At("tune")
      BY <1>3 DEF Tune
    <3>2. Tail(agenda) \in Seq(ScanTasks)
      BY <3>1, HeadTask, Split DEF Heads, Agenda
    <3> QED BY <3>2
  <2> QED BY <1>3, <2>1, <2>2, <2>3 DEF Tune, Return, Then, Signal
<1>4. ASSUME StartBlind
      PROVE  \/ Runs0("bs") /\ bs <= LastBs /\ bpc' = "scan" /\ ~cancel' /\ UNCHANGED <<mode, bs>>
             \/ Runs1("bs", "bs") /\ bs <= LastBs /\ bs' = bs + 1 /\ UNCHANGED <<mode, bpc, cancel>>
             \/ Runs1("bs", "ts") /\ bs > LastBs /\ mode' = "allband" /\ UNCHANGED blindVars
  <2>1. CASE /\ agenda' = << >> \o Tail(agenda) /\ spc' = "run" /\ bs <= LastBs
             /\ bpc' = "scan" /\ ~cancel' /\ UNCHANGED <<mode, bs>>
    <3>1. At("bs")
      BY <1>4 DEF StartBlind
    <3>2. Tail(agenda) \in Seq(ScanTasks)
      BY <3>1, HeadTask, Split DEF Heads, Agenda
    <3>3. Pops("bs", {})
      BY <1>2, <2>1, <3>1, <3>2, Returned DEF Idling
    <3> QED BY <1>1, <2>1, <3>3, HandlingRuns
  <2>2. CASE /\ agenda' = <<Do("bs")>> \o Tail(agenda) /\ spc' = "window" /\ bs <= LastBs
             /\ bs' = bs + 1 /\ UNCHANGED <<mode, bpc, cancel>>
    <3>1. Pops("bs", {Do("bs")})
      BY <1>2, <1>4, <2>2, PoppedOne DEF StartBlind, Idling
    <3> QED BY <1>1, <2>2, <3>1, HandlingRuns
  <2>3. CASE /\ agenda' = <<Do("ts")>> \o Tail(agenda) /\ spc' = "run" /\ bs > LastBs
             /\ mode' = "allband" /\ UNCHANGED blindVars
    <3>1. Pops("bs", {Do("ts")})
      BY <1>2, <1>4, <2>3, PoppedOne DEF StartBlind, Idling
    <3> QED BY <1>1, <2>3, <3>1, HandlingRuns
  <2> QED BY <1>4, <2>1, <2>2, <2>3 DEF StartBlind, Return, Then, Signal
<1> QED BY <1>3, <1>4

\* A request is new where the frequency is locked, a slot where the PMTs are asked for.
Asking(T) ==
    /\ \A t \in Tables : Waits("request", t)' => Waits("request", t) \/ t \in T
    /\ \A t \in Tables : Waits("done", t)' => Waits("done", t)

LEMMA PopsAsking ==
    ASSUME NEW op, NEW N, Pops(op, N), NEW T,
           \A t \in Tables : For("request", t) \in N => t \in T,
           \A t \in Tables : For("done", t) \notin N
    PROVE  Asking(T)
<1>1. ASSUME NEW t \in Tables
      PROVE  /\ Waits("request", t)' => Waits("request", t) \/ t \in T
             /\ Waits("done", t)' => Waits("done", t)
  BY PopsWaits
<1> QED BY <1>1 DEF Asking

LEMMA AskRuns ==
    ASSUME Agenda
    PROVE  /\ PatDone /\ currTs => Runs0("done")
           /\ StartTs => Runs1("ts", "leave")
           /\ LockedForNit => Runs("status", {}, Comes) /\ Asking({"nit"}) /\ (Slotting' => Slotting)
           /\ LockedForTs => Runs("status", {}, Comes) /\ Asking({"pat", "sdt", "nit"}) /\ (Slotting' => Slotting)
           /\ RequestPmts => Runs("pmts", {}, Comes) /\ Asking({}) /\ (Slotting' => Slotting \/ currTs)
           /\ SkipSlot => Runs("slot", {}, Comes) /\ Fewer
           /\ RequestSlot => Runs("slot", {}, Comes) /\ Fewer /\ At("slot") /\ Of \in 1 .. Len(Slots)
<1>0. /\ "done" \in Handling /\ "status" \in Handling /\ "pmts" \in Handling /\ "slot" \in Handling
      /\ "ts" \in Handling /\ "leave" \in Tracked /\ "patlist" \notin Tracked /\ "pmts" \notin Tracked
      /\ "window" \notin Tracked /\ "request" \notin Tracked /\ "slot" \notin Tracked
  BY DEF Handling, Tracked
<1>1. ASSUME PatDone, currTs
      PROVE  Runs0("done")
  <2> DEFINE N == {Do("patlist"), Do("pmts")}
  <2>1. Pops("done", N)
    BY <1>1, DonePops
  <2>2. /\ \A x \in Tracked : Do(x) \in N <=> x \in {}
        /\ \A x \in {"free", "request", "done", "slot"} : \A t : For(x, t) \notin N
    BY <1>0, DoTracked
  <2> HIDE DEF N
  <2> QED BY <1>0, <2>1, <2>2, HandlingMore DEF Runs0
<1>2. ASSUME StartTs
      PROVE  Runs1("ts", "leave")
  <2> DEFINE N == IF curr >= 0 THEN {Do("window"), Do("leave")} ELSE {Do("leave")}
  <2> DEFINE S == {"leave"}
  <2>1. Pops("ts", N)
    BY <1>2, StartTsPops
  <2>2. /\ \A x \in Tracked : Do(x) \in N <=> x \in S
        /\ \A x \in {"free", "request", "done", "slot"} : \A t : For(x, t) \notin N
    BY <1>0, DoTracked
  <2>3. Runs1("ts", "leave") <=> Runs("ts", S, Comes) /\ Fewer /\ NoFrees /\ NoFrees'
    BY DEF Runs1
  <2> HIDE DEF N, S
  <2> QED BY <1>0, <2>1, <2>2, <2>3, HandlingMore
<1>3. ASSUME NEW op \in Handling, NEW T \in SUBSET Tables, NEW N, Pops(op, N), N = {For("request", t) : t \in T}
      PROVE  Runs(op, {}, Comes) /\ Asking(T) /\ (Slotting' => Slotting)
  <2>1. /\ \A x \in Tracked : Do(x) \in N <=> x \in {}
        /\ \A t \in Tables : For("request", t) \in N => t \in T
        /\ \A t : For("done", t) \notin N /\ For("slot", t) \notin N
    BY <1>0, <1>3, DoTracked
  <2>2. Runs(op, {}, Comes)
    BY <1>3, <2>1, HandlingBehind, PopsRuns
  <2>3. Asking(T)
    BY <1>3, <2>1, PopsAsking
  <2>4. ASSUME NEW i \in 1 .. Len(Slots), Waits("slot", i)'
        PROVE  Waits("slot", i)
    BY <1>3, <2>1, <2>4, PopsWaits
  <2> QED BY <2>2, <2>3, <2>4 DEF Slotting
<1>4. ASSUME LockedForNit
      PROVE  Runs("status", {}, Comes) /\ Asking({"nit"}) /\ (Slotting' => Slotting)
  <2> DEFINE N == {For("request", "nit")}
  <2> DEFINE T == {"nit"}
  <2>1. Pops("status", N) /\ N = {For("request", t) : t \in T} /\ T \in SUBSET Tables
    BY <1>4, SimplePops DEF Tables
  <2> HIDE DEF N, T
  <2>2. Runs("status", {}, Comes) /\ Asking(T) /\ (Slotting' => Slotting)
    BY <1>0, <1>3, <2>1
  <2> QED BY <2>2 DEF T
<1>5. ASSUME LockedForTs
      PROVE  Runs("status", {}, Comes) /\ Asking({"pat", "sdt", "nit"}) /\ (Slotting' => Slotting)
  <2> DEFINE N == {For("request", "pat"), For("request", "sdt")}
                  \cup IF plan.source = "terrestrial" THEN {For("request", "nit")} ELSE {}
  <2> DEFINE T == {"pat", "sdt"} \cup IF plan.source = "terrestrial" THEN {"nit"} ELSE {}
  <2>1. Pops("status", N)
    BY <1>5, LockedPops
  <2>2. N = {For("request", t) : t \in T} /\ T \in SUBSET Tables
    BY DEF Tables
  <2>3. T \subseteq {"pat", "sdt", "nit"}
    OBVIOUS
  <2> HIDE DEF N, T
  <2>4. Runs("status", {}, Comes) /\ Asking(T) /\ (Slotting' => Slotting)
    BY <1>0, <1>3, <2>1, <2>2
  <2> QED BY <2>3, <2>4 DEF Asking
<1>6. ASSUME NEW op \in {"pmts", "slot"}, NEW N, Pops(op, N), NEW i, N = Slotted(i) \/ N = {}
      PROVE  /\ Runs(op, {}, Comes) /\ Asking({})
             /\ \A j \in 1 .. Len(Slots) : Waits("slot", j)' => Waits("slot", j) \/ (N = Slotted(i) /\ i <= Len(Slots))
             /\ op = "slot" /\ Of \in 1 .. Len(Slots) => Fewer
  <2>1. /\ \A x \in Tracked : Do(x) \in N <=> x \in {}
        /\ \A t : For("request", t) \notin N /\ For("done", t) \notin N
        /\ \A t : For("slot", t) \in N => N = Slotted(i) /\ i <= Len(Slots)
    <3>1. N \subseteq {For("slot", i)}
      BY <1>6 DEF Slotted, For
    <3>2. \A x \in N : x = For("slot", i)
      BY <3>1
    <3>3. \A t : For("slot", t) \in N => N = Slotted(i) /\ i <= Len(Slots)
      BY <1>6 DEF Slotted
    <3>4. \A x \in Tracked : Do(x) # For("slot", i)
      BY <1>0, DoTracked
    <3>5. \A t : For("request", t) # For("slot", i) /\ For("done", t) # For("slot", i)
      BY DoTracked
    <3> QED BY <3>2, <3>3, <3>4, <3>5
  <2>2. op \in Handling
    BY <1>6 DEF Handling
  <2>3. Runs(op, {}, Comes)
    BY <1>6, <2>1, <2>2, HandlingBehind, PopsRuns
  <2>4. Asking({})
    BY <1>6, <2>1, PopsAsking
  <2>5. ASSUME NEW j \in 1 .. Len(Slots), Waits("slot", j)'
        PROVE  Waits("slot", j) \/ (N = Slotted(i) /\ i <= Len(Slots))
    BY <1>6, <2>1, <2>5, PopsWaits
  <2>6. op = "slot" /\ Of \in 1 .. Len(Slots) => Fewer
    BY <1>6, <2>1, PopsFewer
  <2> QED BY <2>3, <2>4, <2>5, <2>6
<1>7. ASSUME RequestPmts
      PROVE  Runs("pmts", {}, Comes) /\ Asking({}) /\ (Slotting' => Slotting \/ currTs)
  <2> DEFINE N == IF currTs /\ pats # NoList THEN {<<"slot", 1>>} ELSE {}
  <2>1. Pops("pmts", N)
    BY <1>7, SlotPops
  <2>2. CASE currTs
    <3>1. N = Slotted(1) \/ N = {}
      BY SlotIsTable DEF Slotted
    <3> HIDE DEF N
    <3>2. Runs("pmts", {}, Comes) /\ Asking({})
      BY <1>6, <2>1, <3>1
    <3> QED BY <2>2, <3>2
  <2>3. CASE ~currTs
    <3>1. N = {} /\ N # Slotted(1)
      <4>1. 1 <= Len(Slots)
        BY SlotIsTable
      <4>2. Slotted(1) = {<<"slot", 1>>}
        BY <4>1 DEF Slotted
      <4>3. N = {}
        BY <2>3
      <4> HIDE DEF N
      <4> QED BY <4>2, <4>3
    <3> HIDE DEF N
    <3>2. /\ Runs("pmts", {}, Comes) /\ Asking({})
          /\ \A j \in 1 .. Len(Slots) : Waits("slot", j)' => Waits("slot", j)
      BY <1>6, <2>1, <3>1
    <3> QED BY <3>2 DEF Slotting
  <2> QED BY <2>2, <2>3
<1>8. SkipSlot => Runs("slot", {}, Comes) /\ Fewer
  <2>1. SkipSlot => At("slot") /\ Of \in 1 .. Len(Slots)
    BY HeadOf DEF SkipSlot
  <2>2. SkipSlot => Pops("slot", Slotted(Of + 1))
    BY SlotPops
  <2> DEFINE N == Slotted(Of + 1)
  <2> HIDE DEF N
  <2>3. SkipSlot => Pops("slot", N) /\ N = Slotted(Of + 1)
    BY <2>2 DEF N
  <2> QED BY <1>6, <2>1, <2>3
<1>9. RequestSlot => Runs("slot", {}, Comes) /\ Fewer /\ At("slot") /\ Of \in 1 .. Len(Slots)
  <2>1. RequestSlot => At("slot") /\ Of \in 1 .. Len(Slots)
    BY HeadOf DEF RequestSlot
  <2> DEFINE N == Slotted(Of + 1)
  <2> DEFINE M == {}
  <2>2. RequestSlot => Pops("slot", N) \/ Pops("slot", M)
    BY SlotPops
  <2>3. N = Slotted(Of + 1) /\ M = {}
    OBVIOUS
  <2> HIDE DEF N, M
  <2>4. Pops("slot", N) => Runs("slot", {}, Comes) /\ (Of \in 1 .. Len(Slots) => Fewer)
    BY <1>6, <2>3
  <2>5. Pops("slot", M) => Runs("slot", {}, Comes) /\ (Of \in 1 .. Len(Slots) => Fewer)
    BY <1>6, <2>3
  <2> QED BY <2>1, <2>2, <2>4, <2>5
<1> QED BY <1>1, <1>2, <1>4, <1>5, <1>7, <1>8, <1>9

\* The calls of freeing and of the end.
LEMMA FreeRuns ==
    ASSUME Agenda
    PROVE  /\ FreeSlot => Runs("pmtfree", {}, Comes) /\ Fewer
           /\ Request => Runs("request", {}, Comes) /\ Fewer /\ Of \in Tables
           /\ NothingToFree \/ (Free /\ At("free")) =>
                 /\ Runs("free", {}, Comes \cup {"ts"}) /\ Fewer /\ Of \in Tables
                 /\ \A t \in Tables \ {Of} : Waits("free", t) => Waits("free", t)'
           /\ Window => Runs("window", {}, Comes \cup {"begin", "leave", "unsub"}) /\ Fewer
                        /\ NoFrees /\ NoFrees'
           /\ BlindDone => Runs("blind", {"nextbs"}, {"quit", "clear"}) /\ Fewer /\ NoFrees /\ NoFrees'
           /\ StopBlind => Runs("stop", {"free all"}, {"unsub"}) /\ Fewer /\ Has("unsub")
           /\ Stop => /\ Has("unsub") /\ Fewer
                      /\ \/ At("stop") /\ mode # "blind" /\ Runs("stop", {}, {"unsub"})
                         \/ At("free all") /\ Runs("free all", {}, {"unsub"})
<1>0. /\ "window" \notin Tracked /\ "request" \notin Tracked /\ "free" \notin Tracked
      /\ "done" \notin Tracked /\ "slot" \notin Tracked /\ "pmtfree" \notin Tracked
      /\ "free all" \in Tracked /\ "nextbs" \in Tracked /\ "pmtfree" \in Handling
      /\ \A x \in Tracked : x \notin {"free", "request", "done", "slot"}
  BY DEF Tracked, Handling
<1>1. /\ \A x \in Tracked : x \in Comes <=> x \in Behind("request")
      /\ \A x \in Tracked : x \in Comes \cup {"ts"} <=> x \in Behind("free")
      /\ \A x \in Tracked : x \in Comes \cup {"begin", "leave", "unsub"} <=> x \in Behind("window")
      /\ \A x \in Tracked : x \in {"unsub"} <=> x \in Behind("stop")
      /\ \A x \in Tracked : x \in {"unsub"} <=> x \in Behind("free all")
      /\ \A x \in Tracked : x \in {"quit", "clear"} <=> x \in Behind("blind")
      /\ \A op \in {"window", "stop", "free all", "blind"} : "free" \notin Behind(op)
  BY BehindOf DEF Tracked, Later, Comes
<1>2. ASSUME NEW op, NEW N, Pops(op, N), N = {},
             NEW C, \A x \in Tracked : x \in C <=> x \in Behind(op), op \notin C
      PROVE  Runs(op, {}, C) /\ Fewer
  <2>1. /\ \A x \in Tracked : Do(x) \in N <=> x \in {}
        /\ \A y, t : For(y, t) \notin N
    BY <1>2
  <2>2. Runs(op, {}, C)
    BY <1>2, <2>1, PopsRuns
  <2>3. Fewer
    BY <1>2, <2>1, PopsFewer
  <2> QED BY <2>2, <2>3
<1>3. ASSUME FreeSlot
      PROVE  Runs("pmtfree", {}, Comes) /\ Fewer
  <2> DEFINE N == IF Arrived THEN {For("free", Of)} ELSE {}
  <2>1. Pops("pmtfree", N)
    BY <1>3, FreeSlotPops
  <2>2. /\ \A x \in Tracked : Do(x) \in N <=> x \in {}
        /\ \A t : For("request", t) \notin N /\ For("done", t) \notin N /\ For("slot", t) \notin N
    BY <1>0, DoTracked
  <2> HIDE DEF N
  <2>3. Runs("pmtfree", {}, Comes)
    BY <1>0, <2>1, <2>2, HandlingBehind, PopsRuns
  <2>4. Fewer
    BY <2>1, <2>2, PopsFewer
  <2> QED BY <2>3, <2>4
<1>4. ASSUME Request
      PROVE  Runs("request", {}, Comes) /\ Fewer /\ Of \in Tables
  <2> DEFINE N == IF fid[Of] # NoFid THEN {For("free", Of), For("request", Of)} ELSE {}
  <2>1. Pops("request", N) /\ Of \in Tables
    BY <1>4, RequestPops
  <2>2. /\ \A x \in Tracked : Do(x) \in N <=> x \in {}
        /\ \A t : For("done", t) \notin N /\ For("slot", t) \notin N
        /\ \A t : For("request", t) \in N => t = Of
    <3>1. \A x \in N : x = For("free", Of) \/ x = For("request", Of)
      OBVIOUS
    <3> HIDE DEF N
    <3>2. \A x \in Tracked : Do(x) # For("free", Of) /\ Do(x) # For("request", Of)
      BY <1>0, DoTracked
    <3>3. \A x, t : For(x, t) \in N => (x = "free" \/ x = "request") /\ t = Of
      BY <3>1, DoTracked
    <3> QED BY <3>1, <3>2, <3>3
  <2> HIDE DEF N
  <2>3. Runs("request", {}, Comes)
    <3>1. "request" \notin Comes
      BY DEF Comes
    <3> QED BY <1>1, <2>1, <2>2, <3>1, PopsRuns
  <2>4. Fewer
    BY <2>1, <2>2, PopsFewer
  <2> QED BY <2>1, <2>3, <2>4
<1>5. ASSUME NothingToFree \/ (Free /\ At("free"))
      PROVE  /\ Runs("free", {}, Comes \cup {"ts"}) /\ Fewer /\ Of \in Tables
             /\ \A t \in Tables \ {Of} : Waits("free", t) => Waits("free", t)'
  <2>1. Pops("free", {}) /\ Of \in Tables
    BY <1>5, SimplePops, OtherPops, HeadOf DEF NothingToFree
  <2> DEFINE C == Comes \cup {"ts"}
  <2> DEFINE N == {}
  <2>2. "free" \notin C /\ N = {} /\ Pops("free", N)
    BY <2>1 DEF Comes
  <2>3. \A x \in Tracked : x \in C <=> x \in Behind("free")
    BY <1>1
  <2> HIDE DEF C, N
  <2>4. Runs("free", {}, C) /\ Fewer
    BY <1>2, <2>2, <2>3
  <2>5. \A t \in Tables \ {Of} : Waits("free", t) => Waits("free", t)'
    BY <2>2, PopsWaits
  <2> QED BY <2>1, <2>4, <2>5 DEF C
<1>6. ASSUME Window
      PROVE  Runs("window", {}, Comes \cup {"begin", "leave", "unsub"}) /\ Fewer /\ NoFrees /\ NoFrees'
  <2> DEFINE C == Comes \cup {"begin", "leave", "unsub"}
  <2> DEFINE N == {}
  <2>1. "window" \notin C /\ N = {} /\ Pops("window", N) /\ \A t : For("free", t) \notin N
    BY <1>6, SimplePops DEF Comes
  <2>2. \A x \in Tracked : x \in C <=> x \in Behind("window")
    BY <1>1
  <2> HIDE DEF C, N
  <2>3. Runs("window", {}, C) /\ Fewer
    BY <1>2, <2>1, <2>2
  <2>4. NoFrees /\ NoFrees'
    BY <1>1, <2>1, PopsNoFrees
  <2> QED BY <2>3, <2>4 DEF C
<1>7. ASSUME NEW op \in {"blind", "stop"}, NEW x \in Tracked, x \in {"nextbs", "free all"}, Pops(op, {Do(x)}),
             NEW C, \A y \in Tracked : y \in C <=> y \in Behind(op), op \notin C
      PROVE  Runs(op, {x}, C) /\ Fewer /\ NoFrees /\ NoFrees'
  <2> DEFINE N == {Do(x)}
             S == {x}
  <2>1. /\ \A y \in Tracked : Do(y) \in N <=> y \in S
        /\ \A y \in {"free", "request", "done", "slot"} : \A t : For(y, t) \notin N
        /\ Pops(op, N) /\ op # "free" /\ "free" \notin Behind(op)
    BY <1>0, <1>1, <1>7, DoTracked
  <2>2. \A t : /\ For("request", t) \notin N /\ For("done", t) \notin N
               /\ For("slot", t) \notin N /\ For("free", t) \notin N
    BY <2>1
  <2>3. Runs(op, S, C) <=> Runs(op, {x}, C)
    OBVIOUS
  <2> HIDE DEF N, S
  <2>4. Runs(op, S, C)
    BY <1>7, <2>1, PopsRuns
  <2>5. Fewer
    BY <2>1, <2>2, PopsFewer
  <2>6. NoFrees /\ NoFrees'
    BY <2>1, <2>2, PopsNoFrees
  <2> QED BY <2>3, <2>4, <2>5, <2>6
<1>8. BlindDone => Runs("blind", {"nextbs"}, {"quit", "clear"}) /\ Fewer /\ NoFrees /\ NoFrees'
  <2> DEFINE C == {"quit", "clear"}
  <2>1. /\ "blind" \notin C /\ \A x \in Tracked : x \in C <=> x \in Behind("blind")
        /\ BlindDone => Pops("blind", {Do("nextbs")})
    BY <1>1, SimplePops
  <2>2. C = {"quit", "clear"}
    OBVIOUS
  <2> HIDE DEF C
  <2>3. BlindDone => Runs("blind", {"nextbs"}, C) /\ Fewer /\ NoFrees /\ NoFrees'
    BY <1>0, <1>7, <2>1
  <2> QED BY <2>2, <2>3
<1>9. ASSUME NEW op \in {"stop", "free all"}, NEW N, Pops(op, N)
      PROVE  Has("unsub")
  <2>1. \E x \in Rest : x[1] \in Finals
    BY <1>9 DEF Pops, Heads, Finals
  <2>2. PICK x \in Rest : x[1] \in Finals
    BY <2>1
  <2>3. x \in ScanTasks /\ x[1] \in {"window", "unsub"} /\ x \in Pending
    BY <1>9, <2>2, BehindOf DEF Pops, Heads
  <2>4. x = <<"unsub", "none">>
    BY <2>2, <2>3, TaskType DEF Finals
  <2> QED BY <2>3, <2>4 DEF Has, Do
<1>10. StopBlind => Runs("stop", {"free all"}, {"unsub"}) /\ Fewer /\ Has("unsub")
  <2> DEFINE C == {"unsub"}
  <2>1. /\ "stop" \notin C /\ \A x \in Tracked : x \in C <=> x \in Behind("stop")
        /\ StopBlind => Pops("stop", {Do("free all")})
    BY <1>1, SimplePops
  <2>2. C = {"unsub"}
    OBVIOUS
  <2> HIDE DEF C
  <2>3. StopBlind => Runs("stop", {"free all"}, C) /\ Fewer
    BY <1>0, <1>7, <2>1
  <2> QED BY <1>9, <2>1, <2>2, <2>3
<1>11. ASSUME Stop
       PROVE  /\ Has("unsub") /\ Fewer
              /\ \/ At("stop") /\ mode # "blind" /\ Runs("stop", {}, {"unsub"})
                 \/ At("free all") /\ Runs("free all", {}, {"unsub"})
  <2> DEFINE C == {"unsub"}
  <2> DEFINE N == {}
  <2>1. /\ "stop" \notin C /\ \A x \in Tracked : x \in C <=> x \in Behind("stop")
        /\ "free all" \notin C /\ \A x \in Tracked : x \in C <=> x \in Behind("free all")
        /\ Pops("stop", N) \/ Pops("free all", N)
    BY <1>1, <1>11, SimplePops
  <2>2. C = {"unsub"} /\ N = {}
    OBVIOUS
  <2> HIDE DEF C, N
  <2> DEFINE head == Head(agenda)
  <2>7. /\ Pops("stop", N) => head[1] = "stop"
        /\ Pops("free all", N) => head[1] = "free all"
        /\ spc = "run" /\ (head[1] = "free all" \/ (head[1] = "stop" /\ mode # "blind"))
    <3>1. ASSUME NEW op, Pops(op, N)
          PROVE  head[1] = op
      <4>1. head = <<op, Of>>
        BY <3>1 DEF Pops, Heads
      <4> QED BY <4>1
    <3> QED BY <1>11, <3>1 DEF Stop, At
  <2>8. (At("stop") <=> spc = "run" /\ head[1] = "stop") /\ (At("free all") <=> spc = "run" /\ head[1] = "free all")
    BY DEF At
  <2> HIDE DEF head
  <2>3. Pops("stop", N) => At("stop") /\ mode # "blind"
    BY <2>7, <2>8
  <2>4. Pops("free all", N) => At("free all")
    BY <2>7, <2>8
  <2>5. Pops("stop", N) => Runs("stop", {}, C) /\ Fewer /\ Has("unsub")
    BY <1>2, <1>9, <2>1, <2>2
  <2>6. Pops("free all", N) => Runs("free all", {}, C) /\ Fewer /\ Has("unsub")
    BY <1>2, <1>9, <2>1, <2>2
  <2> QED BY <2>1, <2>2, <2>3, <2>4, <2>5, <2>6
<1> QED BY <1>3, <1>4, <1>5, <1>6, <1>8, <1>10, <1>11

\* One of the calls of T only is on the agenda, or none of them, and no task for a table.
Only(T) == \A x \in Tracked : Has(x) <=> x \in T
NoTasks == /\ \A t \in Tables : ~Waits("request", t) /\ ~Waits("done", t) /\ ~Waits("free", t)
           /\ ~Slotting

\* What the agenda is when the events of e are to be handled.
HandlesNext(e) ==
    /\ \A x \in Tracked : Has(x)' <=> \/ x = "begin" /\ "start" \in e /\ ~started
                                      \/ x = "blind" /\ "blind" \in e
                                      \/ x = "quit" /\ "quit" \in e
                                      \/ x = "clear" /\ "quit" \notin e
    /\ \A t \in Tables : /\ ~Waits("request", t)' /\ ~Waits("free", t)'
                         /\ Waits("done", t)' => t \in {"pat", "sdt", "nit"} /\ t \in e
    /\ ~Slotting'

\* The only task.
LEMMA OneTask ==
    ASSUME NEW op \in {"wait", "complete", "clear", "check", "quit", "unsub"}, NEW z,
           op # "check" => z = "none"
    PROVE  /\ Pending = {<<op, z>>} => Only({op}) /\ NoTasks
           /\ Pending' = {<<op, z>>} => Only({op})' /\ NoTasks'
<1>1. ASSUME NEW x \in Tracked
      PROVE  Do(x) = <<op, z>> <=> x \in {op}
  <2>1. x # "check"
    BY DEF Tracked
  <2> QED BY <2>1 DEF Do
<1>2. \A x, t : x \in {"request", "done", "free", "slot"} => For(x, t) # <<op, z>>
  BY DEF For
<1>3. ASSUME Pending = {<<op, z>>}
      PROVE  Only({op}) /\ NoTasks
  <2>1. Only({op})
    BY <1>1, <1>3 DEF Only, Has
  <2>2. NoTasks
    BY <1>2, <1>3 DEF NoTasks, Slotting, Waits
  <2> QED BY <2>1, <2>2
<1>4. ASSUME Pending' = {<<op, z>>}
      PROVE  Only({op})' /\ NoTasks'
  <2>1. \A x \in Tracked : Has(x)' <=> Do(x) = <<op, z>>
    BY <1>4 DEF Has, Do
  <2>2. Only({op})'
    BY <1>1, <2>1 DEF Only
  <2>3. \A x, t : Waits(x, t)' <=> For(x, t) = <<op, z>>
    BY <1>4 DEF Waits, For
  <2>4. NoTasks'
    BY <1>2, <2>3 DEF NoTasks, Slotting
  <2> QED BY <2>2, <2>4
<1> QED BY <1>3, <1>4

\* No task.
LEMMA NoTask ==
    /\ Pending = {} => Only({}) /\ NoTasks
    /\ Pending' = {} => Only({})' /\ NoTasks'
BY DEF Only, NoTasks, Slotting, Has, Waits

LEMMA HandlesTasks ==
    ASSUME NEW e, Pending' = HandleTasks(e)
    PROVE  HandlesNext(e)
<1> DEFINE begin == "start" \in e /\ ~started
           last == IF "quit" \in e THEN "quit" ELSE "clear"
<1>1. ASSUME NEW x
      PROVE  x \in Pending' <=> \/ begin /\ (x = Do("window") \/ x = Do("begin"))
                                \/ "fend" \in e /\ x = Do("fend")
                                \/ "pat" \in e /\ x = For("done", "pat")
                                \/ "pmt" \in e /\ (x = Do("pmts") \/ \E t \in SlotSet : x = For("pmtfree", t))
                                \/ "sdt" \in e /\ x = For("done", "sdt")
                                \/ "nit" \in e /\ x = For("done", "nit")
                                \/ "blind" \in e /\ x = Do("blind")
                                \/ x = Do(last)
  BY DEF HandleTasks
<1>2. ASSUME NEW x \in Tracked
      PROVE  Has(x)' <=> \/ x = "begin" /\ "start" \in e /\ ~started
                         \/ x = "blind" /\ "blind" \in e
                         \/ x = "quit" /\ "quit" \in e
                         \/ x = "clear" /\ "quit" \notin e
  <2>1. /\ x # "window" /\ x # "fend" /\ x # "pmts" /\ x # "done" /\ x # "pmtfree"
        /\ "begin" # "blind" /\ "quit" # "clear"
    BY DEF Tracked
  <2>2. /\ \A y : Do(x) = Do(y) <=> x = y
        /\ \A t : Do(x) # For("done", t) /\ Do(x) # For("pmtfree", t)
    BY <2>1, DoTracked
  <2>3. Has(x)' <=> Do(x) \in Pending'
    BY DEF Has, Do
  <2>4. Has(x)' <=> (begin /\ x = "begin") \/ ("blind" \in e /\ x = "blind") \/ x = last
    <3> HIDE DEF begin, last
    <3> QED BY <1>1, <2>1, <2>2, <2>3
  <2> QED BY <2>4
<1>3. ASSUME NEW x, x \in {"request", "free", "done", "slot"}, NEW t
      PROVE  Waits(x, t)' => x = "done" /\ t \in {"pat", "sdt", "nit"} /\ t \in e
  <2>1. /\ x # "window" /\ x # "fend" /\ x # "pmts" /\ x # "pmtfree" /\ x # "blind" /\ x # "begin"
        /\ x # last
    BY <1>3
  <2>2. \A y : x # y => For(x, t) # Do(y)
    BY DoTracked
  <2>3. \A y, z : For(x, t) = For(y, z) <=> x = y /\ t = z
    BY DoTracked
  <2>4. Waits(x, t)' <=> For(x, t) \in Pending'
    BY DEF Waits, For
  <2> HIDE DEF begin, last
  <2> QED BY <1>1, <2>1, <2>2, <2>3, <2>4
<1>4. ~Slotting'
  BY <1>3 DEF Slotting
<1>5. ASSUME NEW t \in Tables
      PROVE  /\ ~Waits("request", t)' /\ ~Waits("free", t)'
             /\ Waits("done", t)' => t \in {"pat", "sdt", "nit"} /\ t \in e
  BY <1>3
<1> QED BY <1>2, <1>4, <1>5 DEF HandlesNext

\* The tables whose time is up, to begin with the first.
LEMMA CheckRuns ==
    ASSUME Agenda, Check
    PROVE  /\ Only({"check"}) /\ NoTasks /\ Only({})' /\ ~Slotting'
           /\ \A t \in Tables : /\ ~Waits("request", t)' /\ ~Waits("free", t)'
                                /\ Waits("done", t)' => t \notin SlotSet /\ Flag(t) \in recv
<1>1. Pending = {<<"check", Of>>}
  BY CheckPops, LastTask DEF Finals
<1>2. Only({"check"}) /\ NoTasks
  BY <1>1, OneTask
<1>3. CASE ~ReadsNull(Of) /\ Late(Of) = {}
  <2>1. Pending' = {<<"complete", "none">>}
    BY <1>3, CheckPops DEF Do
  <2>2. Only({"complete"})' /\ NoTasks'
    BY <2>1, OneTask
  <2>3. Only({})'
    <3>1. "complete" \notin Tracked
      BY DEF Tracked
    <3> QED BY <2>2, <3>1 DEF Only
  <2> QED BY <1>2, <2>2, <2>3 DEF NoTasks
<1>4. CASE ~ReadsNull(Of) /\ Late(Of) # {}
  <2> DEFINE j == First(Late(Of))
             t == Order[j]
  <2>1. /\ j \in Late(Of) /\ t \in Tables /\ Pending' = DoneTasks(t) \cup {For("recheck", t), <<"check", j + 1>>}
    BY <1>4, CheckPops DEF LateTasks
  <2>2. Flag(t) \in recv
    BY <2>1 DEF Late, LookedAt, Waited
  <2> HIDE DEF j, t
  <2>3. \A x : x \in Pending' =>
            \/ x = Do("pmts") \/ \E z \in SlotSet : x = For("pmtfree", z)
            \/ x = For("done", t) /\ t \notin SlotSet
            \/ x = For("recheck", t) \/ x = For("check", j + 1)
    BY <2>1 DEF DoneTasks, For
  <2>4. ASSUME NEW x \in Tracked
        PROVE  ~Has(x)'
    <3>1. x # "pmts" /\ x # "pmtfree" /\ x # "done" /\ x # "recheck" /\ x # "check"
      BY DEF Tracked
    <3>2. /\ \A y : x # y => Do(x) # Do(y)
          /\ \A y, z : x # y => Do(x) # For(y, z)
      BY DoTracked
    <3>3. Do(x) \notin Pending'
      BY <2>3, <3>1, <3>2
    <3> QED BY <3>3 DEF Has, Do
  <2>5. ASSUME NEW x, x \in {"request", "free", "done", "slot"}, NEW z, Waits(x, z)'
        PROVE  x = "done" /\ z = t /\ t \notin SlotSet
    <3>1. x # "pmts" /\ x # "pmtfree" /\ x # "recheck" /\ x # "check"
      BY <2>5
    <3>2. /\ \A y : x # y => For(x, z) # Do(y)
          /\ \A y, v : For(x, z) = For(y, v) <=> x = y /\ z = v
      BY DoTracked
    <3>3. For(x, z) \in Pending'
      BY <2>5 DEF Waits, For
    <3> QED BY <2>3, <3>1, <3>2, <3>3
  <2>6. Only({})' /\ ~Slotting'
    <3>1. Only({})'
      BY <2>4 DEF Only
    <3>2. ~Slotting'
      BY <2>5 DEF Slotting
    <3> QED BY <3>1, <3>2
  <2> QED BY <1>2, <2>2, <2>5, <2>6
<1>5. CASE ReadsNull(Of)
  BY <1>2, <1>5, CheckPops, NoTask DEF NoTasks
<1> QED BY <1>3, <1>4, <1>5

\* Every filter of the frequency is freed before the next one is tuned.
LEMMA CompleteRuns ==
    ASSUME Agenda, Complete
    PROVE  /\ Only({"complete"}) /\ NoTasks /\ Only({"ts"})' /\ ~Slotting'
           /\ \A t \in Tables : ~Waits("request", t)' /\ ~Waits("done", t)' /\ Waits("free", t)'
<1>0. Heads("complete") /\ Pending' = (FreeTasks \cup {Do("ts"), Do("wait")}) \cup Rest
  BY CompletePops DEF Pops
<1>1. Pending = {<<"complete", Of>>} /\ Rest = {} /\ Of = "none"
  <2>1. Rest = {} /\ Pending = {<<"complete", Of>>} /\ <<"complete", Of>> \in ScanTasks
    BY <1>0 DEF Heads, Finals
  <2>2. <<"complete", Of>>[1] = "complete" /\ <<"complete", Of>>[2] = Of
    OBVIOUS
  <2>3. Of = "none"
    BY <2>1, <2>2, TaskType DEF Finals
  <2> QED BY <2>1, <2>3
<1>2. Only({"complete"}) /\ NoTasks
  BY <1>1, OneTask
<1>3. \A x : x \in Pending' <=> \/ x = Do("ts") \/ x = Do("wait")
                               \/ \E t \in Tables : x = For("free", t)
  BY <1>0, <1>1 DEF FreeTasks
<1>4. ASSUME NEW x \in Tracked
      PROVE  Has(x)' <=> x \in {"ts"}
  <2>1. x # "free" /\ x # "wait"
    BY DEF Tracked
  <2>2. /\ \A y : Do(x) = Do(y) <=> x = y
        /\ \A y, z : x # y => Do(x) # For(y, z)
    BY DoTracked
  <2>3. Has(x)' <=> Do(x) \in Pending'
    BY DEF Has, Do
  <2> QED BY <1>3, <2>1, <2>2, <2>3
<1>5. ASSUME NEW x, x \in {"request", "free", "done", "slot"}, NEW z
      PROVE  Waits(x, z)' <=> x = "free" /\ z \in Tables
  <2>1. x # "ts" /\ x # "wait"
    BY <1>5
  <2>2. /\ \A y : x # y => For(x, z) # Do(y)
        /\ \A y, v : For(x, z) = For(y, v) <=> x = y /\ z = v
    BY DoTracked
  <2>3. Waits(x, z)' <=> For(x, z) \in Pending'
    BY DEF Waits, For
  <2> QED BY <1>3, <2>1, <2>2, <2>3
<1>6. Only({"ts"})' /\ ~Slotting'
  <2>1. Only({"ts"})'
    BY <1>4 DEF Only
  <2>2. ~Slotting'
    BY <1>5 DEF Slotting
  <2> QED BY <2>1, <2>2
<1> QED BY <1>2, <1>5, <1>6

\* The other steps that begin or end a pass over the events.
LEMMA PassRuns ==
    ASSUME Agenda, started \in BOOLEAN
    PROVE  /\ Wait => (Only({"wait"}) \/ Only({"complete"})) /\ NoTasks /\ spc = "run"
           /\ Wait /\ evt = {} => Only({})' /\ NoTasks' /\ spc' = "wait"
           /\ Wait /\ evt # {} => HandlesNext(evt) /\ spc' = "run"
           /\ Woken => Only({}) /\ NoTasks /\ HandlesNext(evt)
           /\ TimedOut => Only({}) /\ NoTasks /\ Only({"check"})' /\ NoTasks'
           /\ Clear => Only({"clear"}) /\ NoTasks /\ spc = "run" /\ spc' = "run"
           /\ Clear /\ evt' = {} => Only({"check"})' /\ NoTasks'
           /\ Clear /\ evt' # {} => HandlesNext(evt')
           /\ Unlock => Only({"unsub"}) /\ NoTasks /\ Only({})' /\ NoTasks'
           /\ (PatDone \/ SdtDone) /\ ~currTs => Only({})' /\ NoTasks' /\ spc' = "crashed"
<1>1. ASSUME NEW op \in {"wait", "complete", "clear", "unsub"}, Heads(op), Rest = {}
      PROVE  Only({op}) /\ NoTasks
  <2>1. Pending = {<<op, Of>>} /\ <<op, Of>> \in ScanTasks
    BY <1>1 DEF Heads
  <2>2. <<op, Of>>[1] = op /\ <<op, Of>>[2] = Of
    OBVIOUS
  <2>3. Of = "none"
    BY <2>1, <2>2, TaskType DEF Finals
  <2> QED BY <2>1, <2>3, OneTask
<1>2. ASSUME NEW op \in {"wait", "complete", "clear", "unsub"}, At(op)
      PROVE  Only({op}) /\ NoTasks
  BY <1>1, <1>2, HeadTask DEF Heads, Finals
<1>3. Wait => (Only({"wait"}) \/ Only({"complete"})) /\ NoTasks /\ spc = "run"
  BY <1>2 DEF Wait, At
<1>4. Clear => Only({"clear"}) /\ NoTasks /\ spc = "run" /\ spc' = "run"
  BY <1>2, EventPops DEF Clear
<1>5. Unlock => Only({"unsub"}) /\ NoTasks /\ Only({})' /\ NoTasks'
  <2>1. Unlock => At("unsub") /\ Pending' = {}
    BY OtherPops DEF Emptying
  <2> QED BY <1>2, <2>1, NoTask
<1>6. Wait /\ evt = {} => Only({})' /\ NoTasks' /\ spc' = "wait"
  BY EventPops, NoTask DEF Emptying
<1>7. Wait /\ evt # {} => HandlesNext(evt) /\ spc' = "run"
  BY EventPops, HandlesTasks
<1>8. Woken => Only({}) /\ NoTasks /\ HandlesNext(evt)
  BY EventPops, HandlesTasks, NoTask
<1>9. TimedOut => Only({}) /\ NoTasks /\ Only({"check"})' /\ NoTasks'
  BY EventPops, NoTask, OneTask
<1>10. Clear /\ evt' = {} => Only({"check"})' /\ NoTasks'
  <2>1. Clear /\ evt' = {} => Pending' = {<<"check", 1>>}
    BY EventPops
  <2> QED BY <2>1, OneTask
<1>11. Clear /\ evt' # {} => HandlesNext(evt')
  <2> DEFINE e == evt'
  <2>1. Clear /\ e # {} => Pending' = HandleTasks(e)
    BY EventPops
  <2> HIDE DEF e
  <2>2. Clear /\ e # {} => HandlesNext(e)
    BY <2>1, HandlesTasks
  <2> QED BY <2>2 DEF e
<1>12. (PatDone \/ SdtDone) /\ ~currTs => Only({})' /\ NoTasks' /\ spc' = "crashed"
  BY DonePops, NoTask DEF Emptying
<1> QED BY <1>3, <1>4, <1>5, <1>6, <1>7, <1>8, <1>9, <1>10, <1>11, <1>12

\* The end of the thread.
LEMMA QuitRuns ==
    ASSUME Agenda, Quit, started \in BOOLEAN
    PROVE  /\ Only({"quit"}) /\ NoTasks /\ NoTasks' /\ Has("unsub")'
           /\ \A x \in Tracked : Has(x)' <=> x = "unsub" \/ (x = "stop" /\ started)
<1>1. Heads("quit") /\ Pending' = {Do("window"), Do("unsub")} \cup IF started THEN {Do("stop")} ELSE {}
  BY QuitPops
<1>2. Pending = {<<"quit", Of>>} /\ <<"quit", Of>> \in ScanTasks
  BY <1>1 DEF Heads, Finals
<1>3. Of = "none"
  <2>1. <<"quit", Of>>[1] = "quit" /\ <<"quit", Of>>[2] = Of
    OBVIOUS
  <2> QED BY <1>2, <2>1, TaskType DEF Finals
<1>4. Only({"quit"}) /\ NoTasks
  BY <1>2, <1>3, OneTask
<1>5. \A x : x \in Pending' <=> x = Do("window") \/ x = Do("unsub") \/ (started /\ x = Do("stop"))
  BY <1>1
<1>6. ASSUME NEW x \in Tracked
      PROVE  Has(x)' <=> x = "unsub" \/ (x = "stop" /\ started)
  <2>1. x # "window" /\ \A y : Do(x) = Do(y) <=> x = y
    BY DoTracked DEF Tracked
  <2>2. Has(x)' <=> Do(x) \in Pending'
    BY DEF Has, Do
  <2> QED BY <1>5, <2>1, <2>2
<1>7. ASSUME NEW x, x \in {"request", "free", "done", "slot"}, NEW z
      PROVE  ~Waits(x, z)'
  <2>1. x # "window" /\ x # "unsub" /\ x # "stop" /\ \A y : x # y => For(x, z) # Do(y)
    BY <1>7, DoTracked
  <2>2. Waits(x, z)' <=> For(x, z) \in Pending'
    BY DEF Waits, For
  <2> QED BY <1>5, <2>1, <2>2
<1>8. NoTasks'
  BY <1>7 DEF NoTasks, Slotting
<1> QED BY <1>4, <1>6, <1>8 DEF Tracked

\* The steps that leave the agenda alone.
Same ==
    /\ \A x : Has(x)' <=> Has(x)
    /\ \A x, t : Waits(x, t)' <=> Waits(x, t)
    /\ Slotting' <=> Slotting
    /\ Pending' = Pending

LEMMA SameRuns ==
    ASSUME Agenda
    PROVE  Resume \/ (Free /\ At("done")) \/ Synced \/ Resumed \/ Joined \/ Unsubscribe \/ UNCHANGED <<spc, agenda>>
           => Same
<1>1. ASSUME Pending' = Pending
      PROVE  Same
  <2>1. \A x : Has(x)' <=> Has(x)
    BY <1>1 DEF Has, Do
  <2>2. \A x, t : Waits(x, t)' <=> Waits(x, t)
    BY <1>1 DEF Waits, For
  <2> QED BY <1>1, <2>1, <2>2 DEF Same, Slotting
<1>2. At("done") => ~At("free")
  BY DEF At
<1> QED BY <1>1, <1>2, OtherPops

-----------------------------------------------------------------------------
(* The demux has a filter for each table.                                    *)

LEMMA TablesFinite == IsFiniteSet(Tables) /\ Cardinality(Tables) \in Nat
<1>1. /\ Slots \in Seq(SlotSet) /\ Len(Slots) \in Nat
      /\ SlotSet = {Slots[i] : i \in 1 .. Len(Slots)}
  BY SlotsAssumption, LenProperties DEF SlotSet
<1>2. Slots \in [1 .. Len(Slots) -> SlotSet]
  BY <1>1
<1>3. Slots \in Surjection(1 .. Len(Slots), SlotSet)
  BY <1>1, <1>2 DEF Surjection
<1>4. IsFiniteSet(1 .. Len(Slots))
  BY <1>1, FS_Interval
<1>5. IsFiniteSet(SlotSet)
  BY <1>3, <1>4, FS_Surjection
<1>6. IsFiniteSet(((SlotSet \cup {"pat"}) \cup {"sdt"}) \cup {"nit"})
  BY <1>5, FS_AddElement
<1>7. Tables = ((SlotSet \cup {"pat"}) \cup {"sdt"}) \cup {"nit"}
  BY DEF Tables
<1> QED BY <1>6, <1>7, FS_CardinalityType

LEMMA FilterLeft ==
    ASSUME fid \in [Tables -> Fids \cup {NoFid}],
           live = {fid[t] : t \in Tables} \ {NoFid},
           NEW t \in Tables, fid[t] = NoFid
    PROVE  LowestFree \in Fids \ live
<1> DEFINE S == {s \in Tables : fid[s] # NoFid}
           T == Tables \ {t}
           g == [s \in S |-> fid[s]]
<1>1. /\ IsFiniteSet(T) /\ Cardinality(T) = Cardinality(Tables) - 1
  BY TablesFinite, FS_RemoveElement
<1>2. S \in SUBSET T
  OBVIOUS
<1>3. g \in Surjection(S, live)
  <2>1. \A f \in live : \E s \in S : g[s] = f
    OBVIOUS
  <2>2. g \in [S -> live]
    OBVIOUS
  <2> HIDE DEF g, S
  <2> QED BY <2>1, <2>2 DEF Surjection
<1>4. IsFiniteSet(S) /\ Cardinality(S) <= Cardinality(T) /\ Cardinality(S) \in Nat
  <2> HIDE DEF S, T
  <2> QED BY <1>1, <1>2, FS_Subset, FS_CardinalityType
<1>5. Cardinality(live) <= Cardinality(S) /\ Cardinality(live) \in Nat
  <2> HIDE DEF S, g
  <2> QED BY <1>3, <1>4, FS_Surjection, FS_CardinalityType
<1>6. Cardinality(Fids) = Cardinality(Tables)
  <2>1. Cardinality(1 .. Cardinality(Tables)) = Cardinality(Tables)
    BY TablesFinite, FS_Interval
  <2> QED BY <2>1 DEF Fids
<1>7. live # Fids /\ live \subseteq Fids
  <2>1. Cardinality(live) < Cardinality(Fids)
    <3> HIDE DEF S, T
    <3> QED BY <1>1, <1>4, <1>5, <1>6, TablesFinite
  <2>2. live # Fids
    BY <1>5, <2>1
  <2>3. live \subseteq Fids
    OBVIOUS
  <2> QED BY <2>2, <2>3
<1>8. Fids \ live # {} /\ Fids \ live \in SUBSET Nat
  BY <1>7, TablesFinite DEF Fids
<1>9. PICK m \in Fids \ live : \A k \in Fids \ live : m <= k
  BY <1>8, Least
<1> QED BY <1>9 DEF LowestFree

\* The first task is on the agenda.
LEMMA AtHas ==
    ASSUME Agenda, NEW op, At(op)
    PROVE  /\ op \in Tracked => Has(op)
           /\ op \in {"free", "request", "done"} => Of \in Tables /\ Waits(op, Of)
           /\ op = "slot" => Slotting /\ Of \in 1 .. Len(Slots)
<1>1. <<op, Of>> \in Pending /\ <<op, Of>> \in ScanTasks
  BY HeadTask DEF Heads
<1>2. <<op, Of>>[1] = op /\ <<op, Of>>[2] = Of
  OBVIOUS
<1>3. op \in Tracked => Of = "none"
  <2>1. op \in Tracked => op \in Calls \cup (Finals \ {"check"})
    BY DEF Tracked, Calls, Finals
  <2> QED BY <1>1, <1>2, <2>1, TaskType
<1>4. op \in Tracked => Has(op)
  BY <1>1, <1>3 DEF Has, Do
<1>5. op \in {"free", "request", "done"} => Of \in Tables /\ Waits(op, Of)
  BY <1>1, HeadOf DEF Waits, For
<1>6. op = "slot" => Slotting /\ Of \in 1 .. Len(Slots)
  BY <1>1, HeadOf DEF Slotting, Waits, For
<1> QED BY <1>4, <1>5, <1>6

\* A filter is asked for only by a thread that is not ending.
LEMMA AskedFor ==
    ASSUME Agenda, Filtered, TypeOK, Request \/ RequestSlot
    PROVE  /\ ~Ending /\ spc = "run" /\ live = {fid[t] : t \in Tables} \ {NoFid}
           /\ \A t \in Tables : fid[t] = NoFid => LowestFree \in Fids \ live
<1>1. ~Has("unsub") /\ spc = "run"
  <2>1. spc = "run"
    BY DEF Request, RequestSlot, At
  <2>2. Request => Runs("request", {}, Comes)
    BY FreeRuns
  <2>3. RequestSlot => Runs("slot", {}, Comes)
    BY AskRuns
  <2>4. "unsub" \in Tracked /\ "unsub" \notin Comes /\ "unsub" # "request" /\ "unsub" # "slot"
    BY DEF Tracked, Comes
  <2> QED BY <2>1, <2>2, <2>3, <2>4 DEF Runs
<1>2. ~Ending
  BY <1>1 DEF Ending
<1>3. live = {fid[t] : t \in Tables} \ {NoFid}
  BY <1>2 DEF Filtered, Ended
<1> QED BY <1>1, <1>2, <1>3, FilterLeft DEF TypeOK

LEMMA SlotOf ==
    ASSUME Agenda, At("slot")
    PROVE  Slot \in SlotSet /\ Slot \in Tables /\ Flag(Slot) = "pmt"
<1>1. Of \in 1 .. Len(Slots)
  BY HeadOf
<1>2. Slot \in SlotSet /\ Slot \in Tables
  BY <1>1, SlotIsTable DEF Slot
<1> QED BY <1>2, FlagTyped

LEMMA TypesAsked ==
    ASSUME TypeOK, Agenda, Filtered, Blinded, agenda' \in Seq(ScanTasks)
    PROVE  /\ Request => TypeOK'
           /\ RequestSlot => TypeOK'
           /\ NextBlind => TypeOK'
           /\ StartBlind => TypeOK'
<1>0. /\ ScanTypes /\ EventTypes /\ TableTypes /\ SectionTypes /\ FendTypes /\ RestTypes
      /\ SlotSet \subseteq Tables /\ {"pat", "sdt", "nit"} \subseteq Tables
  BY TypeParts DEF Tables
<1>1. ASSUME Request
      PROVE  TypeOK'
  <2>1. Of \in Tables /\ (fid[Of] = NoFid => LowestFree \in Fids)
    BY <1>1, FreeRuns, AskedFor
  <2>2. ScanTypes'
    BY <1>0, <1>1 DEF ScanTypes, Request, scanVars, progVars, Untouched, appVars, fendVars
  <2>3. EventTypes'
    <3>1. recv' \subseteq recv \cup {Flag(Of)} /\ Flag(Of) \in {"pat", "pmt", "sdt", "nit"}
      BY <1>1, <2>1, FlagTyped DEF Request, Allocated, NotAllocated
    <3>2. spc' \in ThreadStates /\ UNCHANGED <<evt, sampled, timed>>
      BY <1>1 DEF Request, Return, Then, ThreadStates, LockFreeStates
    <3> QED BY <1>0, <3>1, <3>2 DEF EventTypes
  <2>4. TableTypes'
    BY <1>0, <1>1, <2>1 DEF TableTypes, Request, Allocated, NotAllocated
  <2>5. SectionTypes'
    BY <1>0, <1>1 DEF SectionTypes, Request, Untouched
  <2>6. FendTypes'
    BY <1>0, <1>1 DEF FendTypes, Request, Untouched, fendVars
  <2>7. RestTypes'
    BY <1>0, <1>1 DEF RestTypes, Request, Allocated, NotAllocated, Untouched, appVars, blindVars, Mishap, Mishaps
  <2> QED BY <2>2, <2>3, <2>4, <2>5, <2>6, <2>7, TypeParts
<1>2. ASSUME RequestSlot
      PROVE  TypeOK'
  <2>1. Slot \in Tables /\ Flag(Slot) = "pmt" /\ LowestFree \in Fids
    <3>1. At("slot") /\ fid[Slot] = NoFid
      BY <1>2 DEF RequestSlot
    <3> QED BY <1>2, <3>1, SlotOf, AskedFor
  <2>2. ScanTypes'
    <3>1. NextProg \in NoList .. plan.progs
      <4>1. prog \in NoList .. plan.progs /\ pats \in NoList .. plan.progs /\ plan.progs \in Nat
        BY <1>0, PlanTyped DEF ScanTypes
      <4> QED BY <4>1 DEF NextProg, NoList
    <3>2. prog' \in {NoList, NextProg, prog} /\ curPat' \in BOOLEAN
      BY <1>2 DEF RequestSlot
    <3>3. prog' \in NoList .. plan.progs
      <4>1. NoList \in NoList .. plan.progs
        BY <1>0, PlanTyped DEF NoList
      <4> QED BY <1>0, <3>1, <3>2, <4>1 DEF ScanTypes
    <3> QED BY <1>0, <1>2, <3>2, <3>3 DEF ScanTypes, RequestSlot, scanVars, Untouched, appVars, fendVars
  <2>3. EventTypes'
    <3>1. recv' \subseteq recv \cup {"pmt"}
      BY <1>2, <2>1 DEF RequestSlot, Allocated, NotAllocated
    <3>2. spc' \in ThreadStates
      BY <1>2 DEF RequestSlot, Return, Then, Signal, ThreadStates, LockFreeStates
    <3>3. UNCHANGED <<evt, sampled, timed>>
      BY <1>2 DEF RequestSlot
    <3> QED BY <1>0, <3>1, <3>2, <3>3 DEF EventTypes
  <2>4. TableTypes'
    BY <1>0, <1>2, <2>1 DEF TableTypes, RequestSlot, Allocated, NotAllocated
  <2>5. SectionTypes'
    BY <1>0, <1>2 DEF SectionTypes, RequestSlot, Untouched
  <2>6. FendTypes'
    BY <1>0, <1>2 DEF FendTypes, RequestSlot, Untouched, fendVars
  <2>7. RestTypes'
    BY <1>0, <1>2 DEF RestTypes, RequestSlot, Allocated, NotAllocated, Untouched, appVars, blindVars, Mishaps
  <2> QED BY <2>2, <2>3, <2>4, <2>5, <2>6, <2>7, TypeParts
<1>3. ASSUME NextBlind
      PROVE  TypeOK'
  <2>1. bs <= LastBs
    <3>1. Has("nextbs")
      BY <1>3, AtHas DEF NextBlind, Tracked
    <3> QED BY <3>1 DEF Blinded
  <2>2. ScanTypes' /\ SectionTypes' /\ FendTypes' /\ TableTypes'
    BY <1>0, <1>3 DEF ScanTypes, SectionTypes, FendTypes, TableTypes, NextBlind, dataVars, scanVars, progVars, tableVars, Untouched, fendVars, history
  <2>3. EventTypes'
    BY <1>0, <1>3 DEF EventTypes, NextBlind, Then, dataVars, ThreadStates
  <2>4. RestTypes'
    <3>1. bs' \in 0 .. LastBs + 1
      BY <1>0, <1>3, <2>1, BoundsAssumption DEF RestTypes, NextBlind
    <3> QED BY <1>0, <1>3, <3>1 DEF RestTypes, NextBlind, Untouched, appVars, history
  <2> QED BY <2>2, <2>3, <2>4, TypeParts
<1>4. ASSUME StartBlind
      PROVE  TypeOK'
  <2>1. ScanTypes' /\ SectionTypes' /\ FendTypes' /\ TableTypes'
    BY <1>0, <1>4 DEF ScanTypes, SectionTypes, FendTypes, TableTypes, StartBlind, progVars, tableVars, fendVars, history
  <2>2. EventTypes'
    BY <1>0, <1>4 DEF EventTypes, StartBlind, Return, Then, Signal, ThreadStates, LockFreeStates
  <2>3. RestTypes'
    <3>1. bs' \in 0 .. LastBs + 1 /\ found' \in 0 .. 1
      BY <1>0, <1>4, BoundsAssumption DEF RestTypes, StartBlind, blindVars
    <3> QED BY <1>0, <1>4, <3>1 DEF RestTypes, StartBlind, blindVars, appVars, history
  <2> QED BY <2>1, <2>2, <2>3, TypeParts
<1> QED BY <1>1, <1>2, <1>3, <1>4

\* The threads outside leave the agenda alone.
OutsideStep ==
    \/ SectionRead \/ SectionIgnored \/ SectionUndecoded \/ FendStatus \/ FendCallback
    \/ BlindReport \/ BlindCallback \/ BlindEnds
    \/ AppStart \/ AppPause \/ Destroy \/ DestroyQuit \/ DestroyReturn \/ Terminated
    \/ UNCHANGED vars

LEMMA OutsideRuns ==
    ASSUME Agenda
    PROVE  /\ OutsideStep => UNCHANGED <<spc, agenda, sampled, timed>> /\ Same
           /\ SectionCollected /\ ~Crash => UNCHANGED <<spc, agenda, sampled, timed>> /\ Same
           /\ SectionCollected /\ Crash => Agenda' /\ Only({})' /\ NoTasks'
<1>1. OutsideStep => UNCHANGED <<spc, agenda, sampled, timed>>
  BY DEF OutsideStep, SectionRead, SectionIgnored, SectionUndecoded, FendStatus, FendCallback,
         BlindReport, BlindCallback, BlindEnds, AppStart, AppPause, Destroy, DestroyQuit,
         DestroyReturn, Terminated, threadVars, vars
<1>2. SectionCollected /\ ~Crash => UNCHANGED <<spc, agenda, sampled, timed>>
  BY DEF SectionCollected
<1>3. SectionCollected /\ Crash => Agenda' /\ Pending' = {}
  BY Emptied DEF Crash, Idling
<1> QED BY <1>1, <1>2, <1>3, SameRuns, NoTask

LEMMA AgendaKept ==
    ASSUME AgendaInv, Filtered, Blinded, Next \/ UNCHANGED vars
    PROVE  AgendaInv'
<1>0. Agenda /\ TypeOK /\ started \in BOOLEAN
  BY AgendaOf DEF AgendaInv, TypeOK
<1>1. /\ Recheck \/ Window \/ NothingToFree \/ PatList \/ NitDoneInTs \/ NextBlind \/ BlindDone
         \/ LeaveTs \/ TryNit \/ NitMissing \/ LockedForNit \/ Stop \/ StopBlind => Agenda'
      /\ Complete \/ Request \/ FreeSlot \/ RequestPmts \/ SkipSlot \/ RequestSlot => Agenda'
      /\ PatDone \/ SdtDone \/ NitFound \/ StartTs \/ NextFreq \/ Tune \/ FendEvent \/ NotLocked => Agenda'
      /\ LockedForTs \/ Begin \/ StartBlind \/ Quit \/ Check => Agenda'
  <2>1. Recheck \/ Window \/ NothingToFree \/ PatList \/ NitDoneInTs \/ NextBlind \/ BlindDone
        \/ LeaveTs \/ TryNit \/ NitMissing \/ LockedForNit \/ Stop \/ StopBlind => Agenda'
    BY <1>0, SimplePops DEF Pops
  <2>2. Complete \/ Request \/ FreeSlot \/ RequestPmts \/ SkipSlot \/ RequestSlot => Agenda'
    BY <1>0, CompletePops, RequestPops, FreeSlotPops, SlotPops DEF Pops
  <2>3. PatDone \/ SdtDone \/ NitFound \/ StartTs => Agenda'
    BY <1>0, DonePops, StartTsPops DEF Pops, Emptying
  <2>4. NextFreq \/ Tune \/ FendEvent \/ NotLocked => Agenda'
    BY <1>0, TunePops DEF Pops
  <2>5. LockedForTs \/ Begin \/ StartBlind \/ Quit \/ Check => Agenda'
    BY <1>0, LockedPops, BeginPops, QuitPops, CheckPops DEF Pops
  <2> QED BY <2>1, <2>2, <2>3, <2>4, <2>5
<1>2. /\ Wait \/ Woken \/ TimedOut \/ Clear => Agenda'
      /\ Resume \/ Free \/ Synced \/ Resumed \/ Joined \/ Unlock \/ Unsubscribe => Agenda'
  <2>1. Wait \/ Woken \/ TimedOut \/ Clear => Agenda'
    BY <1>0, EventPops DEF Emptying
  <2>2. Resume \/ Free \/ Synced \/ Resumed \/ Joined \/ Unlock \/ Unsubscribe => Agenda'
    BY <1>0, OtherPops DEF Pops, Emptying
  <2> QED BY <2>1, <2>2
<1>3. OutsideStep \/ SectionCollected => Agenda'
  BY <1>0, OutsideRuns, OtherPops
<1>4. Agenda'
  BY <1>1, <1>2, <1>3 DEF Next, ScannerStep, SectionHandled, OutsideStep
<1>5. TypeOK'
  <2>0. agenda' \in Seq(ScanTasks)
    BY <1>4 DEF Agenda
  <2>1. UNCHANGED vars => TypeOK'
    BY <1>0 DEF vars, TypeOK, dataVars, threadVars, outerVars, history, scanVars, progVars,
                tableVars, fendVars, blindVars, appVars
  <2>2. Next => TypeOK'
    BY <1>0, <2>0, TypesKept, TypesAsked DEF Next, ScannerStep, SectionHandled
  <2> QED BY <2>1, <2>2
<1> QED BY <1>4, <1>5 DEF Agenda, AgendaInv

-----------------------------------------------------------------------------
(* The invariants, one after the other.                                      *)

Inv == AgendaInv /\ NotStarted /\ Sampled /\ Filtered /\ Blinded /\ Destroyed /\ Current
Stepping == Next \/ UNCHANGED vars

LEMMA InvParts == Inv => Agenda /\ TypeOK /\ started \in BOOLEAN
BY AgendaOf DEF Inv, AgendaInv, TypeOK

\* The application.
LEMMA DestroyedKept ==
    ASSUME Inv, Stepping
    PROVE  Destroyed'
<1>1. Destroyed
  BY DEF Inv
<1>2. CASE UNCHANGED <<paused, destroying, apc>>
  BY <1>1, <1>2 DEF Destroyed
<1>3. CASE AppPause \/ Destroy \/ DestroyQuit \/ DestroyReturn
  BY <1>1, <1>3 DEF Destroyed, AppPause, Destroy, DestroyQuit, DestroyReturn
<1>4. AppPause \/ Destroy \/ DestroyQuit \/ DestroyReturn \/ UNCHANGED appVars
  <2>1. ScannerStep => UNCHANGED appVars
    BY DEF ScannerStep, Check, Recheck, Complete, Wait, Woken, TimedOut, Clear, Window, Resume,
        Free, NothingToFree, Synced, Request, FreeSlot, RequestPmts, RequestSlot, SkipSlot,
        PatDone, PatList, SdtDone, NitDoneInTs, NitMissing, NitFound, TryNit, StartTs, Resumed,
        LeaveTs, NextFreq, Tune, FendEvent, NotLocked, LockedForNit, LockedForTs, Begin,
        StartBlind, BlindDone, NextBlind, Joined, Quit, StopBlind, Stop, Unlock, Untouched
  <2>2. Unsubscribe \/ SectionRead \/ SectionHandled \/ FendStatus \/ FendCallback \/ BlindReport
        \/ BlindCallback \/ BlindEnds \/ AppStart \/ Terminated \/ UNCHANGED vars => UNCHANGED appVars
    BY DEF Unsubscribe, SectionRead, SectionHandled, SectionIgnored, SectionUndecoded,
        SectionCollected, FendStatus, FendCallback, BlindReport, BlindCallback, BlindEnds,
        AppStart, Terminated, vars, outerVars
  <2> QED BY <2>1, <2>2 DEF Stepping, Next
<1> QED BY <1>2, <1>3, <1>4 DEF appVars

\* Whether the thread is ending.
EndSame == (Ending' <=> Ending) /\ (Ended' <=> Ended)
EndCalls == {"unsub", "stop", "free all"}

LEMMA RunsEnd ==
    ASSUME NEW op, NEW S, NEW C, Runs(op, S, C), op \notin EndCalls, S \cap EndCalls = {},
           C \cap EndCalls \subseteq {"unsub"}, spc = "run", spc' \notin {"unsub", "gone"}
    PROVE  EndSame
<1>1. /\ \A x \in Tracked : Has(x) => x = op \/ x \in C
      /\ \A x \in Tracked : Has(x)' <=> x \in S \/ (x \in C /\ Has(x))
      /\ "unsub" \in Tracked /\ "stop" \in Tracked /\ "free all" \in Tracked
  BY DEF Runs, Tracked
<1>2. ~Has("stop") /\ ~Has("stop")' /\ ~Has("free all") /\ ~Has("free all")'
  <2>1. \A x \in {"stop", "free all"} : x \notin C /\ x \notin S /\ x # op
    BY DEF EndCalls
  <2> QED BY <1>1, <2>1
<1>3. Has("unsub")' <=> Has("unsub")
  BY <1>1 DEF EndCalls
<1> QED BY <1>2, <1>3 DEF EndSame, Ending, Ended

LEMMA ComesEnd ==
    ASSUME NEW op, op \notin EndCalls, NEW S, S \cap EndCalls = {}, Runs(op, S, Comes),
           spc = "run", spc' \notin {"unsub", "gone"}
    PROVE  EndSame
<1>1. Comes \cap EndCalls = {}
  BY DEF Comes, EndCalls
<1> QED BY <1>1, RunsEnd

\* The calls that handle the events are not the end.
HandlingStep ==
    \/ Recheck \/ PatList \/ NitDoneInTs \/ NextBlind \/ LeaveTs \/ TryNit \/ NitMissing
    \/ NitFound \/ NextFreq \/ FendEvent \/ NotLocked \/ Begin \/ Tune \/ StartBlind \/ StartTs
    \/ LockedForNit \/ LockedForTs \/ RequestPmts \/ SkipSlot \/ RequestSlot \/ FreeSlot \/ Request
    \/ ((PatDone \/ SdtDone) /\ currTs)

LEMMA HandlingStates ==
    ASSUME HandlingStep
    PROVE  spc = "run" /\ spc' \in {"run", "window", "paused"}
BY DEF HandlingStep, Recheck, PatList, NitDoneInTs, NextBlind, LeaveTs, TryNit, NitMissing,
    NitFound, NextFreq, AllDone, FendEvent, NotLocked, Begin, Tune, StartBlind, StartTs, LockedForNit,
    LockedForTs, RequestPmts, SkipSlot, RequestSlot, FreeSlot, Request, PatDone, SdtDone,
    At, Freed, Then, Return, Signal

\* What comes instead of a task that handles an event.
Nexts == {"bs", "next", "trynit", "ts", "tune", "status", "leave"}

LEMMA HandlingTracked ==
    ASSUME Agenda, HandlingStep
    PROVE  \E op \in Handling \cup {"request"} : \E S \in SUBSET Nexts : Runs(op, S, Comes)
<1>1. /\ "recheck" \in Handling /\ "patlist" \in Handling /\ "done" \in Handling
      /\ "nextbs" \in Handling /\ "leave" \in Handling /\ "trynit" \in Handling
      /\ "next" \in Handling /\ "fend" \in Handling /\ "status" \in Handling /\ "begin" \in Handling
      /\ "tune" \in Handling /\ "bs" \in Handling /\ "ts" \in Handling /\ "pmts" \in Handling
      /\ "slot" \in Handling /\ "pmtfree" \in Handling
  BY DEF Handling
<1>2. ASSUME NEW op \in Handling, Runs0(op) \/ \E x \in Nexts : Runs1(op, x)
      PROVE  \E S \in SUBSET Nexts : Runs(op, S, Comes)
  <2>1. {} \in SUBSET Nexts /\ \A x \in Nexts : {x} \in SUBSET Nexts
    OBVIOUS
  <2> QED BY <1>2, <2>1 DEF Runs0, Runs1
<1>3. /\ "bs" \in Nexts /\ "next" \in Nexts /\ "trynit" \in Nexts /\ "ts" \in Nexts
      /\ "tune" \in Nexts /\ "status" \in Nexts /\ "leave" \in Nexts
  BY DEF Nexts
<1>5. ASSUME Recheck \/ PatList \/ NitDoneInTs \/ NextBlind \/ LeaveTs \/ TryNit \/ NitMissing
             \/ NitFound \/ NextFreq \/ FendEvent \/ NotLocked \/ Begin \/ (SdtDone /\ currTs)
      PROVE  \E op \in Handling : \E S \in SUBSET Nexts : Runs(op, S, Comes)
  BY <1>1, <1>2, <1>3, <1>5, CallRuns
<1>6. ASSUME Tune \/ StartBlind \/ StartTs \/ (PatDone /\ currTs)
      PROVE  \E op \in Handling : \E S \in SUBSET Nexts : Runs(op, S, Comes)
  BY <1>1, <1>2, <1>3, <1>6, BranchRuns, AskRuns
<1>7. ASSUME LockedForNit \/ LockedForTs \/ RequestPmts \/ SkipSlot \/ RequestSlot \/ FreeSlot \/ Request
      PROVE  \E op \in Handling \cup {"request"} : \E S \in SUBSET Nexts : Runs(op, S, Comes)
  <2>1. {} \in SUBSET Nexts
    OBVIOUS
  <2> QED BY <1>1, <1>7, <2>1, AskRuns, FreeRuns
<1> QED BY <1>5, <1>6, <1>7 DEF HandlingStep

LEMMA HandlingEnd ==
    ASSUME Agenda, HandlingStep
    PROVE  EndSame /\ ~Ending
<1>2. PICK op \in Handling \cup {"request"}, S \in SUBSET Nexts : Runs(op, S, Comes)
  BY HandlingTracked
<1>3. op \notin EndCalls /\ S \cap EndCalls = {} /\ "unsub" \notin Comes /\ "unsub" \in Tracked
  BY DEF EndCalls, Handling, Comes, Tracked, Nexts
<1>4. EndSame
  BY <1>2, <1>3, HandlingStates, ComesEnd
<1>5. ~Has("unsub")
  BY <1>2, <1>3 DEF Runs, EndCalls
<1> QED BY <1>4, <1>5, HandlingStates DEF Ending

\* A NIT is delivered in the TS stage only while there is a current transport stream.
LEMMA CollectedSafely ==
    ASSUME Inv, SectionCollected
    PROVE  UNCHANGED <<spc, agenda, sampled, timed>> /\ Same
<1>1. PICK t \in Handled : IF t = "nit" /\ stage = "ts" /\ ~currTs THEN Crash ELSE UNCHANGED <<spc, agenda>>
  BY DEF SectionCollected
<1>2. t \in Tables /\ fid[t] = section.fid /\ section # NoSection
  BY <1>1 DEF SectionCollected, Handled
<1>3. section.fid \in Fids
  BY <1>2 DEF Inv, Filtered
<1>4. fid[t] # NoFid
  <2>1. NoFid \notin Fids
    BY TablesFinite DEF Fids, NoFid
  <2> QED BY <1>2, <1>3, <2>1
<1>5. t = "nit" /\ stage = "ts" => currTs
  BY <1>4 DEF Inv, Current
<1>6. UNCHANGED <<spc, agenda>>
  BY <1>1, <1>5
<1>7. UNCHANGED <<sampled, timed>>
  BY DEF SectionCollected
<1>8. Same
  BY <1>6, InvParts, SameRuns
<1> QED BY <1>6, <1>7, <1>8

Apart == OutsideStep \/ SectionCollected

LEMMA ApartRuns ==
    ASSUME Inv, Apart
    PROVE  UNCHANGED <<spc, agenda, sampled, timed>> /\ Same
BY CollectedSafely, OutsideRuns, InvParts DEF Apart

\* What comes behind the handling of an event is not the end.
LEMMA HandlingNotEnd ==
    ASSUME Agenda, NEW op \in Handling, At(op)
    PROVE  ~Has("unsub") /\ ~Ending
<1>1. Pending = {<<op, Of>>} \cup Rest /\ \A y \in Rest : y[1] \in Behind(op)
  BY HeadTask DEF Heads
<1>2. "unsub" \notin Behind(op) /\ op # "unsub"
  BY HandlingBehind DEF Later, Handling
<1>3. Do("unsub") \notin Rest
  BY <1>1, <1>2 DEF Do
<1>4. Do("unsub") # <<op, Of>>
  BY <1>2 DEF Do
<1>5. ~Has("unsub")
  BY <1>1, <1>3, <1>4 DEF Has
<1> QED BY <1>5 DEF Ending, At

\* The steps of the passes over the tables and the events.
PassStep ==
    \/ Check \/ Complete \/ Wait \/ Woken \/ TimedOut \/ Clear
    \/ ((PatDone \/ SdtDone) /\ ~currTs)

LEMMA PassEnd ==
    ASSUME Agenda, PassStep, started \in BOOLEAN
    PROVE  EndSame /\ ~Ending
<1>1. "unsub" \in Tracked /\ "done" \in Handling
  BY DEF Tracked, Handling
<1>2. spc \in {"run", "wait"} /\ spc' \in {"run", "wait", "crashed"}
  BY DEF PassStep, Check, Complete, Wait, Woken, TimedOut, Clear, PatDone, SdtDone, At, Freed,
         Then, Crash, BeginPass
<1>3. ~Has("unsub")
  <2>1. (PatDone \/ SdtDone) => ~Has("unsub")
    <3>1. PatDone \/ SdtDone => At("done")
      BY DEF PatDone, SdtDone, Freed
    <3> QED BY <1>1, <3>1, HandlingNotEnd
  <2>2. Check \/ Complete => ~Has("unsub")
    BY <1>1, CheckRuns, CompleteRuns DEF Only
  <2>3. Wait \/ Woken \/ TimedOut \/ Clear => ~Has("unsub")
    BY <1>1, PassRuns DEF Only
  <2> QED BY <2>1, <2>2, <2>3 DEF PassStep
<1>4. ~Has("unsub")'
  <2>1. (PatDone \/ SdtDone) /\ ~currTs => ~Has("unsub")'
    BY <1>1, PassRuns DEF Only
  <2>2. Check \/ Complete => ~Has("unsub")'
    BY <1>1, CheckRuns, CompleteRuns DEF Only
  <2>3. Wait \/ Woken \/ TimedOut => ~Has("unsub")'
    BY <1>1, PassRuns DEF Only, HandlesNext
  <2>4. Clear => ~Has("unsub")'
    <3>1. Clear /\ evt' # {} => HandlesNext(evt')
      BY PassRuns
    <3>2. Clear /\ evt' = {} => ~Has("unsub")'
      BY <1>1, PassRuns DEF Only
    <3>3. \A e : HandlesNext(e) => ~Has("unsub")'
      BY <1>1 DEF HandlesNext
    <3> QED BY <3>1, <3>2, <3>3
  <2> QED BY <2>1, <2>2, <2>3, <2>4 DEF PassStep
<1> QED BY <1>2, <1>3, <1>4 DEF EndSame, Ending, Ended

\* The other steps.
FreeStep == NothingToFree \/ (Free /\ At("free"))
SameStep == Resume \/ (Free /\ At("done")) \/ Synced \/ Resumed \/ Joined
EndStep == Quit \/ Stop \/ StopBlind \/ Unlock \/ Unsubscribe

LEMMA StepKinds ==
    ASSUME Stepping
    PROVE  HandlingStep \/ PassStep \/ FreeStep \/ Window \/ BlindDone \/ SameStep \/ EndStep \/ Apart
<1>1. Free => At("free") \/ At("done")
  BY DEF Free
<1> QED BY <1>1 DEF Stepping, Next, ScannerStep, SectionHandled, Apart, OutsideStep, HandlingStep,
              PassStep, FreeStep, SameStep, EndStep

LEMMA EndKept ==
    ASSUME Inv, Stepping
    PROVE  \/ EndSame
           \/ Quit /\ ~Ending /\ Ending' /\ (Ended' <=> ~started)
           \/ Stop /\ Ending /\ Ended'
<1>0. Agenda /\ started \in BOOLEAN
  BY InvParts
<1>1. HandlingStep \/ PassStep => EndSame
  BY <1>0, HandlingEnd, PassEnd
<1>2. FreeStep \/ Window => EndSame
  <2>1. FreeStep => Runs("free", {}, Comes \cup {"ts"}) /\ spc = "run" /\ spc' \notin {"unsub", "gone"}
    BY <1>0, FreeRuns DEF FreeStep, Free, NothingToFree, Return, Then, At
  <2>2. Window => Runs("window", {}, Comes \cup {"begin", "leave", "unsub"}) /\ spc = "run" /\ spc' \notin {"unsub", "gone"}
    BY <1>0, FreeRuns DEF Window, Signal, At
  <2>3. /\ (Comes \cup {"ts"}) \cap EndCalls \subseteq {"unsub"}
        /\ (Comes \cup {"begin", "leave", "unsub"}) \cap EndCalls \subseteq {"unsub"}
        /\ "free" \notin EndCalls /\ "window" \notin EndCalls
    BY DEF Comes, EndCalls
  <2> QED BY <2>1, <2>2, <2>3, RunsEnd
<1>3. BlindDone => EndSame
  <2>1. BlindDone => Runs("blind", {"nextbs"}, {"quit", "clear"}) /\ spc = "run" /\ spc' = "join"
    BY <1>0, FreeRuns DEF BlindDone, At
  <2>2. {"nextbs"} \cap EndCalls = {} /\ {"quit", "clear"} \cap EndCalls \subseteq {"unsub"} /\ "blind" \notin EndCalls
    BY DEF EndCalls
  <2> QED BY <2>1, <2>2, RunsEnd
<1>4. SameStep \/ Apart => EndSame
  <2>1. SameStep => Same /\ spc \notin {"unsub", "gone"} /\ spc' \notin {"unsub", "gone"}
    BY <1>0, SameRuns DEF SameStep, Resume, Free, Synced, Resumed, Joined, At
  <2>2. Apart => Same /\ UNCHANGED spc
    BY ApartRuns
  <2> QED BY <2>1, <2>2 DEF EndSame, Ending, Ended, Same
<1>5. Quit => ~Ending /\ Ending' /\ (Ended' <=> ~started)
  <2>1. Quit => spc = "run" /\ spc' \in {"run", "window"}
    BY DEF Quit, At
  <2>2. Quit => /\ ~Has("unsub") /\ Has("unsub")'
                /\ (Has("stop")' <=> started) /\ ~Has("free all")'
    BY <1>0, QuitRuns DEF Only, Tracked
  <2> QED BY <2>1, <2>2 DEF Ending, Ended
<1>6. Stop => Ending /\ Ended'
  <2>1. Stop => Has("unsub") /\ Has("unsub")' /\ ~Has("stop")' /\ ~Has("free all")'
    BY <1>0, FreeRuns DEF Runs, Tracked
  <2> QED BY <2>1 DEF Ending, Ended
<1>7. StopBlind => EndSame
  <2>1. StopBlind => Has("unsub") /\ Has("unsub")' /\ Has("free all")'
    BY <1>0, FreeRuns DEF Runs, Tracked
  <2>2. StopBlind => Has("stop")
    BY <1>0, AtHas DEF StopBlind, Tracked
  <2> QED BY <2>1, <2>2 DEF EndSame, Ending, Ended
<1>8. Unlock \/ Unsubscribe => EndSame
  <2>1. Unlock => Has("unsub") /\ ~Has("stop") /\ ~Has("free all") /\ ~Has("stop")' /\ ~Has("free all")' /\ spc' = "unsub"
    BY <1>0, PassRuns DEF Only, Tracked, Unlock
  <2>2. Unsubscribe => Same /\ spc = "unsub" /\ spc' = "gone"
    BY <1>0, SameRuns DEF Unsubscribe
  <2> QED BY <2>1, <2>2 DEF EndSame, Ending, Ended, Same
<1> QED BY <1>1, <1>2, <1>3, <1>4, <1>5, <1>6, <1>7, <1>8, StepKinds DEF EndStep

\* The filters.
FilterStep == Free \/ Request \/ RequestSlot \/ Stop \/ SectionRead \/ SectionHandled

LEMMA FiltersUntouched ==
    ASSUME Stepping, ~FilterStep
    PROVE  /\ UNCHANGED <<fid, live, section>>
           /\ spc = "sync" => spc' = "sync" \/ section = NoSection
<1>1. ScannerStep => UNCHANGED <<fid, live, section>>
  BY DEF FilterStep, ScannerStep, Check, Recheck, Complete, Wait, Woken, TimedOut, Clear, Window, Resume,
        NothingToFree, Synced, FreeSlot, RequestPmts, SkipSlot,
        PatDone, PatList, SdtDone, NitDoneInTs, NitMissing, NitFound, TryNit, StartTs, Resumed,
        LeaveTs, NextFreq, Tune, FendEvent, NotLocked, LockedForNit, LockedForTs, Begin,
        StartBlind, BlindDone, NextBlind, Joined, Quit, StopBlind, Unlock, Untouched,
        dataVars, tableVars
<1>2. ScannerStep => (spc = "sync" => section = NoSection)
  BY DEF FilterStep, ScannerStep, Check, Recheck, Complete, Wait, Woken, TimedOut, Clear, Window, Resume,
        NothingToFree, Synced, FreeSlot, RequestPmts, SkipSlot,
        PatDone, PatList, SdtDone, NitDoneInTs, NitMissing, NitFound, TryNit, StartTs, Resumed,
        LeaveTs, NextFreq, Tune, FendEvent, NotLocked, LockedForNit, LockedForTs, Begin,
        StartBlind, BlindDone, NextBlind, Joined, Quit, StopBlind, Unlock, At, Freed
<1>3. Unsubscribe \/ FendStatus \/ FendCallback \/ BlindReport \/ BlindCallback \/ BlindEnds \/ AppStart
      \/ AppPause \/ Destroy \/ DestroyQuit \/ DestroyReturn \/ Terminated \/ UNCHANGED vars
      => /\ UNCHANGED <<fid, live, section>>
         /\ spc = "sync" => spc' = "sync" \/ section = NoSection
  BY DEF Unsubscribe, FendStatus, FendCallback, BlindReport, BlindCallback, BlindEnds, AppStart,
        AppPause, Destroy, DestroyQuit, DestroyReturn, Terminated, vars, dataVars, tableVars, outerVars, threadVars
<1> QED BY <1>1, <1>2, <1>3 DEF Stepping, Next, FilterStep

LEMMA Allocates ==
    ASSUME Inv, Request \/ RequestSlot
    PROVE  /\ \/ UNCHANGED <<fid, live>>
              \/ \E t \in Tables : /\ fid[t] = NoFid /\ LowestFree \in Fids \ live
                                   /\ fid' = [fid EXCEPT ![t] = LowestFree]
                                   /\ live' = live \cup {LowestFree}
           /\ UNCHANGED section /\ ~Ending /\ spc = "run"
<1>0. Agenda /\ TypeOK /\ Filtered
  BY InvParts DEF Inv
<1>1. ~Ending /\ spc = "run" /\ \A t \in Tables : fid[t] = NoFid => LowestFree \in Fids \ live
  BY <1>0, AskedFor
<1>2. Request => \/ UNCHANGED <<fid, live>>
                 \/ Of \in Tables /\ fid[Of] = NoFid /\ Allocated(Of)
  BY <1>0, FreeRuns DEF Request, NotAllocated
<1>3. RequestSlot => \/ UNCHANGED <<fid, live>>
                     \/ Slot \in Tables /\ fid[Slot] = NoFid /\ Allocated(Slot)
  BY <1>0, SlotOf DEF RequestSlot, NotAllocated
<1>4. UNCHANGED section
  BY DEF Request, RequestSlot, Untouched
<1> QED BY <1>1, <1>2, <1>3, <1>4 DEF Allocated

LEMMA FilteredKept ==
    ASSUME Inv, Stepping
    PROVE  Filtered'
<1>0. /\ Filtered /\ fid \in [Tables -> Fids \cup {NoFid}] /\ live \subseteq Fids /\ NoFid \notin Fids
      /\ section \in [table : Tables \cup {"none"}, fid : Fids \cup {NoFid}, stale : BOOLEAN]
  BY InvParts, TablesFinite DEF Inv, TypeOK, Fids, NoFid
<1>1. CASE ~FilterStep
  <2>1. /\ UNCHANGED <<fid, live, section>> /\ UNCHANGED Handled
        /\ spc = "sync" => spc' = "sync" \/ section = NoSection
    BY <1>1, FiltersUntouched DEF Handled
  <2>2. CASE EndSame
    BY <1>0, <2>1, <2>2 DEF Filtered, EndSame, NoSection
  <2>3. CASE Quit /\ ~Ending /\ Ending' /\ (Ended' <=> ~started)
    <3>1. ~Ended /\ spc = "run" /\ live = {fid[t] : t \in Tables} \ {NoFid}
      BY <1>0, <2>3 DEF Filtered, Ended, Quit, At
    <3>2. ~started => live = {} /\ section = NoSection
      BY <3>1 DEF Inv, NotStarted
    <3> QED BY <1>0, <2>1, <2>3, <3>1, <3>2 DEF Filtered
  <2> QED BY <1>1, <2>2, <2>3, EndKept DEF FilterStep
<1>2. CASE Free
  <2>1. EndSame /\ spc = "run" /\ spc' = "sync" /\ Of \in Tables /\ fid[Of] # NoFid
    <3>1. EndSame
      BY <1>2, EndKept DEF Free, Quit, Stop, At
    <3>2. Of \in Tables
      BY <1>2, InvParts, HeadOf DEF Free
    <3> QED BY <1>2, <3>1, <3>2 DEF Free, At
  <2>2. /\ fid' = [fid EXCEPT ![Of] = NoFid] /\ live' = live \ {fid[Of]}
        /\ section' = [section EXCEPT !.stale = section.stale \/ section.fid = fid[Of]]
    BY <1>2 DEF Free
  <2>3. ~section.stale
    BY <1>0, <2>1 DEF Filtered
  <2>4. /\ section'.fid = section.fid
        /\ section'.stale <=> section.fid = fid[Of]
        /\ section = NoSection => section' = NoSection
    <3>1. section'.fid = section.fid /\ section'.stale = (section.stale \/ section.fid = fid[Of])
      BY <1>0, <2>2
    <3>2. ASSUME section = NoSection
          PROVE  section' = NoSection
      <4>1. section.fid = NoFid /\ section.stale = FALSE
        BY <3>2 DEF NoSection
      <4>2. (section.stale \/ section.fid = fid[Of]) = FALSE
        BY <2>1, <4>1
      <4>3. section' = [section EXCEPT !.stale = FALSE]
        BY <2>2, <4>2
      <4> QED BY <3>2, <4>3 DEF NoSection
    <3> QED BY <2>3, <3>1, <3>2
  <2>5. \A t \in Tables : fid'[t] = IF t = Of THEN NoFid ELSE fid[t]
    BY <1>0, <2>2
  <2>6. \A t, z \in Tables : fid'[t] = fid'[z] /\ fid'[t] # NoFid => t = z
    BY <1>0, <2>5 DEF Filtered
  <2>7. ~Ended' => live' = {fid'[t] : t \in Tables} \ {NoFid}
    <3>1. ASSUME ~Ended'
          PROVE  live = {fid[t] : t \in Tables} \ {NoFid}
      BY <1>0, <2>1, <3>1 DEF Filtered, EndSame
    <3> QED BY <1>0, <2>1, <2>2, <2>5, <3>1 DEF Filtered
  <2>8. Ended' => live' = {}
    BY <1>0, <2>1, <2>2 DEF Filtered, EndSame
  <2>9. section'.stale => Handled' = {}
    <3>1. ASSUME section'.stale, NEW t \in Tables
          PROVE  fid'[t] # section'.fid
      BY <1>0, <2>1, <2>4, <2>5, <3>1 DEF Filtered
    <3> QED BY <3>1 DEF Handled
  <2>10. section' = NoSection \/ section'.fid \in Fids
    BY <1>0, <2>4 DEF Filtered
  <2> QED BY <2>1, <2>6, <2>7, <2>8, <2>9, <2>10 DEF Filtered
<1>3. CASE Request \/ RequestSlot
  <2>1. /\ \/ UNCHANGED <<fid, live>>
           \/ \E t \in Tables : /\ fid[t] = NoFid /\ LowestFree \in Fids \ live
                                /\ fid' = [fid EXCEPT ![t] = LowestFree]
                                /\ live' = live \cup {LowestFree}
        /\ UNCHANGED section /\ ~Ending /\ spc = "run"
    BY <1>3, Allocates
  <2>2. EndSame
    BY <1>3, InvParts, HandlingEnd DEF HandlingStep
  <2>3. ~Ended /\ ~Ended' /\ ~section.stale
    BY <1>0, <2>1, <2>2 DEF Ended, EndSame, Filtered
  <2>4. CASE UNCHANGED <<fid, live>>
    BY <1>0, <2>1, <2>3, <2>4 DEF Filtered
  <2>5. CASE \E t \in Tables : /\ fid[t] = NoFid /\ LowestFree \in Fids \ live
                               /\ fid' = [fid EXCEPT ![t] = LowestFree]
                               /\ live' = live \cup {LowestFree}
    <3>1. PICK t \in Tables : /\ fid[t] = NoFid /\ LowestFree \in Fids \ live
                              /\ fid' = [fid EXCEPT ![t] = LowestFree]
                              /\ live' = live \cup {LowestFree}
      BY <2>5
    <3>2. \A z \in Tables : fid'[z] = IF z = t THEN LowestFree ELSE fid[z]
      BY <1>0, <3>1
    <3>3. live = {fid[z] : z \in Tables} \ {NoFid} /\ LowestFree # NoFid
      BY <1>0, <2>3, <3>1 DEF Filtered
    <3>4. \A z \in Tables : fid[z] # LowestFree
      BY <3>1, <3>3
    <3>5. \A y, z \in Tables : fid'[y] = fid'[z] /\ fid'[y] # NoFid => y = z
      BY <1>0, <3>2, <3>4 DEF Filtered
    <3>6. live' = {fid'[z] : z \in Tables} \ {NoFid}
      BY <3>1, <3>2, <3>3
    <3> QED BY <1>0, <2>1, <2>3, <3>5, <3>6 DEF Filtered
  <2> QED BY <2>1, <2>4, <2>5
<1>4. CASE Stop
  <2>1. Ended' /\ spc = "run" /\ spc' = "sync" /\ live' = {} /\ UNCHANGED <<fid, section>>
    <3>1. Ended'
      BY <1>4, InvParts, FreeRuns DEF Ended, Ending, Runs, Tracked
    <3> QED BY <1>4, <3>1 DEF Stop, At, Untouched
  <2> QED BY <1>0, <2>1 DEF Filtered
<1>5. CASE SectionRead
  <2>1. EndSame /\ UNCHANGED <<spc, fid, live>>
    <3>1. Apart /\ ~Quit /\ ~Stop
      BY <1>5 DEF Apart, OutsideStep, SectionRead, Outside, Quit, Stop, At
    <3> QED BY <1>5, <3>1, EndKept DEF SectionRead, dataVars, tableVars, threadVars
  <2>2. PICK t \in Tables : fid[t] \in live /\ section' = [table |-> t, fid |-> fid[t], stale |-> FALSE]
    BY <1>5 DEF SectionRead
  <2>3. section'.fid \in Fids /\ ~section'.stale
    BY <1>0, <2>2
  <2>4. ~Ended
    BY <1>0, <2>2 DEF Filtered
  <2> QED BY <1>0, <2>1, <2>3, <2>4 DEF Filtered, EndSame
<1>6. CASE SectionHandled
  <2>1. EndSame /\ UNCHANGED <<spc, fid, live>> /\ section' = NoSection
    <3>1. Apart
      BY <1>6 DEF Apart, OutsideStep, SectionHandled
    <3>2. ~Quit /\ ~Stop
      BY <1>6 DEF SectionHandled, SectionIgnored, SectionUndecoded, SectionCollected, LockFree, LockFreeStates, Quit, Stop, At
    <3>3. UNCHANGED <<fid, live>> /\ section' = NoSection
      BY <1>6 DEF SectionHandled, SectionIgnored, SectionUndecoded, SectionCollected, dataVars, tableVars
    <3> QED BY <3>1, <3>2, <3>3, ApartRuns, EndKept
  <2> QED BY <1>0, <2>1 DEF Filtered, EndSame, NoSection
<1> QED BY <1>1, <1>2, <1>3, <1>4, <1>5, <1>6 DEF FilterStep

\* A scanner that was not started has nothing to do.
IdleTasks == Finals \cup {"window", "begin"}

LEMMA NotStartedAt ==
    ASSUME Inv, ~started, NEW op, At(op)
    PROVE  op \in IdleTasks
<1>1. \A x \in Pending : x[1] \in IdleTasks
  BY DEF Inv, NotStarted, IdleTasks
<1>2. <<op, Of>> \in Pending
  BY InvParts, HeadTask DEF Heads
<1> QED BY <1>1, <1>2

IdleStep ==
    \/ Check \/ Wait \/ Woken \/ TimedOut \/ Clear \/ Window \/ Resume \/ Synced \/ Resumed
    \/ Quit \/ Unlock \/ Unsubscribe \/ AppStart \/ AppPause \/ Destroy \/ DestroyQuit
    \/ DestroyReturn \/ Terminated \/ UNCHANGED vars

LEMMA IdleSteps ==
    ASSUME Inv, Stepping, ~started'
    PROVE  ~started /\ IdleStep
<1>1. ~started
  <2>1. ScannerStep => started' = started \/ Begin
    BY DEF ScannerStep, Check, Recheck, Complete, Wait, Woken, TimedOut, Clear, Window, Resume,
        Free, NothingToFree, Synced, Request, FreeSlot, RequestPmts, RequestSlot, SkipSlot,
        PatDone, PatList, SdtDone, NitDoneInTs, NitMissing, NitFound, TryNit, StartTs, Resumed,
        LeaveTs, NextFreq, AllDone, Tune, FendEvent, NotLocked, LockedForNit, LockedForTs,
        StartBlind, BlindDone, NextBlind, Joined, Quit, StopBlind, Stop, Unlock, dataVars, scanVars
  <2>2. Unsubscribe \/ SectionRead \/ SectionHandled \/ FendStatus \/ FendCallback \/ BlindReport
        \/ BlindCallback \/ BlindEnds \/ AppStart \/ AppPause \/ Destroy \/ DestroyQuit \/ DestroyReturn
        \/ Terminated \/ UNCHANGED vars => started' = started
    BY DEF Unsubscribe, SectionRead, SectionHandled, SectionIgnored, SectionUndecoded,
        SectionCollected, FendStatus, FendCallback, BlindReport, BlindCallback, BlindEnds,
        AppStart, AppPause, Destroy, DestroyQuit, DestroyReturn, Terminated, vars, dataVars, scanVars
  <2>3. Begin => started'
    BY DEF Begin
  <2> QED BY <2>1, <2>2, <2>3 DEF Stepping, Next
<1>2. /\ stage = "start" /\ section = NoSection /\ bpc = "none" /\ ~subscribed /\ fevt = NoList
      /\ \A t \in Tables : fid[t] = NoFid
      /\ live \subseteq Fids /\ NoFid \notin Fids
  BY <1>1, InvParts, TablesFinite DEF Inv, NotStarted, TypeOK, Fids, NoFid
<1>3. ~Begin
  BY DEF Begin
<1>4. ~ (SectionRead \/ SectionHandled \/ FendStatus \/ FendCallback \/ BlindReport \/ BlindCallback
         \/ BlindEnds \/ Joined \/ Complete)
  BY <1>2 DEF SectionRead, SectionHandled, SectionIgnored, SectionUndecoded, SectionCollected,
       FendStatus, FendCallback, BlindReport, BlindCallback, BlindEnds, Joined, Complete
<1>5. \A op \in {"recheck", "free", "done", "request", "pmtfree", "pmts", "slot", "patlist", "trynit",
                 "ts", "leave", "next", "tune", "fend", "status", "bs", "blind", "nextbs", "stop",
                 "free all"} : ~At(op)
  <2>1. \A op \in {"recheck", "free", "done", "request", "pmtfree", "pmts", "slot", "patlist", "trynit",
                 "ts", "leave", "next", "tune", "fend", "status", "bs", "blind", "nextbs", "stop",
                 "free all"} : op \notin IdleTasks
    BY DEF IdleTasks, Finals
  <2> QED BY <1>1, <2>1, NotStartedAt
<1>6. /\ ~At("recheck") /\ ~At("free") /\ ~At("done") /\ ~At("request") /\ ~At("pmtfree")
      /\ ~At("pmts") /\ ~At("slot") /\ ~At("patlist") /\ ~At("trynit") /\ ~At("ts") /\ ~At("leave")
      /\ ~At("next") /\ ~At("tune") /\ ~At("fend") /\ ~At("status") /\ ~At("bs") /\ ~At("blind")
      /\ ~At("nextbs") /\ ~At("stop") /\ ~At("free all")
  BY <1>5
<1>7. ScannerStep => IdleStep
  BY <1>3, <1>4, <1>6 DEF ScannerStep, IdleStep, Recheck, Free, NothingToFree, Request, FreeSlot,
        RequestPmts, RequestSlot, SkipSlot, PatDone, PatList, SdtDone, NitDoneInTs, NitMissing,
        NitFound, Freed, TryNit, StartTs, LeaveTs, NextFreq, Tune, FendEvent, NotLocked, LockedForNit,
        LockedForTs, StartBlind, BlindDone, NextBlind, StopBlind, Stop
<1> QED BY <1>1, <1>4, <1>7 DEF Stepping, Next, IdleStep

LEMMA IdleTyped ==
    /\ \A op \in {"wait", "clear", "quit", "complete", "unsub", "window", "begin"} : Do(op)[1] \in IdleTasks
    /\ \A i : <<"check", i>>[1] \in IdleTasks
BY DEF Do, IdleTasks, Finals

LEMMA NotStartedKept ==
    ASSUME Inv, Stepping
    PROVE  NotStarted'
<1> SUFFICES ASSUME ~started'
             PROVE  NotStarted'
  BY DEF NotStarted
<1>1. ~started /\ IdleStep /\ Agenda /\ TypeOK /\ started \in BOOLEAN
  BY IdleSteps, InvParts
<1>2. /\ mode = plan.mode /\ stage = "start" /\ recv = {} /\ ~currTs
      /\ evt \subseteq {"start", "quit"} /\ section = NoSection /\ bpc = "none"
      /\ ~subscribed /\ fevt = NoList
      /\ \A t \in Tables : fid[t] = NoFid
      /\ \A x \in Pending : x[1] \in IdleTasks
  BY <1>1 DEF Inv, NotStarted, IdleTasks
<1>3. /\ UNCHANGED <<mode, plan, stage, recv, currTs, section, bpc, fevt, fid>> /\ ~subscribed'
      /\ evt' \subseteq {"start", "quit"}
  <2>1. CASE Check \/ Wait \/ Woken \/ TimedOut \/ Clear \/ Window \/ Resume \/ Synced \/ Resumed \/ Quit \/ Unlock
    <3>1. UNCHANGED <<mode, plan, stage, recv, currTs, section, bpc, fevt, fid>> /\ subscribed' = subscribed
      BY <2>1 DEF Check, Wait, Woken, TimedOut, Clear, Window, Resume, Synced, Resumed, Quit,
         Unlock, Untouched, dataVars, scanVars, progVars, tableVars, blindVars, fendVars
    <3>2. evt' = evt \/ evt' = evt \ sampled
      BY <2>1 DEF Check, Wait, Woken, TimedOut, Clear, Window, Resume, Synced, Resumed, Quit,
         Unlock, Untouched, dataVars
    <3> QED BY <1>2, <3>1, <3>2
  <2>2. CASE Unsubscribe \/ AppStart \/ AppPause \/ Destroy \/ DestroyQuit \/ DestroyReturn \/ Terminated \/ UNCHANGED vars
    <3>1. UNCHANGED <<mode, plan, stage, recv, currTs, section, bpc, fevt, fid>>
      BY <2>2 DEF Unsubscribe, AppStart, AppPause, Destroy, DestroyQuit, DestroyReturn, Terminated,
         vars, dataVars, scanVars, tableVars, blindVars, fendVars, outerVars
    <3>2. evt' \in {evt, evt \cup {"start"}, evt \cup {"quit"}} /\ (subscribed' => subscribed)
      BY <2>2 DEF Unsubscribe, AppStart, AppPause, Destroy, DestroyQuit, DestroyReturn, Terminated,
         vars, Raise, dataVars, fendVars, outerVars
    <3>3. evt' \subseteq {"start", "quit"} /\ ~subscribed'
      BY <1>2, <3>2
    <3> QED BY <3>1, <3>3
  <2> QED BY <1>1, <2>1, <2>2 DEF IdleStep
<1>4. ASSUME NEW e, e \subseteq {"start", "quit"}, NEW x \in HandleTasks(e)
      PROVE  x[1] \in IdleTasks
  <2>1. x \in {Do("window"), Do("begin"), Do("quit"), Do("clear")}
    BY <1>4 DEF HandleTasks
  <2> QED BY <2>1, IdleTyped
<1>5. \A x \in Pending' : x[1] \in IdleTasks
  <2>1. CASE Check
    <3>1. Late(Of) = {}
      <4>1. \A t : ~Waited(t)
        BY <1>2 DEF Waited
      <4> QED BY <4>1 DEF Late, LookedAt
    <3>2. Pending' \subseteq {Do("complete")}
      BY <1>1, <2>1, <3>1, CheckPops
    <3> QED BY <3>2, IdleTyped
  <2>2. CASE Wait \/ Woken
    <3>1. Pending' = {} \/ Pending' = HandleTasks(evt)
      BY <1>1, <2>2, EventPops DEF Emptying
    <3> QED BY <1>2, <1>4, <3>1
  <2>3. CASE TimedOut
    BY <1>1, <2>3, EventPops, IdleTyped
  <2>4. CASE Clear
    <3> DEFINE e == evt'
    <3>1. Pending' = {<<"check", 1>>} \/ Pending' = HandleTasks(e)
      BY <1>1, <2>4, EventPops
    <3>2. e \subseteq {"start", "quit"}
      BY <1>3
    <3> HIDE DEF e
    <3> QED BY <1>4, <3>1, <3>2, IdleTyped
  <2>5. CASE Window
    <3>1. Pending = {<<"window", Of>>} \cup Rest /\ Pending' = {} \cup Rest
      BY <1>1, <2>5, SimplePops DEF Pops, Heads
    <3> QED BY <1>2, <3>1
  <2>6. CASE Quit
    <3>1. Pending' = {Do("window"), Do("unsub")}
      BY <1>1, <2>6, QuitPops
    <3> QED BY <3>1, IdleTyped
  <2>7. CASE Unlock
    BY <1>1, <2>7, OtherPops DEF Emptying
  <2>8. CASE Resume \/ Synced \/ Resumed \/ Unsubscribe
    BY <1>1, <1>2, <2>8, OtherPops
  <2>9. CASE AppStart \/ AppPause \/ Destroy \/ DestroyQuit \/ DestroyReturn \/ Terminated \/ UNCHANGED vars
    <3>1. Same
      BY <1>1, <2>9, OutsideRuns DEF OutsideStep
    <3> QED BY <1>2, <3>1 DEF Same
  <2> QED BY <1>1, <2>1, <2>2, <2>3, <2>4, <2>5, <2>6, <2>7, <2>8, <2>9 DEF IdleStep
<1> QED BY <1>2, <1>3, <1>5 DEF NotStarted, IdleTasks

\* A scanner is started once, and the events are cleared by the thread only.
LEMMA StartedKept ==
    ASSUME Stepping
    PROVE  Begin \/ started' = started
<1>1. ScannerStep => started' = started \/ Begin
  BY DEF ScannerStep, Check, Recheck, Complete, Wait, Woken, TimedOut, Clear, Window, Resume,
        Free, NothingToFree, Synced, Request, FreeSlot, RequestPmts, RequestSlot, SkipSlot,
        PatDone, PatList, SdtDone, NitDoneInTs, NitMissing, NitFound, TryNit, StartTs, Resumed,
        LeaveTs, NextFreq, AllDone, Tune, FendEvent, NotLocked, LockedForNit, LockedForTs,
        StartBlind, BlindDone, NextBlind, Joined, Quit, StopBlind, Stop, Unlock, dataVars, scanVars
<1>2. Unsubscribe \/ SectionRead \/ SectionHandled \/ FendStatus \/ FendCallback \/ BlindReport
      \/ BlindCallback \/ BlindEnds \/ AppStart \/ AppPause \/ Destroy \/ DestroyQuit \/ DestroyReturn
      \/ Terminated \/ UNCHANGED vars => started' = started
  BY DEF Unsubscribe, SectionRead, SectionHandled, SectionIgnored, SectionUndecoded,
        SectionCollected, FendStatus, FendCallback, BlindReport, BlindCallback, BlindEnds,
        AppStart, AppPause, Destroy, DestroyQuit, DestroyReturn, Terminated, vars, dataVars, scanVars
<1> QED BY <1>1, <1>2 DEF Stepping, Next

PassBegins == Wait \/ Woken \/ TimedOut \/ Clear

LEMMA EventsKept ==
    ASSUME Stepping
    PROVE  /\ PassBegins \/ (evt \subseteq evt' /\ sampled' = sampled)
           /\ PassBegins \/ SectionHandled \/ FendCallback \/ BlindCallback \/ AppStart \/ DestroyQuit \/ evt' = evt
<1>1. ScannerStep => PassBegins \/ UNCHANGED <<evt, sampled>>
  BY DEF PassBegins, ScannerStep, Check, Recheck, Complete, Window, Resume,
        Free, NothingToFree, Synced, Request, FreeSlot, RequestPmts, RequestSlot, SkipSlot,
        PatDone, PatList, SdtDone, NitDoneInTs, NitMissing, NitFound, TryNit, StartTs, Resumed,
        LeaveTs, NextFreq, Tune, FendEvent, NotLocked, LockedForNit, LockedForTs, Begin,
        StartBlind, BlindDone, NextBlind, Joined, Quit, StopBlind, Stop, Unlock, dataVars
<1>2. Unsubscribe \/ SectionRead \/ FendStatus \/ BlindReport \/ BlindEnds \/ AppPause \/ Destroy
      \/ DestroyReturn \/ Terminated \/ UNCHANGED vars => UNCHANGED <<evt, sampled>>
  BY DEF Unsubscribe, SectionRead, FendStatus, BlindReport, BlindEnds, AppPause, Destroy,
        DestroyReturn, Terminated, vars, dataVars, threadVars
<1>3. SectionHandled \/ FendCallback \/ BlindCallback \/ AppStart \/ DestroyQuit => evt \subseteq evt' /\ sampled' = sampled
  <2>1. SectionHandled \/ FendCallback \/ BlindCallback \/ AppStart \/ DestroyQuit => sampled' = sampled
    BY DEF SectionHandled, SectionIgnored, SectionUndecoded, SectionCollected, FendCallback,
         BlindCallback, AppStart, DestroyQuit, threadVars
  <2>2. SectionIgnored \/ SectionUndecoded \/ SectionCollected => evt \subseteq evt'
    BY DEF SectionIgnored, SectionUndecoded, SectionCollected, Raise, dataVars
  <2>3. FendCallback \/ BlindCallback \/ AppStart \/ DestroyQuit => evt \subseteq evt'
    BY DEF FendCallback, BlindCallback, AppStart, DestroyQuit, Raise
  <2> QED BY <2>1, <2>2, <2>3 DEF SectionHandled
<1> QED BY <1>1, <1>2, <1>3 DEF Stepping, Next

\* The tasks behind the first one.
LEMMA RestOf ==
    ASSUME Agenda, agenda # << >>
    PROVE  Rest \subseteq Pending
BY Split DEF Agenda

\* The ends of tables that are behind the first task after the step were so before.
NoDone(N) == \A t \in Tables : For("done", t) \notin N
DoneBehind == agenda' # << >> => \A t \in Tables : For("done", t) \in Rest' => For("done", t) \in Rest

LEMMA PopsDone ==
    ASSUME NEW op, NEW N, Pops(op, N), NoDone(N)
    PROVE  DoneBehind
<1>1. Agenda' /\ Pending' = N \cup Rest
  BY DEF Pops
<1>2. agenda' # << >> => Rest' \subseteq Pending'
  <2>1. (Agenda /\ agenda # << >> => Rest \subseteq Pending)'
    BY RestOf, PTL
  <2> QED BY <1>1, <2>1
<1> QED BY <1>1, <1>2 DEF NoDone, DoneBehind

LEMMA NoDoneTasks ==
    /\ NoDone({})
    /\ \A x : NoDone({Do(x)})
    /\ \A x, y : NoDone({Do(x), Do(y)})
    /\ \A x, t : x # "done" => NoDone({For(x, t)})
    /\ \A x, y, s, t : x # "done" /\ y # "done" => NoDone({For(x, s), For(y, t)})
    /\ \A M, N : NoDone(M) /\ NoDone(N) => NoDone(M \cup N)
<1>1. \A t \in Tables : \A x : For("done", t) # Do(x)
  <2>1. "none" \notin Tables
    BY SlotsAssumption DEF Tables
  <2> QED BY <2>1 DEF For, Do
<1>2. \A x, s, t : x # "done" => For("done", t) # For(x, s)
  BY DEF For
<1> QED BY <1>1, <1>2 DEF NoDone

LEMMA HandlingDone ==
    ASSUME Agenda, HandlingStep
    PROVE  DoneBehind
<1>1. ASSUME NEW op, NEW N, Pops(op, N), NEW x, N = {} \/ N = {Do(x)}
      PROVE  DoneBehind
  BY <1>1, NoDoneTasks, PopsDone
<1>2. CASE Recheck \/ PatList \/ NitDoneInTs
  BY <1>1, <1>2, SimplePops
<1>3. CASE NextBlind \/ LeaveTs \/ TryNit \/ NitMissing
  BY <1>1, <1>3, SimplePops
<1>4. CASE LockedForNit
  <2>1. NoDone({For("request", "nit")})
    BY NoDoneTasks
  <2> QED BY <1>4, <2>1, SimplePops, PopsDone
<1>5. CASE NitFound \/ ((PatDone \/ SdtDone) /\ currTs)
  <2>1. NoDone({Do("patlist"), Do("pmts")})
    BY NoDoneTasks
  <2> QED BY <1>1, <1>5, <2>1, DonePops, PopsDone
<1>6. CASE NextFreq \/ FendEvent
  <2> DEFINE N == IF curr + 1 >= cnt THEN {} ELSE {Do("tune")}
             M == IF FendExpected THEN {Do("status")} ELSE {}
  <2>1. NoDone(N) /\ NoDone(M)
    BY NoDoneTasks
  <2>2. (NextFreq => Pops("next", N)) /\ (FendEvent => Pops("fend", M))
    BY TunePops
  <2> HIDE DEF N, M
  <2> QED BY <1>6, <2>1, <2>2, PopsDone
<1>7. CASE Tune \/ NotLocked
  <2> DEFINE N == IF stage = "nit" THEN {Do("trynit")} ELSE IF stage = "ts" THEN {Do("ts")} ELSE {}
  <2>1. NoDone(N)
    BY NoDoneTasks
  <2>2. (NotLocked => Pops("status", N)) /\ (Tune => Pops("tune", {}) \/ Pops("tune", {Do("next")}))
    BY TunePops
  <2> HIDE DEF N
  <2> QED BY <1>1, <1>7, <2>1, <2>2, PopsDone
<1>8. CASE Begin \/ StartBlind
  <2>1. NoDone(Begins)
    BY NoDoneTasks DEF Begins
  <2> QED BY <1>1, <1>8, <2>1, BeginPops, PopsDone
<1>9. CASE StartTs
  <2> DEFINE N == IF curr >= 0 THEN {Do("window"), Do("leave")} ELSE {Do("leave")}
  <2>1. NoDone(N)
    BY NoDoneTasks
  <2>2. Pops("ts", N)
    BY <1>9, StartTsPops
  <2> HIDE DEF N
  <2> QED BY <2>1, <2>2, PopsDone
<1>10. CASE LockedForTs
  <2> DEFINE M == {For("request", "pat"), For("request", "sdt")}
             P == IF plan.source = "terrestrial" THEN {For("request", "nit")} ELSE {}
  <2>1. NoDone(M) /\ NoDone(P)
    BY NoDoneTasks
  <2>2. Pops("status", M \cup P)
    BY <1>10, LockedPops
  <2> HIDE DEF M, P
  <2>3. NoDone(M \cup P)
    BY <2>1, NoDoneTasks
  <2> QED BY <2>2, <2>3, PopsDone
<1>11. CASE RequestPmts \/ SkipSlot \/ RequestSlot
  <2>1. \A i : NoDone({<<"slot", i>>})
    BY NoDoneTasks DEF For
  <2> DEFINE N == IF currTs /\ pats # NoList THEN {<<"slot", 1>>} ELSE {}
  <2>2. NoDone(N) /\ NoDone(Slotted(Of + 1)) /\ NoDone({})
    BY <2>1, NoDoneTasks DEF Slotted
  <2>3. RequestPmts => Pops("pmts", N)
    BY SlotPops
  <2> HIDE DEF N
  <2> QED BY <1>11, <2>2, <2>3, SlotPops, PopsDone
<1>12. CASE FreeSlot \/ Request
  <2> DEFINE N == IF Arrived THEN {For("free", Of)} ELSE {}
             M == IF fid[Of] # NoFid THEN {For("free", Of), For("request", Of)} ELSE {}
  <2>1. NoDone(N) /\ NoDone(M)
    BY NoDoneTasks
  <2>2. (FreeSlot => Pops("pmtfree", N)) /\ (Request => Pops("request", M))
    BY FreeSlotPops, RequestPops
  <2> HIDE DEF N, M
  <2> QED BY <1>12, <2>1, <2>2, PopsDone
<1> QED BY <1>2, <1>3, <1>4, <1>5, <1>6, <1>7, <1>8, <1>9, <1>10, <1>11, <1>12 DEF HandlingStep

LEMMA OtherDone ==
    ASSUME Agenda
    PROVE  /\ FreeStep \/ Window \/ BlindDone \/ Stop \/ StopBlind => DoneBehind
           /\ SameStep \/ Unsubscribe => DoneBehind
<1>1. FreeStep \/ Window \/ BlindDone \/ Stop \/ StopBlind => DoneBehind
  BY SimplePops, OtherPops, NoDoneTasks, PopsDone DEF FreeStep
<1>2. SameStep \/ Unsubscribe => agenda' = agenda
  BY DEF SameStep, Unsubscribe, Resume, Free, Synced, Resumed, Joined, At
<1>3. agenda' = agenda => DoneBehind
  BY DEF DoneBehind, Rest
<1> QED BY <1>1, <1>2, <1>3

LEMMA RangeNone ==
    ASSUME NEW S, NEW s \in Seq(S), Range(s) = {}
    PROVE  s = << >>
<1>1. Range(s) = {s[i] : i \in 1 .. Len(s)}
  BY RangeEquality
<1>2. Len(s) \in Nat /\ (Len(s) > 0 => 1 \in 1 .. Len(s))
  BY LenProperties
<1>3. ASSUME Len(s) > 0
      PROVE  FALSE
  <2>1. s[1] \in {s[i] : i \in 1 .. Len(s)}
    BY <1>2, <1>3
  <2> QED BY <1>1, <2>1
<1>4. Len(s) = 0
  BY <1>2, <1>3
<1> QED BY <1>4, EmptySeq

\* What is behind the first of three tasks.
LEMMA BehindFirst ==
    ASSUME NEW x, NEW y, NEW z
    PROVE  Range(Tail((<<x>> \o <<y, z>>) \o << >>)) = {y, z}
<1> DEFINE S == {x, y, z}
           a == <<x>>
           b == <<y, z>>
           e == << >>
<1>1. /\ a \in Seq(S) /\ b \in Seq(S) /\ Len(a) = 1 /\ Len(b) = 2 /\ b[1] = y /\ b[2] = z
  OBVIOUS
<1>2. e \in Seq(S) /\ Len(e) = 0
  OBVIOUS
<1> HIDE DEF S, a, b, e
<1>3. /\ a \o b \in Seq(S) /\ Len(a \o b) = 3
      /\ (a \o b)[2] = b[1] /\ (a \o b)[3] = b[2]
  BY <1>1, ConcatProperties
<1>4. (a \o b) \o e = a \o b
  BY <1>3, ConcatEmptySeq DEF e
<1>5. ASSUME NEW s \in Seq(S), Len(s) = 3
      PROVE  Range(Tail(s)) = {s[2], s[3]}
  <2>0. /\ Tail(s) \in Seq(S) /\ Len(Tail(s)) = Len(s) - 1
        /\ \A i \in 1 .. Len(s) - 1 : Tail(s)[i] = s[i + 1]
    BY <1>5, HeadTailProperties, EmptySeq
  <2>1. Tail(s) \in Seq(S) /\ Len(Tail(s)) = 2 /\ Tail(s)[1] = s[2] /\ Tail(s)[2] = s[3]
    <3>1. 1 \in 1 .. Len(s) - 1 /\ 2 \in 1 .. Len(s) - 1
      BY <1>5
    <3>2. Tail(s)[1] = s[1 + 1] /\ Tail(s)[2] = s[2 + 1]
      BY <2>0, <3>1
    <3> QED BY <1>5, <2>0, <3>2
  <2>2. Range(Tail(s)) = {Tail(s)[i] : i \in 1 .. 2}
    BY <2>1, RangeEquality
  <2>3. 1 .. 2 = {1, 2}
    OBVIOUS
  <2> QED BY <2>1, <2>2, <2>3
<1> QED BY <1>1, <1>3, <1>4, <1>5 DEF a, b, e

\* When the time of a table is up, its end is the first task.
LEMMA CheckDone ==
    ASSUME Agenda, Check
    PROVE  agenda' # << >> => \A t \in Tables : For("done", t) \notin Rest'
<1>0. Heads("check") /\ Rest = {} /\ Agenda'
  BY CheckPops DEF Heads, Finals
<1>1. agenda' # << >> => Rest' \subseteq Pending'
  <2>1. (Agenda /\ agenda # << >> => Rest \subseteq Pending)'
    BY RestOf, PTL
  <2> QED BY <1>0, <2>1
<1>n. agenda' # << >> \/ ReadsNull(Of)
  <2>1. spc' = "run" \/ ReadsNull(Of)
    BY DEF Check, Then
  <2> QED BY <1>0, <2>1 DEF Agenda, Idling
<1>2. CASE ~ReadsNull(Of) /\ Late(Of) = {}
  <2>1. Pending' = {Do("complete")}
    BY <1>2, CheckPops
  <2>2. NoDone({Do("complete")})
    BY NoDoneTasks
  <2> QED BY <1>1, <1>2, <1>n, <2>1, <2>2 DEF NoDone
<1>3. CASE ~ReadsNull(Of) /\ Late(Of) # {}
  <2> DEFINE j == First(Late(Of))
             t == Order[j]
             r == For("recheck", t)
             c == <<"check", j + 1>>
  <2>1. t \in Tables /\ Pending' = LateTasks(j)
    BY <1>3, CheckPops
  <2>2. agenda' = (Done(t) \o <<r, c>>) \o Tail(agenda)
    BY <1>3 DEF Check, Then
  <2>3. Tail(agenda) = << >>
    BY <1>0, Split, RangeNone DEF Heads, Agenda, Rest
  <2>4. NoDone({r}) /\ NoDone({c}) /\ NoDone({r, c})
    BY NoDoneTasks DEF For
  <2>5. CASE t \in SlotSet
    <3>1. DoneTasks(t) = {For("pmtfree", z) : z \in SlotSet} \cup {Do("pmts")}
      BY <2>5 DEF DoneTasks
    <3>2. NoDone(DoneTasks(t))
      <4>1. NoDone({For("pmtfree", z) : z \in SlotSet})
        BY DEF NoDone, For
      <4>2. NoDone({Do("pmts")})
        BY NoDoneTasks
      <4> QED BY <3>1, <4>1, <4>2 DEF NoDone
    <3>3. LateTasks(j) = DoneTasks(t) \cup {r, c}
      BY DEF LateTasks
    <3> HIDE DEF t, r, c, j
    <3>4. NoDone(LateTasks(j))
      BY <2>4, <3>2, <3>3, NoDoneTasks
    <3> QED BY <1>1, <1>3, <1>n, <2>1, <3>4 DEF NoDone
  <2>6. CASE t \notin SlotSet
    <3>1. Done(t) = <<For("done", t)>>
      BY <2>6 DEF Done
    <3> HIDE DEF t, r, c, j
    <3>3. Rest' = {r, c}
      <4>1. agenda' = (<<For("done", t)>> \o <<r, c>>) \o << >>
        BY <2>2, <2>3, <3>1
      <4> QED BY <4>1, BehindFirst DEF Rest
    <3> QED BY <2>4, <3>3 DEF NoDone
  <2> QED BY <2>5, <2>6
<1>4. CASE ReadsNull(Of)
  BY <1>4 DEF Check, Crash
<1> QED BY <1>2, <1>3, <1>4

\* The steps that leave what is pending as it was, but for tasks of their own.
LEMMA HandlingComes ==
    ASSUME Agenda, HandlingStep
    PROVE  /\ Has("clear") => Has("clear")'
           /\ Has("quit") => Has("quit")'
           /\ ~Has("begin")' /\ ~Has("stop")' /\ ~Has("stop") /\ ~Has("free all") /\ ~Has("free all")'
           /\ Has("blind") => Has("blind")'
           /\ Has("blind")' => Has("blind")
           /\ ~Has("nextbs")'
<1>1. PICK op \in Handling \cup {"request"}, S \in SUBSET Nexts : Runs(op, S, Comes)
  BY HandlingTracked
<1>2. /\ "clear" \in Tracked /\ "quit" \in Tracked /\ "begin" \in Tracked /\ "stop" \in Tracked
      /\ "blind" \in Tracked /\ "nextbs" \in Tracked /\ "free all" \in Tracked
      /\ "clear" \in Comes /\ "quit" \in Comes /\ "begin" \notin Comes /\ "stop" \notin Comes
      /\ "blind" \in Comes /\ "nextbs" \notin Comes /\ "free all" \notin Comes
      /\ "begin" \notin S /\ "stop" \notin S /\ "blind" \notin S /\ "nextbs" \notin S /\ "free all" \notin S
      /\ op # "stop" /\ op # "free all" /\ op # "blind"
  BY DEF Tracked, Comes, Nexts, Handling
<1> QED BY <1>1, <1>2 DEF Runs

\* No step but those of the passes asks for the end of a table.
DoneFewer == \A t \in Tables : Waits("done", t)' => Waits("done", t)

LEMMA HandlingFewer ==
    ASSUME Agenda, HandlingStep
    PROVE  DoneFewer
<1>1. \A op, x : (Runs0(op) \/ Runs1(op, x)) => DoneFewer
  BY DEF Runs0, Runs1, Fewer, DoneFewer
<1>2. Recheck \/ PatList \/ NitDoneInTs \/ NextBlind \/ LeaveTs \/ TryNit \/ NitMissing
      \/ NitFound \/ NextFreq \/ FendEvent \/ NotLocked \/ Begin \/ (SdtDone /\ currTs) => DoneFewer
  BY <1>1, CallRuns
<1>3. Tune \/ StartBlind \/ StartTs \/ (PatDone /\ currTs) => DoneFewer
  BY <1>1, BranchRuns, AskRuns
<1>4. \A T : Asking(T) => DoneFewer
  BY DEF Asking, DoneFewer
<1>5. LockedForNit \/ LockedForTs \/ RequestPmts => DoneFewer
  BY <1>4, AskRuns
<1>6. Fewer => DoneFewer
  BY DEF Fewer, DoneFewer
<1>7. SkipSlot \/ RequestSlot \/ FreeSlot \/ Request => DoneFewer
  BY <1>6, AskRuns, FreeRuns
<1> QED BY <1>2, <1>3, <1>5, <1>7 DEF HandlingStep

LEMMA OtherFewer ==
    ASSUME Inv, FreeStep \/ Window \/ BlindDone \/ SameStep \/ EndStep \/ Apart
    PROVE  DoneFewer
<1>0. Agenda /\ started \in BOOLEAN
  BY InvParts
<1>1. FreeStep \/ Window \/ BlindDone \/ StopBlind \/ Stop => DoneFewer
  BY <1>0, FreeRuns DEF Fewer, DoneFewer, FreeStep
<1>2. SameStep \/ Unsubscribe \/ Apart => DoneFewer
  <2>1. SameStep \/ Unsubscribe \/ Apart => Same
    BY <1>0, SameRuns, ApartRuns DEF SameStep
  <2> QED BY <2>1 DEF Same, DoneFewer
<1>3. Quit \/ Unlock => DoneFewer
  BY <1>0, QuitRuns, PassRuns DEF NoTasks, DoneFewer
<1> QED BY <1>1, <1>2, <1>3 DEF EndStep

\* Which step a task starts.
LEMMA CrashedApart ==
    ASSUME Inv, Stepping, spc = "crashed"
    PROVE  Apart
<1>1. ~ (HandlingStep \/ PassStep \/ FreeStep \/ Window \/ BlindDone \/ SameStep)
  <2>1. HandlingStep => spc = "run"
    BY HandlingStates
  <2>2. PassStep => spc \in {"run", "wait"}
    BY DEF PassStep, Check, Complete, Wait, Woken, TimedOut, Clear, PatDone, SdtDone, At, Freed
  <2>3. FreeStep \/ Window \/ BlindDone => spc = "run"
    BY DEF FreeStep, Free, NothingToFree, Window, BlindDone, At
  <2>4. SameStep => spc \in {"window", "run", "sync", "paused", "join", "exit"}
    BY DEF SameStep, Resume, Free, Synced, Resumed, Joined, At
  <2> QED BY <2>1, <2>2, <2>3, <2>4
<1>2. ~EndStep
  BY DEF EndStep, Quit, Stop, StopBlind, Unlock, Unsubscribe, At
<1> QED BY <1>1, <1>2, StepKinds

\* The passes that begin with the events.
LEMMA PassSampled ==
    ASSUME Inv, Stepping, PassBegins
    PROVE  /\ sampled' \subseteq evt'
           /\ \/ sampled' = {} /\ NoTasks'
              \/ HandlesNext(sampled')
<1>0. Agenda /\ started \in BOOLEAN
  BY InvParts
<1>1. CASE Wait
  <2>1. evt' = evt
    BY <1>1 DEF Wait, dataVars
  <2>2. CASE evt = {}
    <3>1. sampled' = sampled /\ NoTasks'
      BY <1>0, <1>1, <2>2, PassRuns DEF Wait
    <3>2. sampled = {}
      BY <2>2 DEF Inv, Sampled
    <3> QED BY <3>1, <3>2
  <2>3. CASE evt # {}
    <3>1. sampled' = evt
      BY <1>1, <2>3 DEF Wait
    <3>2. HandlesNext(evt)
      BY <1>0, <1>1, <2>3, PassRuns
    <3> QED BY <2>1, <3>1, <3>2
  <2> QED BY <2>2, <2>3
<1>2. CASE Woken
  <2>1. sampled' = evt /\ evt' = evt
    BY <1>2 DEF Woken, dataVars
  <2>2. HandlesNext(evt)
    BY <1>0, <1>2, PassRuns
  <2> QED BY <2>1, <2>2
<1>3. CASE TimedOut
  <2>1. sampled' = {}
    BY <1>3 DEF TimedOut, BeginPass
  <2> QED BY <1>0, <1>3, <2>1, PassRuns
<1>4. CASE Clear
  <2>2. CASE evt' = {}
    <3>1. sampled' = {}
      BY <1>4, <2>2 DEF Clear, BeginPass
    <3> QED BY <1>0, <1>4, <2>2, <3>1, PassRuns
  <2>3. CASE evt' # {}
    <3>1. sampled' = evt'
      BY <1>4, <2>3 DEF Clear
    <3>2. HandlesNext(evt')
      BY <1>0, <1>4, <2>3, PassRuns
    <3> QED BY <3>1, <3>2
  <2> QED BY <2>2, <2>3
<1> QED BY <1>1, <1>2, <1>3, <1>4 DEF PassBegins

LEMMA SampledKept ==
    ASSUME Inv, Stepping
    PROVE  Sampled'
<1>0. Agenda /\ Sampled /\ started \in BOOLEAN
  BY InvParts DEF Inv
<1>t. /\ "clear" \in Tracked /\ "quit" \in Tracked /\ "begin" \in Tracked /\ "stop" \in Tracked
      /\ "unsub" \in Tracked
  BY DEF Tracked
<1>p. PassStep => PassBegins \/ Check \/ Complete \/ ((PatDone \/ SdtDone) /\ ~currTs)
  BY DEF PassStep, PassBegins
<1>q. ASSUME Quit
      PROVE  /\ NoTasks' /\ Has("unsub")' /\ ~Has("begin")' /\ (Has("stop")' => started)
  BY <1>0, <1>t, <1>q, QuitRuns
<1>c. /\ (PatDone \/ SdtDone) /\ ~currTs => Only({})' /\ NoTasks' /\ spc' = "crashed"
      /\ Unlock => Has("unsub") /\ Only({})' /\ NoTasks'
      /\ Check => Only({"check"}) /\ Only({})'
      /\ Complete => Only({"complete"}) /\ Only({"ts"})'
  BY <1>0, <1>t, PassRuns, CheckRuns, CompleteRuns DEF Only
<1>s. SameStep \/ Unsubscribe \/ Apart => Same
  BY <1>0, SameRuns, ApartRuns DEF SameStep
<1>1. sampled' \subseteq evt'
  BY <1>0, EventsKept, PassSampled DEF Sampled
<1>2. sampled' # {} => Has("clear")' \/ Has("quit")' \/ Ending' \/ spc' = "crashed"
  <2>1. CASE PassBegins
    <3>1. HandlesNext(sampled') => Has("clear")' \/ Has("quit")'
      BY <1>t DEF HandlesNext
    <3> QED BY <2>1, <3>1, PassSampled
  <2>2. CASE ~PassBegins
    <3>1. sampled' = sampled
      BY <2>2, EventsKept
    <3>2. CASE Ending
      <4>1. Ending'
        BY <3>2, EndKept DEF EndSame, Ended
      <4> QED BY <4>1
    <3>3. CASE spc = "crashed"
      BY <3>3, CrashedApart, ApartRuns
    <3>4. CASE ~Ending /\ (Has("clear") \/ Has("quit"))
      <4>1. HandlingStep => Has("clear")' \/ Has("quit")'
        BY <1>0, <3>4, HandlingComes
      <4>2. ~Check /\ ~Complete
        BY <1>c, <1>t, <3>4 DEF Only
      <4>3. FreeStep => Has("clear")' \/ Has("quit")'
        <5>1. FreeStep => Runs("free", {}, Comes \cup {"ts"})
          BY <1>0, FreeRuns DEF FreeStep
        <5>2. "clear" \in Comes \cup {"ts"} /\ "quit" \in Comes \cup {"ts"}
          BY DEF Comes
        <5> QED BY <1>t, <3>4, <5>1, <5>2 DEF Runs
      <4>4. Window => Has("clear")' \/ Has("quit")'
        <5>1. Window => Runs("window", {}, Comes \cup {"begin", "leave", "unsub"})
          BY <1>0, FreeRuns
        <5>2. "clear" \in Comes \cup {"begin", "leave", "unsub"} /\ "quit" \in Comes \cup {"begin", "leave", "unsub"}
          BY DEF Comes
        <5> QED BY <1>t, <3>4, <5>1, <5>2 DEF Runs
      <4>5. BlindDone => Has("clear")' \/ Has("quit")'
        <5>1. BlindDone => Runs("blind", {"nextbs"}, {"quit", "clear"})
          BY <1>0, FreeRuns
        <5> QED BY <1>t, <3>4, <5>1 DEF Runs
      <4>6. SameStep \/ Apart => Has("clear")' \/ Has("quit")'
        BY <1>s, <3>4 DEF Same
      <4>7. EndStep => Quit
        <5>1. Stop \/ StopBlind \/ Unlock => Has("unsub")
          BY <1>0, <1>c, FreeRuns
        <5> QED BY <3>4, <5>1 DEF EndStep, Ending, Unsubscribe
      <4>8. Quit => Ending'
        BY <1>q DEF Ending
      <4> QED BY <1>p, <1>c, <2>2, <4>1, <4>2, <4>3, <4>4, <4>5, <4>6, <4>7, <4>8, StepKinds
    <3> QED BY <1>0, <3>1, <3>2, <3>3, <3>4 DEF Sampled
  <2> QED BY <2>1, <2>2
<1>3. (Has("begin")' => ~started') /\ (Has("stop")' => started')
  <2>1. HandlingStep => ~Has("begin")' /\ ~Has("stop")'
    BY <1>0, HandlingComes
  <2>2. CASE ~HandlingStep
    <3>1. started' = started
      BY <2>2, StartedKept DEF HandlingStep
    <3>2. PassBegins => (Has("begin")' => ~started) /\ ~Has("stop")'
      <4>1. \A e : HandlesNext(e) => (Has("begin")' => ~started) /\ ~Has("stop")'
        BY <1>t DEF HandlesNext
      <4>2. Only({"check"})' \/ Only({})' => ~Has("begin")' /\ ~Has("stop")'
        BY <1>t DEF Only
      <4> QED BY <1>0, <4>1, <4>2, PassRuns DEF PassBegins
    <3>3. Check \/ Complete \/ ((PatDone \/ SdtDone) /\ ~currTs) \/ Unlock => ~Has("begin")' /\ ~Has("stop")'
      <4>1. Only({"ts"})' \/ Only({})' => ~Has("begin")' /\ ~Has("stop")'
        BY <1>t DEF Only
      <4> QED BY <1>c, <4>1
    <3>4. FreeStep \/ BlindDone \/ Stop \/ StopBlind => ~Has("begin")' /\ ~Has("stop")'
      <4>1. \A op, C : Runs(op, {}, C) /\ "begin" \notin C /\ "stop" \notin C => ~Has("begin")' /\ ~Has("stop")'
        BY <1>t DEF Runs
      <4>2. FreeStep => Runs("free", {}, Comes \cup {"ts"})
        BY <1>0, FreeRuns DEF FreeStep
      <4>3. "begin" \notin Comes \cup {"ts"} /\ "stop" \notin Comes \cup {"ts"}
        BY DEF Comes
      <4>4. BlindDone => Runs("blind", {"nextbs"}, {"quit", "clear"})
        BY <1>0, FreeRuns
      <4>5. Stop => Runs("stop", {}, {"unsub"}) \/ Runs("free all", {}, {"unsub"})
        BY <1>0, FreeRuns
      <4>6. StopBlind => Runs("stop", {"free all"}, {"unsub"})
        BY <1>0, FreeRuns
      <4>7. BlindDone \/ StopBlind => ~Has("begin")' /\ ~Has("stop")'
        BY <1>t, <4>4, <4>6 DEF Runs
      <4> QED BY <4>1, <4>2, <4>3, <4>5, <4>7
    <3>5. Window => (Has("begin")' => Has("begin")) /\ ~Has("stop")'
      <4>1. Window => Runs("window", {}, Comes \cup {"begin", "leave", "unsub"})
        BY <1>0, FreeRuns
      <4>2. "stop" \notin Comes \cup {"begin", "leave", "unsub"}
        BY DEF Comes
      <4> QED BY <1>t, <4>1, <4>2 DEF Runs
    <3>6. SameStep \/ Unsubscribe \/ Apart => (Has("begin")' => Has("begin")) /\ (Has("stop")' => Has("stop"))
      BY <1>s DEF Same
    <3> QED BY <1>0, <1>p, <1>q, <2>2, <3>1, <3>2, <3>3, <3>4, <3>5, <3>6, StepKinds DEF EndStep, Sampled
  <2> QED BY <2>1, <2>2
<1>d. \A t \in {"pat", "sdt", "nit"} : t \notin SlotSet
  BY SlotsAssumption
<1>4. \A t \in Tables : Waits("done", t)' => t \notin SlotSet
  <2>1. DoneFewer => \A t \in Tables : Waits("done", t)' => t \notin SlotSet
    BY <1>0 DEF Sampled, DoneFewer
  <2>2. PassStep => \A t \in Tables : Waits("done", t)' => t \notin SlotSet
    <3>1. \A e : HandlesNext(e) => \A t \in Tables : Waits("done", t)' => t \notin SlotSet
      BY <1>d DEF HandlesNext
    <3>2. PassBegins => \A t \in Tables : Waits("done", t)' => t \notin SlotSet
      BY <3>1, PassSampled DEF NoTasks
    <3>3. Check \/ Complete => \A t \in Tables : Waits("done", t)' => t \notin SlotSet
      BY <1>0, CheckRuns, CompleteRuns
    <3> QED BY <1>c, <1>p, <3>2, <3>3 DEF NoTasks
  <2> QED BY <1>0, <2>1, <2>2, HandlingFewer, OtherFewer, StepKinds
<1>5. agenda' # << >> => \A t \in Tables : For("done", t) \in Rest' => t \in evt'
  <2> SUFFICES ASSUME agenda' # << >>, NEW t \in Tables, For("done", t) \in Rest'
               PROVE  t \in evt'
    OBVIOUS
  <2>1. Agenda' /\ Waits("done", t)'
    <3>1. Agenda'
      <4>1. AgendaInv'
        BY AgendaKept DEF Inv, Stepping
      <4>2. (AgendaInv => Agenda)'
        BY AgendaOf, PTL
      <4> QED BY <4>1, <4>2
    <3>2. (Agenda /\ agenda # << >> => Rest \subseteq Pending)'
      BY RestOf, PTL
    <3> QED BY <3>1, <3>2 DEF Waits
  <2>2. CASE DoneBehind /\ agenda # << >> /\ ~PassBegins
    <3>1. For("done", t) \in Rest /\ evt \subseteq evt'
      BY <2>2, EventsKept DEF DoneBehind
    <3> QED BY <1>0, <2>2, <3>1 DEF Sampled, Rest
  <2>3. CASE PassBegins
    <3>1. HandlesNext(sampled') => t \in sampled'
      BY <2>1 DEF HandlesNext
    <3>2. ~NoTasks'
      BY <2>1 DEF NoTasks
    <3> QED BY <2>3, <3>1, <3>2, PassSampled
  <2>4. ~Check
    BY <1>0, CheckDone
  <2>5. ~Complete /\ ~Quit /\ ~Unlock /\ ~((PatDone \/ SdtDone) /\ ~currTs)
    BY <1>0, <1>c, <1>q, <2>1, CompleteRuns DEF NoTasks
  <2>6. spc = "run" => agenda # << >>
    BY <1>0 DEF Agenda, Idling
  <2>7. HandlingStep \/ FreeStep \/ Window \/ BlindDone \/ Stop \/ StopBlind => DoneBehind /\ agenda # << >>
    <3>1. FreeStep \/ Window \/ BlindDone \/ Stop \/ StopBlind => spc = "run"
      BY DEF FreeStep, Free, NothingToFree, Window, BlindDone, Stop, StopBlind, At
    <3> QED BY <1>0, <2>6, <3>1, HandlingDone, HandlingStates, OtherDone
  <2>8. SameStep \/ Unsubscribe \/ Apart => DoneBehind /\ agenda # << >>
    <3>1. SameStep \/ Unsubscribe \/ Apart => agenda' = agenda
      BY ApartRuns DEF SameStep, Unsubscribe, Resume, Free, Synced, Resumed, Joined, At
    <3> QED BY <3>1 DEF DoneBehind, Rest
  <2> QED BY <1>p, <2>2, <2>3, <2>4, <2>5, <2>7, <2>8, StepKinds DEF EndStep
<1> QED BY <1>1, <1>2, <1>3, <1>4, <1>5 DEF Sampled, Rest

-----------------------------------------------------------------------------
(* The blind scan.                                                           *)

BlindStep ==
    \/ Begin \/ StartBlind \/ NextBlind \/ BlindDone \/ Joined \/ StopBlind
    \/ BlindReport \/ BlindCallback \/ BlindEnds

LEMMA BlindUntouched ==
    ASSUME Stepping, ~BlindStep
    PROVE  UNCHANGED <<mode, started, bs, bpc, cancel>>
<1>1. ScannerStep => UNCHANGED <<mode, started>>
  BY DEF BlindStep, ScannerStep, Check, Recheck, Complete, Wait, Woken, TimedOut, Clear, Window, Resume,
        Free, NothingToFree, Synced, Request, FreeSlot, RequestPmts, RequestSlot, SkipSlot,
        PatDone, PatList, SdtDone, NitDoneInTs, NitMissing, NitFound, TryNit, StartTs, Resumed,
        LeaveTs, NextFreq, AllDone, Tune, FendEvent, NotLocked, LockedForNit, LockedForTs,
        Quit, Stop, Unlock, Untouched, dataVars, scanVars
<1>2. ScannerStep => UNCHANGED <<bs, bpc, cancel>>
  BY DEF BlindStep, ScannerStep, Check, Recheck, Complete, Wait, Woken, TimedOut, Clear, Window, Resume,
        Free, NothingToFree, Synced, Request, FreeSlot, RequestPmts, RequestSlot, SkipSlot,
        PatDone, PatList, SdtDone, NitDoneInTs, NitMissing, NitFound, TryNit, StartTs, Resumed,
        LeaveTs, NextFreq, AllDone, Tune, FendEvent, NotLocked, LockedForNit, LockedForTs,
        Quit, Stop, Unlock, blindVars
<1>3. Unsubscribe \/ SectionRead \/ SectionHandled \/ FendStatus \/ FendCallback \/ AppStart \/ AppPause
      \/ Destroy \/ DestroyQuit \/ DestroyReturn \/ Terminated \/ UNCHANGED vars
      => UNCHANGED <<mode, started, bs, bpc, cancel>>
  BY DEF Unsubscribe, SectionRead, SectionHandled, SectionIgnored, SectionUndecoded,
        SectionCollected, FendStatus, FendCallback, AppStart, AppPause, Destroy, DestroyQuit,
        DestroyReturn, Terminated, vars, dataVars, scanVars, outerVars, blindVars
<1> QED BY <1>1, <1>2, <1>3 DEF Stepping, Next, BlindStep

\* The tasks of the blind scan are started by its own steps only.
Quiet == {"fend", "status", "patlist", "pmts", "trynit", "ts", "leave", "next", "tune", "pmtfree",
          "slot", "recheck", "done", "request"}

LEMMA QuietTracked ==
    ASSUME Agenda, HandlingStep, ~BlindStep
    PROVE  \E op \in Quiet : \E S \in SUBSET (Nexts \ {"bs"}) : Runs(op, S, Comes)
<1>1. /\ "recheck" \in Quiet /\ "patlist" \in Quiet /\ "done" \in Quiet
      /\ "leave" \in Quiet /\ "trynit" \in Quiet
      /\ "next" \in Quiet /\ "fend" \in Quiet /\ "status" \in Quiet
      /\ "tune" \in Quiet /\ "ts" \in Quiet /\ "pmts" \in Quiet
      /\ "slot" \in Quiet /\ "pmtfree" \in Quiet /\ "request" \in Quiet
  BY DEF Quiet
<1>2. ASSUME NEW op \in Quiet, Runs0(op) \/ \E x \in Nexts \ {"bs"} : Runs1(op, x)
      PROVE  \E S \in SUBSET (Nexts \ {"bs"}) : Runs(op, S, Comes)
  <2>1. {} \in SUBSET (Nexts \ {"bs"}) /\ \A x \in Nexts \ {"bs"} : {x} \in SUBSET (Nexts \ {"bs"})
    OBVIOUS
  <2> QED BY <1>2, <2>1 DEF Runs0, Runs1
<1>3. /\ "next" \in Nexts \ {"bs"} /\ "trynit" \in Nexts \ {"bs"} /\ "ts" \in Nexts \ {"bs"}
      /\ "tune" \in Nexts \ {"bs"} /\ "status" \in Nexts \ {"bs"} /\ "leave" \in Nexts \ {"bs"}
  BY DEF Nexts
<1>4. ASSUME Recheck \/ PatList \/ NitDoneInTs \/ LeaveTs \/ TryNit \/ NitMissing
             \/ NitFound \/ NextFreq \/ FendEvent \/ NotLocked \/ (SdtDone /\ currTs)
      PROVE  \E op \in Quiet : \E S \in SUBSET (Nexts \ {"bs"}) : Runs(op, S, Comes)
  BY <1>1, <1>2, <1>3, <1>4, CallRuns
<1>5. ASSUME Tune \/ StartTs \/ (PatDone /\ currTs)
      PROVE  \E op \in Quiet : \E S \in SUBSET (Nexts \ {"bs"}) : Runs(op, S, Comes)
  BY <1>1, <1>2, <1>3, <1>5, BranchRuns, AskRuns
<1>6. ASSUME LockedForNit \/ LockedForTs \/ RequestPmts \/ SkipSlot \/ RequestSlot \/ FreeSlot \/ Request
      PROVE  \E op \in Quiet : \E S \in SUBSET (Nexts \ {"bs"}) : Runs(op, S, Comes)
  <2>1. {} \in SUBSET (Nexts \ {"bs"})
    OBVIOUS
  <2> QED BY <1>1, <1>6, <2>1, AskRuns, FreeRuns
<1> QED BY <1>4, <1>5, <1>6 DEF HandlingStep, BlindStep

LEMMA BlindCalls ==
    ASSUME Inv, Stepping, ~BlindStep
    PROVE  /\ Has("bs")' <=> Has("bs")
           /\ Has("nextbs")' <=> Has("nextbs")
           /\ Has("free all")' => Has("free all")
           /\ Has("free all") => Has("free all")' \/ Stop
           /\ Has("blind")' => (Has("blind") /\ ~PassBegins) \/ (PassBegins /\ "blind" \in sampled')
<1>0. Agenda /\ started \in BOOLEAN
  BY InvParts
<1>t. /\ "bs" \in Tracked /\ "nextbs" \in Tracked /\ "free all" \in Tracked /\ "blind" \in Tracked
  BY DEF Tracked
<1>1. CASE PassBegins
  <2>1. ~Has("bs") /\ ~Has("nextbs") /\ ~Has("free all") /\ ~Has("blind")
    <3>1. Only({"wait"}) \/ Only({"complete"}) \/ Only({}) \/ Only({"clear"})
      BY <1>0, <1>1, PassRuns DEF PassBegins
    <3> QED BY <1>t, <3>1 DEF Only
  <2>2. Only({})' \/ Only({"check"})' \/ HandlesNext(sampled')
    <3>1. Wait => Only({})' \/ HandlesNext(sampled')
      BY <1>0, PassRuns DEF Wait
    <3>2. Woken => HandlesNext(sampled')
      <4>1. Woken => sampled' = evt
        BY DEF Woken
      <4> QED BY <1>0, <4>1, PassRuns
    <3>3. TimedOut => Only({"check"})'
      BY <1>0, PassRuns
    <3>4. Clear => Only({"check"})' \/ HandlesNext(sampled')
      <4>1. Clear /\ evt' # {} => sampled' = evt'
        BY DEF Clear
      <4>2. Clear /\ evt' # {} => HandlesNext(evt')
        BY <1>0, PassRuns
      <4>3. Clear /\ evt' = {} => Only({"check"})'
        BY <1>0, PassRuns
      <4> QED BY <4>1, <4>2, <4>3
    <3> QED BY <1>1, <3>1, <3>2, <3>3, <3>4 DEF PassBegins
  <2>3. Only({})' \/ Only({"check"})' => ~Has("bs")' /\ ~Has("nextbs")' /\ ~Has("free all")' /\ ~Has("blind")'
    BY <1>t DEF Only
  <2>4. HandlesNext(sampled') => /\ ~Has("bs")' /\ ~Has("nextbs")' /\ ~Has("free all")'
                                 /\ Has("blind")' => "blind" \in sampled'
    BY <1>t DEF HandlesNext
  <2> QED BY <1>1, <2>1, <2>2, <2>3, <2>4
<1>2. CASE ~PassBegins /\ HandlingStep
  <2>1. PICK op \in Quiet, S \in SUBSET (Nexts \ {"bs"}) : Runs(op, S, Comes)
    BY <1>0, <1>2, QuietTracked
  <2>2. /\ op # "bs" /\ op # "nextbs" /\ op # "free all" /\ op # "blind"
        /\ "bs" \notin S /\ "nextbs" \notin S /\ "free all" \notin S /\ "blind" \notin S
        /\ "bs" \notin Comes /\ "nextbs" \notin Comes /\ "free all" \notin Comes
    BY DEF Quiet, Nexts, Comes
  <2> QED BY <1>2, <1>t, <2>1, <2>2 DEF Runs
<1>3. CASE Check \/ Complete \/ ((PatDone \/ SdtDone) /\ ~currTs)
  <2>1. ASSUME Check \/ Complete
        PROVE  Only({"check"}) \/ Only({"complete"})
    BY <1>0, <2>1, CheckRuns, CompleteRuns
  <2>2. Only({})' \/ Only({"ts"})'
    BY <1>0, <1>3, PassRuns, CheckRuns, CompleteRuns
  <2>3. PatDone \/ SdtDone => ~Has("bs") /\ ~Has("nextbs") /\ ~Has("free all")
    <3>1. PatDone \/ SdtDone => Heads("done")
      BY <1>0, HeadTask DEF PatDone, SdtDone, Freed
    <3>2. "bs" \notin Behind("done") /\ "nextbs" \notin Behind("done") /\ "free all" \notin Behind("done")
      <4>1. "done" \in Handling
        BY DEF Handling
      <4>2. Behind("done") = Later \/ Behind("done") = Later \ {"fend"}
        BY <4>1, HandlingBehind
      <4>3. "bs" \notin Later /\ "nextbs" \notin Later /\ "free all" \notin Later
        BY DEF Later
      <4> QED BY <4>2, <4>3
    <3>3. Do("bs")[1] = "bs" /\ Do("nextbs")[1] = "nextbs" /\ Do("free all")[1] = "free all"
      BY DEF Do
    <3>4. \A z : Do("bs") # <<"done", z>> /\ Do("nextbs") # <<"done", z>> /\ Do("free all") # <<"done", z>>
      BY DEF Do
    <3> QED BY <3>1, <3>2, <3>3, <3>4 DEF Heads, Has
  <2>4. ~Has("bs") /\ ~Has("nextbs") /\ ~Has("free all")
    BY <1>3, <1>t, <2>1, <2>3 DEF Only
  <2>5. ~Has("bs")' /\ ~Has("nextbs")' /\ ~Has("free all")' /\ ~Has("blind")'
    BY <1>t, <2>2 DEF Only
  <2> QED BY <2>4, <2>5
<1>4. CASE ~PassBegins /\ (FreeStep \/ Window)
  <2>1. Runs("free", {}, Comes \cup {"ts"}) \/ Runs("window", {}, Comes \cup {"begin", "leave", "unsub"})
    BY <1>0, <1>4, FreeRuns DEF FreeStep
  <2>2. /\ "bs" \notin Comes \cup {"ts"} /\ "nextbs" \notin Comes \cup {"ts"} /\ "free all" \notin Comes \cup {"ts"}
        /\ "bs" \notin Comes \cup {"begin", "leave", "unsub"} /\ "nextbs" \notin Comes \cup {"begin", "leave", "unsub"}
        /\ "free all" \notin Comes \cup {"begin", "leave", "unsub"}
    BY DEF Comes
  <2> QED BY <1>4, <1>t, <2>1, <2>2 DEF Runs
<1>5. CASE ~PassBegins /\ (SameStep \/ Unsubscribe \/ Apart)
  <2>1. Same
    BY <1>0, <1>5, SameRuns, ApartRuns DEF SameStep
  <2> QED BY <1>5, <2>1 DEF Same
<1>6. CASE Quit
  <2>1. /\ Only({"quit"})
        /\ \A x \in Tracked : Has(x)' <=> x = "unsub" \/ (x = "stop" /\ started)
    BY <1>0, <1>6, QuitRuns
  <2> QED BY <1>t, <2>1 DEF Only
<1>7. CASE Stop
  <2>1. Runs("stop", {}, {"unsub"}) \/ Runs("free all", {}, {"unsub"})
    BY <1>0, <1>7, FreeRuns
  <2> QED BY <1>7, <1>t, <2>1 DEF Runs
<1>8. CASE Unlock
  <2>1. Only({"unsub"}) /\ Only({})'
    BY <1>0, <1>8, PassRuns
  <2> QED BY <1>t, <2>1 DEF Only
<1>9. ~BlindDone /\ ~StopBlind
  BY DEF BlindStep
<1> QED BY <1>1, <1>2, <1>3, <1>4, <1>5, <1>6, <1>7, <1>8, <1>9, StepKinds DEF PassStep, EndStep, PassBegins

\* Where the thread is, and where it waits for that of the blind scan.
LEMMA JoinsOnly ==
    ASSUME Inv, Stepping, ~BlindStep
    PROVE  /\ spc \in {"join", "exit", "crashed"} => spc' = spc
           /\ spc' \in {"join", "exit"} => spc' = spc
<1>1. spc \in {"join", "exit", "crashed"} => Apart
  <2>1. HandlingStep => spc = "run"
    BY HandlingStates
  <2>2. PassStep => spc \in {"run", "wait"}
    BY DEF PassStep, Check, Complete, Wait, Woken, TimedOut, Clear, PatDone, SdtDone, At, Freed
  <2>3. FreeStep \/ Window => spc = "run"
    BY DEF FreeStep, Free, NothingToFree, Window, At
  <2>4. SameStep => spc \in {"window", "run", "sync", "paused"}
    BY DEF SameStep, Resume, Free, Synced, Resumed, At, BlindStep
  <2>5. EndStep => spc \in {"run", "unsub"}
    BY DEF EndStep, Quit, Stop, StopBlind, Unlock, Unsubscribe, At
  <2> QED BY <2>1, <2>2, <2>3, <2>4, <2>5, StepKinds DEF BlindStep
<1>2. ~Apart => spc' \notin {"join", "exit"}
  <2>1. HandlingStep => spc' \notin {"join", "exit"}
    BY HandlingStates
  <2>2. PassStep => spc' \notin {"join", "exit"}
    BY DEF PassStep, Check, Complete, Wait, Woken, TimedOut, Clear, PatDone, SdtDone, At, Freed, Then,
         BeginPass, Crash
  <2>3. FreeStep \/ Window => spc' \notin {"join", "exit"}
    BY DEF FreeStep, Free, NothingToFree, Window, Return, Then, Signal
  <2>4. SameStep => spc' \notin {"join", "exit"}
    BY DEF SameStep, Resume, Free, Synced, Resumed, Joined
  <2>5. EndStep => spc' \notin {"join", "exit"}
    BY DEF EndStep, Quit, Stop, Unlock, Unsubscribe, BlindStep
  <2> QED BY <2>1, <2>2, <2>3, <2>4, <2>5, StepKinds DEF BlindStep
<1> QED BY <1>1, <1>2, ApartRuns

\* A pass finds the report of a blind scan that is over, and not yet cancelled.
LEMMA PassReported ==
    ASSUME Inv, Stepping, PassBegins, "blind" \in evt'
    PROVE  bpc = "over" /\ ~cancel
<1>0. Agenda /\ started \in BOOLEAN /\ Sampled /\ Blinded /\ TypeOK
  BY InvParts DEF Inv
<1>1. spc \in {"run", "wait"} /\ ~Ending
  <2>1. PassStep
    BY DEF PassBegins, PassStep
  <2> QED BY <1>0, <2>1, PassEnd DEF PassBegins, Wait, Woken, TimedOut, Clear, At
<1>2. "blind" \in evt /\ "blind" \notin sampled
  <2>1. CASE Clear
    BY <2>1 DEF Clear
  <2>2. CASE ~Clear
    <3>1. evt' = evt
      BY <2>2 DEF PassBegins, Wait, Woken, TimedOut, dataVars
    <3>2. Only({"wait"}) \/ Only({"complete"}) \/ Only({})
      BY <1>0, <2>2, PassRuns DEF PassBegins
    <3>3. ~Has("clear") /\ ~Has("quit")
      BY <3>2 DEF Only, Tracked
    <3>4. sampled = {}
      BY <1>0, <1>1, <3>3 DEF Sampled
    <3> QED BY <3>1, <3>4
  <2> QED BY <2>1, <2>2
<1>3. bpc = "over"
  BY <1>0, <1>1, <1>2 DEF Blinded
<1> QED BY <1>0, <1>1, <1>3 DEF Blinded, TypeOK

LEMMA NoBlindKept ==
    ASSUME Inv, Stepping, ~BlindStep
    PROVE  Blinded'
<1>0. Agenda /\ Blinded /\ NotStarted
  BY InvParts DEF Inv
<1>1. /\ UNCHANGED <<mode, started, bs, bpc, cancel>>
      /\ bs' <= LastBs <=> bs <= LastBs
  BY BlindUntouched
<1>2. /\ Has("bs")' <=> Has("bs")
      /\ Has("nextbs")' <=> Has("nextbs")
      /\ Has("free all")' => Has("free all")
      /\ Has("free all") => Has("free all")' \/ Stop
      /\ Has("blind")' => (Has("blind") /\ ~PassBegins) \/ (PassBegins /\ "blind" \in sampled')
  BY BlindCalls
<1>3. /\ spc \in {"join", "exit", "crashed"} => spc' = spc
      /\ spc' \in {"join", "exit"} => spc' = spc
  BY JoinsOnly
<1>4. (Ending => Ending') /\ (Ended => Ended') /\ (Stop => Ended')
  <2>1. Stop => spc = "run" /\ ~Quit /\ Has("unsub")
    BY <1>0, FreeRuns DEF Stop, At, Quit
  <2>2. Stop => Ended'
    BY <1>0, FreeRuns DEF Ended, Ending, Runs, Tracked
  <2> QED BY <2>2, EndKept DEF EndSame, Ended
<1>5. Ended' => bpc = "none"
  <2>1. Ended => bpc = "none"
    BY <1>0 DEF Blinded
  <2>2. ~started => bpc = "none"
    BY <1>0 DEF NotStarted
  <2>3. Stop => bpc = "none"
    <3>1. Stop => (Has("free all") /\ spc = "run") \/ mode # "blind"
      BY <1>0, AtHas DEF Stop, At, Tracked
    <3> QED BY <1>0, <3>1 DEF Blinded
  <2> QED BY <2>1, <2>2, <2>3, EndKept DEF EndSame
<1>6. CASE PassBegins
  <2>1. "blind" \in evt' => bpc = "over" /\ ~cancel
    BY <1>6, PassReported
  <2>2. "blind" \in sampled' => "blind" \in evt'
    BY <1>6, PassSampled
  <2>3. spc \notin {"join", "exit"}
    BY <1>6 DEF PassBegins, Wait, Woken, TimedOut, Clear, At
  <2> QED BY <1>0, <1>1, <1>2, <1>3, <1>4, <1>5, <1>6, <2>1, <2>2, <2>3 DEF Blinded
<1>7. CASE ~PassBegins
  <2>1. sampled' = sampled
    BY <1>7, EventsKept
  <2>2. "blind" \in evt' => "blind" \in evt
    <3>1. SectionHandled => ("blind" \in evt' => "blind" \in evt)
      <4>1. \A t \in Tables : Flag(t) # "blind"
        BY FlagTyped
      <4> QED BY <4>1 DEF SectionHandled, SectionIgnored, SectionUndecoded, SectionCollected, Raise, Handled, dataVars
    <3>2. FendCallback \/ AppStart \/ DestroyQuit => ("blind" \in evt' => "blind" \in evt)
      BY DEF FendCallback, AppStart, DestroyQuit, Raise
    <3> QED BY <1>7, <3>1, <3>2, EventsKept DEF BlindStep
  <2> QED BY <1>0, <1>1, <1>2, <1>3, <1>4, <1>5, <1>7, <2>1, <2>2 DEF Blinded
<1> QED BY <1>6, <1>7

\* The steps of the blind scan that are taken with the lock.
LEMMA BlindHandled ==
    ASSUME Inv, Begin \/ StartBlind \/ NextBlind
    PROVE  /\ spc = "run" /\ spc' \in {"run", "window"}
           /\ ~Has("nextbs")' /\ ~Has("free all") /\ ~Has("free all")' /\ (Has("blind")' => Has("blind"))
           /\ ~Ending /\ ~Ending' /\ UNCHANGED <<evt, sampled>>
<1>1. HandlingStep /\ Agenda
  BY InvParts DEF HandlingStep
<1>2. spc = "run" /\ spc' \in {"run", "window"} /\ UNCHANGED <<evt, sampled>>
  BY DEF Begin, StartBlind, NextBlind, At, Then, Return, Signal, dataVars
<1> QED BY <1>1, <1>2, HandlingComes, HandlingEnd DEF EndSame

LEMMA BlindBegun ==
    ASSUME Inv, Stepping, Begin
    PROVE  Blinded'
<1>0. Agenda /\ Blinded
  BY InvParts DEF Inv
<1>t. "begin" \in Tracked /\ "bs" \in Tracked
  BY DEF Tracked
<1>1. ~started
  <2>1. Has("begin")
    BY <1>0, <1>t, AtHas DEF Begin
  <2> QED BY <2>1 DEF Inv, Sampled
<1>2. bpc = "none" /\ evt \subseteq {"start", "quit"}
  BY <1>1 DEF Inv, NotStarted
<1>3. started' /\ UNCHANGED <<mode, bpc, cancel>>
  BY DEF Begin
<1>4. /\ spc = "run" /\ spc' \in {"run", "window"}
      /\ ~Has("nextbs")' /\ ~Has("free all")' /\ (Has("blind")' => Has("blind"))
      /\ ~Ending' /\ UNCHANGED <<evt, sampled>>
  BY BlindHandled
<1>5. Has("bs")' <=> mode = "blind"
  <2>1. mode \in {"auto", "allband", "blind"}
    BY InvParts DEF TypeOK
  <2>2. IF mode = "auto" THEN Runs1("begin", "trynit")
        ELSE IF mode = "blind" THEN Runs1("begin", "bs") ELSE Runs1("begin", "ts")
    BY <1>0, CallRuns
  <2>3. "bs" \notin Comes
    BY DEF Comes
  <2> QED BY <1>t, <2>1, <2>2, <2>3 DEF Runs1, Runs
<1>6. ~Has("blind")'
  BY <1>0, <1>2, <1>4 DEF Blinded
<1>7. ~Ended'
  BY <1>4 DEF Ended
<1> QED BY <1>2, <1>3, <1>4, <1>5, <1>6, <1>7 DEF Blinded

LEMMA BlindStarted ==
    ASSUME Inv, Stepping, StartBlind
    PROVE  Blinded'
<1>0. Agenda /\ Blinded
  BY InvParts DEF Inv
<1>t. "bs" \in Tracked /\ "bs" \notin Comes
  BY DEF Tracked, Comes
<1>1. Has("bs")
  BY <1>0, <1>t, AtHas DEF StartBlind
<1>2. /\ spc = "run" /\ spc' \in {"run", "window"}
      /\ ~Has("nextbs")' /\ ~Has("free all")' /\ (Has("blind")' => Has("blind"))
      /\ ~Ending /\ ~Ending' /\ UNCHANGED <<evt, sampled>>
  BY BlindHandled
<1>3. bpc = "none" /\ mode = "blind" /\ started /\ ~Has("blind")' /\ started' = started
  BY <1>0, <1>1, <1>2 DEF Blinded, StartBlind
<1>4. "blind" \in evt => "blind" \in sampled
  BY <1>0, <1>2, <1>3 DEF Blinded
<1>5. ~Ended'
  BY <1>2 DEF Ended
<1>6. CASE Runs0("bs") /\ bs <= LastBs /\ bpc' = "scan" /\ ~cancel' /\ UNCHANGED <<mode, bs>>
  <2>1. ~Has("bs")'
    BY <1>t, <1>6 DEF Runs0, Runs
  <2> QED BY <1>2, <1>3, <1>4, <1>5, <1>6, <2>1 DEF Blinded
<1>7. CASE Runs1("bs", "bs") /\ bs <= LastBs /\ bs' = bs + 1 /\ UNCHANGED <<mode, bpc, cancel>>
  <2>1. Has("bs")'
    BY <1>t, <1>7 DEF Runs1, Runs
  <2> QED BY <1>2, <1>3, <1>4, <1>5, <1>7, <2>1 DEF Blinded
<1>8. CASE Runs1("bs", "ts") /\ bs > LastBs /\ mode' = "allband" /\ UNCHANGED blindVars
  <2>1. ~Has("bs")'
    BY <1>t, <1>8 DEF Runs1, Runs
  <2>2. bpc' = "none"
    BY <1>3, <1>8 DEF blindVars
  <2> QED BY <1>2, <1>3, <1>4, <1>5, <1>8, <2>1, <2>2 DEF Blinded
<1> QED BY <1>0, <1>6, <1>7, <1>8, BranchRuns

LEMMA BlindNext ==
    ASSUME Inv, Stepping, NextBlind
    PROVE  Blinded'
<1>0. Agenda /\ Blinded
  BY InvParts DEF Inv
<1>t. "bs" \in Tracked /\ "nextbs" \in Tracked /\ "bs" \notin Comes
  BY DEF Tracked, Comes
<1>1. Has("nextbs")
  BY <1>0, <1>t, AtHas DEF NextBlind
<1>2. /\ spc = "run" /\ spc' \in {"run", "window"}
      /\ ~Has("nextbs")' /\ ~Has("free all")' /\ (Has("blind")' => Has("blind"))
      /\ ~Ending /\ ~Ending' /\ UNCHANGED <<evt, sampled>>
  BY BlindHandled
<1>3. bpc = "none" /\ mode = "blind" /\ started /\ ~Has("blind")'
  BY <1>0, <1>1, <1>2 DEF Blinded
<1>4. UNCHANGED <<mode, started, bpc>>
  BY DEF NextBlind, dataVars, scanVars
<1>5. Has("bs")'
  <2>1. Runs1("nextbs", "bs")
    BY <1>0, CallRuns
  <2> QED BY <1>t, <2>1 DEF Runs1, Runs
<1>6. ~Ended'
  BY <1>2 DEF Ended
<1> QED BY <1>0, <1>2, <1>3, <1>4, <1>5, <1>6 DEF Blinded

LEMMA BlindJoins ==
    ASSUME Inv, Stepping, BlindDone \/ Joined \/ StopBlind
    PROVE  Blinded'
<1>0. Agenda /\ Blinded /\ TypeOK
  BY InvParts DEF Inv
<1>t. /\ "bs" \in Tracked /\ "nextbs" \in Tracked /\ "blind" \in Tracked /\ "free all" \in Tracked
      /\ "stop" \in Tracked
  BY DEF Tracked
<1>1. CASE BlindDone
  <2>1. Runs("blind", {"nextbs"}, {"quit", "clear"})
    BY <1>0, <1>1, FreeRuns
  <2>2. /\ Has("blind") /\ Has("nextbs")' /\ ~Has("bs")' /\ ~Has("blind")' /\ ~Has("free all")'
    BY <1>0, <1>1, <1>t, <2>1, AtHas DEF Runs, BlindDone
  <2>3. bpc = "over" /\ "blind" \in sampled
    BY <1>0, <2>2 DEF Blinded
  <2>4. started /\ mode = "blind" /\ bs <= LastBs
    BY <1>0, <2>3 DEF Blinded
  <2>5. ~Ended'
    <3>1. ~Ended
      BY <1>0, <2>3 DEF Blinded
    <3>2. ~Quit /\ ~Stop
      BY <1>1 DEF BlindDone, Quit, Stop, At
    <3> QED BY <3>1, <3>2, EndKept DEF EndSame
  <2>6. spc' = "join" /\ UNCHANGED <<mode, started, bs, bpc, evt, sampled>>
    BY <1>1 DEF BlindDone, Untouched
  <2> QED BY <2>2, <2>3, <2>4, <2>5, <2>6 DEF Blinded
<1>2. CASE Joined
  <2>1. Same /\ EndSame
    <3>1. Same
      BY <1>0, <1>2, SameRuns
    <3>2. ~Quit /\ ~Stop
      BY <1>2 DEF Joined, Quit, Stop, At
    <3> QED BY <3>1, <3>2, EndKept
  <2>2. bpc = "ended" /\ bpc' = "none" /\ spc \in {"join", "exit"} /\ spc' = "run"
    BY <1>2 DEF Joined
  <2>3. UNCHANGED <<mode, started, bs, cancel, evt, sampled>>
    BY <1>2 DEF Joined, dataVars, scanVars
  <2> QED BY <1>0, <2>1, <2>2, <2>3 DEF Blinded, Same, EndSame
<1>3. CASE StopBlind
  <2>1. Runs("stop", {"free all"}, {"unsub"}) /\ Has("unsub")
    BY <1>0, <1>3, FreeRuns
  <2>2. /\ Has("stop") /\ Has("free all")' /\ ~Has("bs")' /\ ~Has("blind")' /\ ~Has("nextbs")'
        /\ ~Has("bs") /\ ~Has("nextbs") /\ ~Has("free all")
    BY <1>0, <1>3, <1>t, <2>1, AtHas DEF Runs, StopBlind
  <2>3. Ending' /\ ~Ended' /\ ~Ended
    <3>1. Ending /\ ~Quit /\ ~Stop
      BY <1>3, <2>1 DEF Ending, StopBlind, Quit, Stop, At
    <3> QED BY <2>2, <3>1, EndKept DEF EndSame, Ended
  <2>4. started /\ mode = "blind" /\ spc = "run"
    BY <1>3, <2>2 DEF Inv, Sampled, StopBlind, At
  <2>5. bpc # "none"
    BY <1>0, <2>2, <2>3, <2>4 DEF Blinded
  <2>6. spc' = "exit" /\ UNCHANGED <<mode, started, bs, bpc, evt, sampled>>
    BY <1>3 DEF StopBlind, dataVars, scanVars
  <2> QED BY <1>0, <2>2, <2>3, <2>4, <2>5, <2>6 DEF Blinded
<1> QED BY <1>1, <1>2, <1>3

LEMMA BlindApart ==
    ASSUME Inv, Stepping, BlindReport \/ BlindCallback \/ BlindEnds
    PROVE  Blinded'
<1>0. Agenda /\ Blinded /\ TypeOK
  BY InvParts DEF Inv
<1>1. Same /\ UNCHANGED <<spc, sampled>>
  BY ApartRuns DEF Apart, OutsideStep
<1>2. EndSame
  BY <1>1 DEF Same, EndSame, Ending, Ended
<1>3. UNCHANGED <<mode, started, bs, cancel>> /\ (bs' <= LastBs <=> bs <= LastBs)
  BY DEF BlindReport, BlindCallback, BlindEnds, dataVars, scanVars
<1>4. CASE BlindReport
  <2>1. bpc = "scan" /\ ~cancel /\ bpc' = "call" /\ evt' = evt
    BY <1>4 DEF BlindReport, dataVars
  <2> QED BY <1>0, <1>1, <1>2, <1>3, <2>1 DEF Blinded, Same, EndSame
<1>5. CASE BlindCallback
  <2>1. bpc = "call" /\ ((bpc' = "scan" /\ evt' = evt) \/ (bpc' = "over" /\ evt' = evt \cup {"blind"}))
    BY <1>5 DEF BlindCallback, Raise
  <2> QED BY <1>0, <1>1, <1>2, <1>3, <2>1 DEF Blinded, Same, EndSame
<1>6. CASE BlindEnds
  <2>1. bpc \in {"scan", "over"} /\ cancel /\ bpc' = "ended" /\ evt' = evt
    BY <1>6 DEF BlindEnds, dataVars
  <2>2. spc \in {"join", "exit", "crashed"}
    BY <1>0, <2>1 DEF Blinded
  <2> QED BY <1>0, <1>1, <1>2, <1>3, <2>1, <2>2 DEF Blinded, Same, EndSame
<1> QED BY <1>4, <1>5, <1>6

LEMMA BlindedKept ==
    ASSUME Inv, Stepping
    PROVE  Blinded'
BY NoBlindKept, BlindBegun, BlindStarted, BlindNext, BlindJoins, BlindApart DEF BlindStep

-----------------------------------------------------------------------------
(* The current transport stream.                                             *)

\* What a call that is pending says of the scan.
Fitting ==
    /\ Has("next") \/ Has("tune") => ~currTs /\ stage # "start"
    /\ Has("trynit") => stage # "ts" /\ mode # "blind"
    /\ Has("ts") => mode # "blind"
    /\ Has("leave") => stage = "ts"
    /\ Has("status") => "fend" \in recv
    /\ Leaving => recv = {} /\ \A t \in Tables : fid[t] # NoFid => Waits("free", t)

\* What is collected, and when.
Collecting ==
    /\ currTs => stage = "ts" /\ "fend" \notin recv
    /\ stage = "start" =>
          /\ recv = {} /\ evt \cap {"pat", "pmt", "sdt", "nit"} = {}
          /\ \A t \in Tables : fid[t] = NoFid /\ ~Waits("request", t) /\ ~Waits("done", t)
    /\ mode = "blind" => stage = "start"
    /\ "late" \notin mishaps /\ ~currTs => \A t \in Tables \ {"nit"} : Idle(t)
    /\ stage = "ts" /\ (fid["nit"] # NoFid \/ Waits("request", "nit")) => currTs
    /\ \A t \in Tables \ {"nit"} : fid[t] # NoFid \/ Waits("request", t) => currTs
    /\ Slotting => currTs
    /\ stage = "ts" /\ "fend" \in recv => recv = {"fend"} /\ \A t \in Tables : fid[t] = NoFid

\* The end of the thread.
Finished ==
    /\ spc = "crashed" => mishaps \cap {"late", "unlisted"} # {}
    /\ spc = "gone" => fevt = NoList /\ ~subscribed

LEMMA CurrentParts ==
    /\ Current <=> Fitting /\ Collecting /\ Finished
    /\ Current' <=> Fitting' /\ Collecting' /\ Finished'
<1>1. (Slotting => currTs) <=> \A i \in 1 .. Len(Slots) : Waits("slot", i) => currTs
  BY DEF Slotting
<1>2. Current <=> Fitting /\ Collecting /\ Finished
  BY <1>1 DEF Current, Fitting, Collecting, Finished
<1>3. (Current <=> Fitting /\ Collecting /\ Finished)'
  BY <1>2, PTL
<1> QED BY <1>2, <1>3

\* A step that only takes from what is collected, or adds to it while there is a current stream.
Calm ==
    /\ UNCHANGED <<stage, currTs>> /\ (mode' = "blind" => mode = "blind")
    /\ recv' \subseteq recv /\ mishaps \subseteq mishaps'
    /\ \A t \in Tables : fid'[t] = fid[t] \/ fid'[t] = NoFid
    /\ \A f \in {"pat", "pmt", "sdt", "nit"} :
          f \in evt' => f \in evt \/ \E t \in Tables : f = Flag(t) /\ fid[t] # NoFid
CalmTasks ==
    /\ \A t \in Tables :
          /\ Waits("request", t)' => Waits("request", t) \/ currTs \/ (t = "nit" /\ stage = "nit")
          /\ Waits("done", t)' => Waits("done", t) \/ Flag(t) \in evt \cup recv
    /\ Slotting' => Slotting \/ currTs

LEMMA CalmKeeps ==
    ASSUME Collecting, TypeOK, Calm, CalmTasks
    PROVE  Collecting'
<1>1. \A t \in Tables : Flag(t) \in {"pat", "pmt", "sdt", "nit"} /\ (t # "nit" => Flag(t) # "nit")
  BY FlagTyped
<1>2. "nit" \in Tables /\ Flag("nit") = "nit"
  <2>1. "nit" \in Tables /\ "nit" \notin SlotSet
    BY SlotsAssumption DEF Tables
  <2> QED BY <2>1 DEF Flag
<1>3. (currTs => stage = "ts" /\ "fend" \notin recv)'
  BY DEF Collecting, Calm
<1>4. (stage = "start" =>
          /\ recv = {} /\ evt \cap {"pat", "pmt", "sdt", "nit"} = {}
          /\ \A t \in Tables : fid[t] = NoFid /\ ~Waits("request", t) /\ ~Waits("done", t))'
  <2> SUFFICES ASSUME stage' = "start"
               PROVE  /\ recv' = {} /\ evt' \cap {"pat", "pmt", "sdt", "nit"} = {}
                      /\ \A t \in Tables : fid'[t] = NoFid /\ ~Waits("request", t)' /\ ~Waits("done", t)'
    OBVIOUS
  <2>1. /\ stage = "start" /\ ~currTs /\ recv = {} /\ evt \cap {"pat", "pmt", "sdt", "nit"} = {}
        /\ \A t \in Tables : fid[t] = NoFid /\ ~Waits("request", t) /\ ~Waits("done", t)
    BY DEF Collecting, Calm
  <2>2. recv' = {} /\ \A t \in Tables : fid'[t] = NoFid
    BY <2>1 DEF Calm
  <2>3. evt' \cap {"pat", "pmt", "sdt", "nit"} = {}
    BY <2>1 DEF Calm
  <2>4. \A t \in Tables : Flag(t) \notin evt \cup recv
    BY <1>1, <2>1
  <2>5. \A t \in Tables : ~Waits("request", t)' /\ ~Waits("done", t)'
    BY <2>1, <2>4 DEF CalmTasks
  <2> QED BY <2>2, <2>3, <2>5
<1>5. (mode = "blind" => stage = "start")'
  BY DEF Collecting, Calm
<1>6. ("late" \notin mishaps /\ ~currTs => \A t \in Tables \ {"nit"} : Idle(t))'
  <2> SUFFICES ASSUME "late" \notin mishaps', ~currTs', NEW t \in Tables \ {"nit"}
               PROVE  Idle(t)'
    OBVIOUS
  <2>1. ~currTs /\ Idle(t)
    BY DEF Collecting, Calm
  <2>2. Flag(t) \in {"pat", "pmt", "sdt"}
    BY <1>1
  <2>3. fid[t] = NoFid /\ Flag(t) \notin recv /\ Flag(t) \notin evt /\ ~Waits("done", t) /\ ~Waits("request", t)
    BY <2>1 DEF Idle
  <2>4. fid'[t] = NoFid /\ Flag(t) \notin recv'
    BY <2>3 DEF Calm
  <2>5. Flag(t) \notin evt'
    <3>1. ASSUME NEW z \in Tables, Flag(z) = Flag(t), fid[z] # NoFid
          PROVE  FALSE
      <4>1. z # "nit"
        BY <1>2, <2>2, <3>1
      <4> QED BY <2>1, <3>1, <4>1 DEF Collecting
    <3> QED BY <2>2, <2>3, <3>1 DEF Calm
  <2>6. ~Waits("done", t)' /\ ~Waits("request", t)'
    BY <2>1, <2>3 DEF CalmTasks
  <2> QED BY <2>4, <2>5, <2>6 DEF Idle
<1>7. (stage = "ts" /\ (fid["nit"] # NoFid \/ Waits("request", "nit")) => currTs)'
  BY <1>2 DEF Collecting, Calm, CalmTasks
<1>8. (\A t \in Tables \ {"nit"} : fid[t] # NoFid \/ Waits("request", t) => currTs)'
  <2> SUFFICES ASSUME NEW t \in Tables \ {"nit"}, fid'[t] # NoFid \/ Waits("request", t)'
               PROVE  currTs'
    OBVIOUS
  <2> QED BY DEF Collecting, Calm, CalmTasks
<1>9. (Slotting => currTs)'
  BY DEF Collecting, Calm, CalmTasks
<1>10. (stage = "ts" /\ "fend" \in recv => recv = {"fend"} /\ \A t \in Tables : fid[t] = NoFid)'
  <2> SUFFICES ASSUME stage' = "ts", "fend" \in recv'
               PROVE  recv' = {"fend"} /\ \A t \in Tables : fid'[t] = NoFid
    OBVIOUS
  <2>1. recv = {"fend"} /\ \A t \in Tables : fid[t] = NoFid
    BY DEF Collecting, Calm
  <2> QED BY <2>1 DEF Calm
<1> QED BY <1>3, <1>4, <1>5, <1>6, <1>7, <1>8, <1>9, <1>10 DEF Collecting

\* The steps that go from one stream to another, or ask for its tables.
CollectStep ==
    LeaveTs \/ TryNit \/ StartTs \/ NextFreq \/ Tune \/ LockedForTs \/ Request \/ RequestSlot

LEMMA CalmSteps ==
    ASSUME Inv, Stepping, ~CollectStep
    PROVE  Calm
<1>0. Agenda /\ fid \in [Tables -> Fids \cup {NoFid}] /\ NoFid \notin Fids
  BY InvParts, TablesFinite DEF TypeOK, Fids, NoFid
<1>1. CASE PassBegins
  <2>1. UNCHANGED <<stage, currTs, mode, recv, fid>> /\ evt' \subseteq evt
    BY <1>1 DEF PassBegins, Wait, Woken, TimedOut, Clear, Untouched, dataVars, scanVars, tableVars
  <2>2. mishaps \subseteq mishaps'
    BY <1>1 DEF PassBegins, Wait, Woken, TimedOut, Clear, history
  <2> QED BY <2>1, <2>2 DEF Calm
<1>2. CASE SectionHandled
  <2>1. UNCHANGED <<stage, currTs, mode, recv, fid>>
    BY <1>2 DEF SectionHandled, SectionIgnored, SectionUndecoded, SectionCollected, dataVars, scanVars, tableVars
  <2>2. mishaps \subseteq mishaps'
    BY <1>2 DEF SectionHandled, SectionIgnored, SectionUndecoded, SectionCollected, history
  <2>3. evt' = evt \/ \E t \in Tables : evt' = evt \cup {Flag(t)} /\ fid[t] = section.fid /\ section # NoSection
    <3>1. SectionIgnored => evt' = evt
      BY DEF SectionIgnored, dataVars
    <3>2. SectionUndecoded => \E t \in Handled : evt' = evt \cup {Flag(t)} /\ section # NoSection
      BY DEF SectionUndecoded, Raise
    <3>3. SectionCollected => evt' = evt \/ \E t \in Handled : evt' = evt \cup {Flag(t)} /\ section # NoSection
      BY DEF SectionCollected, Raise
    <3> QED BY <1>2, <3>1, <3>2, <3>3 DEF SectionHandled, Handled
  <2>4. section # NoSection => section.fid \in Fids
    BY DEF Inv, Filtered
  <2>5. \A f \in {"pat", "pmt", "sdt", "nit"} :
          f \in evt' => f \in evt \/ \E t \in Tables : f = Flag(t) /\ fid[t] # NoFid
    BY <1>0, <2>3, <2>4
  <2> QED BY <2>1, <2>2, <2>5 DEF Calm
<1>3. CASE FendCallback \/ BlindCallback \/ AppStart \/ DestroyQuit
  <2>1. UNCHANGED <<stage, currTs, mode, recv, fid, mishaps>>
    BY <1>3 DEF FendCallback, BlindCallback, AppStart, DestroyQuit, history, scanVars, tableVars
  <2>2. evt' \subseteq evt \cup {"fend", "blind", "start", "quit"}
    BY <1>3 DEF FendCallback, BlindCallback, AppStart, DestroyQuit, Raise
  <2> QED BY <2>1, <2>2 DEF Calm
<1>4. CASE Free
  <2>1. UNCHANGED <<stage, currTs, mode, recv, evt, mishaps>> /\ fid' = [fid EXCEPT ![Of] = NoFid]
    BY <1>4 DEF Free, history, scanVars
  <2>2. \A t \in Tables : fid'[t] = fid[t] \/ fid'[t] = NoFid
    BY <1>0, <2>1
  <2> QED BY <2>1, <2>2 DEF Calm
<1>5. CASE /\ ~PassBegins /\ ~SectionHandled /\ ~Free
           /\ ~(FendCallback \/ BlindCallback \/ AppStart \/ DestroyQuit)
  <2>1. evt' = evt
    BY <1>5, EventsKept
  <2>2. fid' = fid
    <3>1. FilterStep => Stop \/ SectionRead
      BY <1>5 DEF FilterStep, CollectStep
    <3>2. Stop \/ SectionRead => fid' = fid
      BY DEF Stop, SectionRead, dataVars, tableVars
    <3> QED BY <3>1, <3>2, FiltersUntouched
  <2>3. UNCHANGED <<stage, currTs>> /\ (mode' = "blind" => mode = "blind")
    <3>1. ScannerStep => UNCHANGED <<stage, currTs>>
      BY <1>5 DEF CollectStep, PassBegins, ScannerStep, Check, Recheck, Complete, Window, Resume,
        NothingToFree, Synced, FreeSlot, RequestPmts, SkipSlot,
        PatDone, PatList, SdtDone, NitDoneInTs, NitMissing, NitFound, Resumed,
        FendEvent, NotLocked, LockedForNit, Begin,
        StartBlind, BlindDone, NextBlind, Joined, Quit, StopBlind, Stop, Unlock, dataVars, scanVars
    <3>2. ~BlindStep => mode' = mode
      BY BlindUntouched
    <3>3. BlindStep => mode' = mode \/ mode' = "allband"
      BY DEF BlindStep, Begin, StartBlind, NextBlind, BlindDone, Joined, StopBlind, BlindReport,
        BlindCallback, BlindEnds, Untouched, dataVars, scanVars
    <3>4. Unsubscribe \/ SectionRead \/ FendStatus \/ BlindReport \/ BlindEnds \/ AppPause \/ Destroy
          \/ DestroyReturn \/ Terminated \/ UNCHANGED vars => UNCHANGED <<stage, currTs>>
      BY DEF Unsubscribe, SectionRead, FendStatus, BlindReport, BlindEnds, AppPause, Destroy,
        DestroyReturn, Terminated, vars, dataVars, scanVars
    <3> QED BY <1>5, <3>1, <3>2, <3>3, <3>4 DEF Stepping, Next
  <2>4. recv' \subseteq recv /\ mishaps \subseteq mishaps'
    <3>1. ScannerStep => recv' \subseteq recv
      BY <1>5 DEF CollectStep, PassBegins, ScannerStep, Check, Recheck, Complete, Window, Resume,
        NothingToFree, Synced, FreeSlot, RequestPmts, SkipSlot,
        PatDone, PatList, SdtDone, NitDoneInTs, NitMissing, NitFound, Resumed,
        FendEvent, NotLocked, LockedForNit, Begin,
        StartBlind, BlindDone, NextBlind, Joined, Quit, StopBlind, Stop, Unlock, dataVars
    <3>2. ScannerStep => mishaps \subseteq mishaps'
      BY <1>5 DEF CollectStep, PassBegins, ScannerStep, Check, Recheck, Complete, Window, Resume,
        NothingToFree, Synced, FreeSlot, RequestPmts, SkipSlot,
        PatDone, PatList, SdtDone, NitDoneInTs, NitMissing, NitFound, Resumed,
        FendEvent, NotLocked, LockedForNit, Begin,
        StartBlind, BlindDone, NextBlind, Joined, Quit, StopBlind, Stop, Unlock, history
    <3>3. Unsubscribe \/ SectionRead \/ FendStatus \/ BlindReport \/ BlindEnds \/ AppPause \/ Destroy
          \/ DestroyReturn \/ Terminated \/ UNCHANGED vars => UNCHANGED <<recv, mishaps>>
      BY DEF Unsubscribe, SectionRead, FendStatus, BlindReport, BlindEnds, AppPause, Destroy,
        DestroyReturn, Terminated, vars, dataVars, history
    <3> QED BY <1>5, <3>1, <3>2, <3>3 DEF Stepping, Next
  <2> QED BY <2>1, <2>2, <2>3, <2>4 DEF Calm
<1> QED BY <1>1, <1>2, <1>3, <1>4, <1>5

LEMMA CalmRuns ==
    ASSUME Inv, Stepping, ~LockedForTs
    PROVE  CalmTasks
<1>0. Agenda /\ started \in BOOLEAN
  BY InvParts
<1>1. Fewer => CalmTasks
  BY DEF Fewer, CalmTasks
<1>2. NoTasks' => CalmTasks
  BY DEF NoTasks, CalmTasks
<1>3. Same => CalmTasks
  BY DEF Same, CalmTasks
<1>4. \A op, x : (Runs0(op) \/ Runs1(op, x)) => CalmTasks
  BY <1>1 DEF Runs0, Runs1
<1>5. CASE HandlingStep
  <2>1. Recheck \/ PatList \/ NitDoneInTs \/ NextBlind \/ LeaveTs \/ TryNit \/ NitMissing
        \/ NitFound \/ NextFreq \/ FendEvent \/ NotLocked \/ Begin \/ (SdtDone /\ currTs) => CalmTasks
    BY <1>0, <1>4, CallRuns
  <2>2. Tune \/ StartBlind \/ StartTs \/ (PatDone /\ currTs) => CalmTasks
    BY <1>0, <1>4, BranchRuns, AskRuns
  <2>3. SkipSlot \/ RequestSlot \/ FreeSlot \/ Request => CalmTasks
    BY <1>0, <1>1, AskRuns, FreeRuns
  <2>4. RequestPmts => CalmTasks
    BY <1>0, AskRuns DEF Asking, CalmTasks
  <2>5. LockedForNit => CalmTasks
    <3>1. LockedForNit => stage = "nit"
      BY DEF LockedForNit
    <3>2. LockedForNit => Asking({"nit"}) /\ (Slotting' => Slotting)
      BY <1>0, AskRuns
    <3> QED BY <3>1, <3>2 DEF Asking, CalmTasks
  <2> QED BY <1>5, <2>1, <2>2, <2>3, <2>4, <2>5 DEF HandlingStep
<1>6. CASE PassBegins
  <2>1. NoTasks' \/ HandlesNext(sampled')
    BY <1>6, PassSampled
  <2>2. sampled' \subseteq evt
    <3>1. sampled' \subseteq evt'
      BY <1>6, PassSampled
    <3>2. evt' \subseteq evt
      BY <1>6 DEF PassBegins, Wait, Woken, TimedOut, Clear, dataVars
    <3> QED BY <3>1, <3>2
  <2>3. \A t \in {"pat", "sdt", "nit"} : Flag(t) = t
    BY SlotsAssumption DEF Flag
  <2>4. HandlesNext(sampled') => CalmTasks
    BY <2>2, <2>3 DEF HandlesNext, CalmTasks
  <2> QED BY <1>2, <2>1, <2>4
<1>7. CASE Check \/ Complete \/ ((PatDone \/ SdtDone) /\ ~currTs)
  <2>1. Check => CalmTasks
    BY <1>0, CheckRuns DEF CalmTasks
  <2>2. Complete => CalmTasks
    BY <1>0, CompleteRuns DEF CalmTasks
  <2> QED BY <1>0, <1>2, <1>7, <2>1, <2>2, PassRuns
<1>8. FreeStep \/ Window \/ BlindDone \/ Stop \/ StopBlind => CalmTasks
  BY <1>0, <1>1, FreeRuns DEF FreeStep
<1>9. SameStep \/ Unsubscribe \/ Apart => CalmTasks
  <2>1. SameStep \/ Unsubscribe \/ Apart => Same
    BY <1>0, SameRuns, ApartRuns DEF SameStep
  <2> QED BY <1>3, <2>1
<1>10. Quit \/ Unlock => CalmTasks
  BY <1>0, <1>2, QuitRuns, PassRuns
<1> QED BY <1>5, <1>6, <1>7, <1>8, <1>9, <1>10, StepKinds DEF EndStep, PassStep, PassBegins

\* The thread only crashes when a table comes late.
LEMMA FinishedKept ==
    ASSUME Inv, Stepping
    PROVE  Finished'
<1>0. Agenda /\ Current /\ started \in BOOLEAN /\ TypeOK
  BY InvParts DEF Inv
<1>1. CASE Apart
  <2>1. UNCHANGED spc
    BY <1>1, ApartRuns
  <2>2. mishaps \subseteq mishaps'
    BY <1>1 DEF Apart, OutsideStep, SectionRead, SectionIgnored, SectionUndecoded, SectionCollected, FendStatus,
        FendCallback, BlindReport, BlindCallback, BlindEnds, AppStart, AppPause, Destroy, DestroyQuit,
        DestroyReturn, Terminated, vars, history
  <2>3. spc = "gone" => UNCHANGED <<fevt, subscribed>>
    <3>1. spc = "gone" => fevt = NoList /\ ~subscribed
      BY <1>0 DEF Current
    <3>2. ~FendStatus /\ ~FendCallback => UNCHANGED <<fevt, subscribed>>
      BY <1>1 DEF Apart, OutsideStep, SectionRead, SectionIgnored, SectionUndecoded, SectionCollected,
        BlindReport, BlindCallback, BlindEnds, AppStart, AppPause, Destroy, DestroyQuit,
        DestroyReturn, Terminated, vars, fendVars, outerVars
    <3>3. FendStatus => subscribed
      BY DEF FendStatus
    <3>4. FendCallback => fevt # NoList
      BY DEF FendCallback
    <3> QED BY <3>1, <3>2, <3>3, <3>4
  <2> QED BY <1>0, <2>1, <2>2, <2>3 DEF Current, Finished
<1>2. CASE (PatDone \/ SdtDone) /\ ~currTs
  <2>1. \E t \in {"pat", "sdt"} : t \in Tables \ {"nit"} /\ Waits("done", t)
    <3>1. "pat" \in Tables \ {"nit"} /\ "sdt" \in Tables \ {"nit"}
      BY DEF Tables
    <3>2. (Of = "pat" \/ Of = "sdt") /\ At("done")
      BY <1>2 DEF PatDone, SdtDone, Freed
    <3>3. Waits("done", Of)
      BY <1>0, <3>2, AtHas
    <3> QED BY <3>1, <3>2, <3>3
  <2>2. "late" \in mishaps
    BY <1>0, <1>2, <2>1 DEF Current, Idle
  <2>3. mishaps' = mishaps /\ spc' = "crashed"
    BY <1>0, <1>2, PassRuns DEF PatDone, SdtDone, history
  <2> QED BY <2>2, <2>3 DEF Finished
<1>3. CASE Unsubscribe
  BY <1>3 DEF Unsubscribe, Finished
<1>5. CASE Check /\ ReadsNull(Of)
  <2>1. UNCHANGED mishaps /\ spc' = "crashed"
    BY <1>5 DEF Check, Crash, history
  <2> QED BY <1>0, <1>5, <2>1 DEF ReadsNull, Finished, TypeOK, NoList
<1>4. CASE /\ ~Apart /\ ~Unsubscribe /\ ~((PatDone \/ SdtDone) /\ ~currTs)
           /\ ~(Check /\ ReadsNull(Of))
  <2>1. HandlingStep => spc' \notin {"crashed", "gone"}
    BY HandlingStates
  <2>2. Check \/ Complete \/ PassBegins => spc' \notin {"crashed", "gone"}
    BY <1>4 DEF PassBegins, Check, Complete, Wait, Woken, TimedOut, Clear, At, Then, BeginPass
  <2>3. FreeStep \/ Window \/ BlindDone => spc' \notin {"crashed", "gone"}
    BY DEF FreeStep, Free, NothingToFree, Window, BlindDone, Return, Then, Signal
  <2>4. SameStep => spc' \notin {"crashed", "gone"}
    BY DEF SameStep, Resume, Free, Synced, Resumed, Joined
  <2>5. EndStep => spc' \notin {"crashed", "gone"}
    BY <1>4 DEF EndStep, Quit, Stop, StopBlind, Unlock
  <2>6. spc' \notin {"crashed", "gone"}
    BY <1>4, <2>1, <2>2, <2>3, <2>4, <2>5, StepKinds DEF PassStep, PassBegins
  <2> QED BY <2>6 DEF Finished
<1> QED BY <1>1, <1>2, <1>3, <1>4, <1>5

\* What may not be behind a task that handles an event.
LEMMA HandlingHead ==
    ASSUME Agenda, NEW op \in Handling, At(op)
    PROVE  /\ \A t : ~Waits("request", t)
           /\ op # "slot" => ~Slotting
           /\ \A t : Waits("done", t) => op = "done" \/ For("done", t) \in Rest
           /\ op \in Tracked => Has(op)
<1>1. /\ Pending = {<<op, Of>>} \cup Rest
      /\ \A y \in Rest : y[1] \in Behind(op)
  BY HeadTask DEF Heads
<1>2. "request" \notin Behind(op) /\ "slot" \notin Behind(op) /\ op # "request"
  <2>1. Behind(op) = Later \/ Behind(op) = Later \ {"fend"}
    BY HandlingBehind
  <2>2. "request" \notin Later /\ "slot" \notin Later
    BY DEF Later
  <2> QED BY <2>1, <2>2 DEF Handling
<1>3. \A x, t : For(x, t)[1] = x
  BY DEF For
<1>4. \A x, t : x # op => For(x, t) # <<op, Of>>
  BY DEF For
<1>5. \A x, t : x # op /\ Waits(x, t) => For(x, t) \in Rest
  BY <1>1, <1>4 DEF Waits
<1>6. \A x, t : x # op /\ x \notin Behind(op) => ~Waits(x, t)
  BY <1>1, <1>3, <1>5
<1>7. (\A t : ~Waits("request", t)) /\ (op # "slot" => ~Slotting)
  BY <1>2, <1>6 DEF Slotting
<1>8. \A t : Waits("done", t) => op = "done" \/ For("done", t) \in Rest
  BY <1>5
<1> QED BY <1>7, <1>8, AtHas

\* Filters that are all to be freed, when there is nothing to free any more.
LEMMA NothingLeft ==
    ASSUME Inv, NoFrees, Leaving
    PROVE  recv = {} /\ \A t \in Tables : fid[t] = NoFid
BY DEF Inv, Current, NoFrees

\* From one stage, or one frequency, to another.
LEMMA MovesCollect ==
    ASSUME Inv, Stepping, TryNit \/ StartTs \/ NextFreq \/ Tune
    PROVE  Collecting'
<1>0. Agenda /\ Current /\ Collecting /\ TypeOK
  BY InvParts, CurrentParts DEF Inv
<1>t. /\ {"trynit", "ts", "next", "tune"} \subseteq Tracked
      /\ {"trynit", "ts", "next", "tune"} \subseteq Handling
  BY DEF Tracked, Handling
<1>1. UNCHANGED <<currTs, evt, fid>> /\ mishaps \subseteq mishaps'
  BY DEF TryNit, StartTs, NextFreq, AllDone, Tune, Untouched, dataVars, scanVars, tableVars, history
<1>2. Fewer /\ NoFrees
  <2>1. TryNit => Fewer /\ NoFrees
    BY <1>0, CallRuns DEF Runs1
  <2>2. StartTs => Fewer /\ NoFrees
    BY <1>0, AskRuns DEF Runs1
  <2>3. NextFreq => Fewer /\ NoFrees
    BY <1>0, CallRuns DEF Runs0, Runs1
  <2>4. Tune => Fewer /\ NoFrees
    BY <1>0, BranchRuns DEF Runs0, Runs1
  <2> QED BY <2>1, <2>2, <2>3, <2>4
<1>3. ASSUME recv' \subseteq recv \cup {"fend"}
      PROVE  ("late" \notin mishaps /\ ~currTs => \A t \in Tables \ {"nit"} : Idle(t))'
  <2> SUFFICES ASSUME "late" \notin mishaps', ~currTs', NEW t \in Tables \ {"nit"}
               PROVE  Idle(t)'
    OBVIOUS
  <2>1. Idle(t)
    BY <1>0, <1>1 DEF Collecting
  <2>2. Flag(t) # "fend"
    BY FlagTyped
  <2> QED BY <1>1, <1>2, <1>3, <2>1, <2>2 DEF Idle, Fewer
<1>4. (\A t \in Tables \ {"nit"} : fid[t] # NoFid \/ Waits("request", t) => currTs)'
  <2> SUFFICES ASSUME NEW t \in Tables \ {"nit"}, fid'[t] # NoFid \/ Waits("request", t)'
               PROVE  currTs'
    OBVIOUS
  <2> QED BY <1>0, <1>1, <1>2 DEF Collecting, Fewer
<1>5. (Slotting => currTs)'
  BY <1>0, <1>1, <1>2 DEF Collecting, Fewer
<1>6. CASE TryNit
  <2>1. stage' = "nit" /\ recv' = recv /\ mode' = mode
    BY <1>6 DEF TryNit, Untouched
  <2>2. Has("trynit")
    BY <1>0, <1>6, <1>t, AtHas DEF TryNit
  <2>3. ~currTs /\ mode # "blind"
    BY <1>0, <2>2 DEF Current
  <2> QED BY <1>1, <1>3, <1>4, <1>5, <2>1, <2>3 DEF Collecting
<1>7. CASE StartTs
  <2>1. stage' = "ts" /\ recv' = recv /\ mode' = mode
    BY <1>7 DEF StartTs, Untouched
  <2>2. Has("ts") /\ At("ts") /\ "ts" \in Handling
    BY <1>0, <1>7, <1>t, AtHas DEF StartTs
  <2>3. mode # "blind" /\ recv = {} /\ \A t \in Tables : fid[t] = NoFid
    <3>1. Leaving
      BY <2>2 DEF Leaving
    <3>2. mode # "blind"
      BY <1>0, <2>2 DEF Current
    <3> QED BY <1>2, <3>1, <3>2, NothingLeft
  <2>4. "nit" \in Tables
    BY DEF Tables
  <2>5. ~Waits("request", "nit")'
    <3>1. ~Waits("request", "nit")
      BY <1>0, <2>2, HandlingHead
    <3> QED BY <1>2, <2>4, <3>1 DEF Fewer
  <2>6. currTs => stage = "ts" /\ "fend" \notin recv
    BY <1>0 DEF Collecting
  <2> QED BY <1>1, <1>3, <1>4, <1>5, <2>1, <2>3, <2>4, <2>5, <2>6 DEF Collecting
<1>8. CASE NextFreq
  <2>1. recv' = recv /\ mode' = mode
    BY <1>8 DEF NextFreq, AllDone
  <2>2. Has("next")
    BY <1>0, <1>8, <1>t, AtHas DEF NextFreq
  <2>3. ~currTs /\ stage # "start" /\ mode # "blind"
    BY <1>0, <2>2 DEF Current
  <2>4. stage' = stage \/ stage' = "done"
    BY <1>8 DEF NextFreq, AllDone
  <2>5. stage' = "ts" => stage = "ts"
    BY <2>4
  <2>6. stage = "ts" => /\ "fend" \notin recv /\ fid["nit"] = NoFid
    <3>1. stage = "ts" => Leaving
      BY <2>2 DEF Leaving
    <3>2. "nit" \in Tables
      BY DEF Tables
    <3> QED BY <1>2, <3>1, <3>2, NothingLeft
  <2>7. ~Waits("request", "nit")'
    <3>1. At("next") /\ "next" \in Handling /\ "nit" \in Tables
      BY <1>8, <1>t DEF NextFreq, Tables
    <3>2. ~Waits("request", "nit")
      BY <1>0, <3>1, HandlingHead
    <3> QED BY <1>2, <3>1, <3>2 DEF Fewer
  <2>8. stage' # "start"
    BY <2>3, <2>4
  <2> QED BY <1>1, <1>3, <1>4, <1>5, <2>1, <2>3, <2>5, <2>6, <2>7, <2>8 DEF Collecting
<1>9. CASE Tune
  <2>1. stage' = stage /\ mode' = mode /\ recv' \in {recv, recv \cup {"fend"}}
    BY <1>9 DEF Tune, scanVars
  <2>2. Has("tune")
    BY <1>0, <1>9, <1>t, AtHas DEF Tune
  <2>3. ~currTs /\ stage # "start" /\ mode # "blind"
    BY <1>0, <2>2 DEF Current
  <2>4. stage = "ts" => recv = {} /\ \A t \in Tables : fid[t] = NoFid
    <3>1. stage = "ts" => Leaving
      BY <2>2 DEF Leaving
    <3> QED BY <1>2, <3>1, NothingLeft
  <2>5. "nit" \in Tables
    BY DEF Tables
  <2>6. ~Waits("request", "nit")'
    <3>1. At("tune") /\ "tune" \in Handling
      BY <1>9, <1>t DEF Tune
    <3>2. ~Waits("request", "nit")
      BY <1>0, <3>1, HandlingHead
    <3> QED BY <1>2, <2>5, <3>2 DEF Fewer
  <2>7. recv' \subseteq recv \cup {"fend"}
    BY <2>1
  <2>8. stage = "ts" /\ "fend" \in recv' => recv' = {"fend"}
    BY <2>1, <2>4
  <2> QED BY <1>1, <1>3, <1>4, <1>5, <2>1, <2>3, <2>4, <2>5, <2>6, <2>7, <2>8 DEF Collecting
<1> QED BY <1>6, <1>7, <1>8, <1>9

\* The current stream is left when nothing is received of it any more.
LEMMA LeavesCollect ==
    ASSUME Inv, Stepping, LeaveTs
    PROVE  Collecting'
<1>0. Agenda /\ Current /\ Collecting /\ Sampled /\ TypeOK
  BY InvParts, CurrentParts DEF Inv
<1>1. At("leave") /\ "leave" \in Handling /\ "leave" # "slot" /\ "leave" # "done" /\ "leave" \in Tracked
  BY DEF LeaveTs, Handling, Tracked
<1>2. Fewer /\ NoFrees
  BY <1>0, CallRuns DEF Runs1
<1>3. /\ ~Slotting /\ Has("leave")
      /\ \A t : ~Waits("request", t) /\ (Waits("done", t) => For("done", t) \in Rest)
  BY <1>0, <1>1, HandlingHead
<1>4. stage = "ts" /\ recv = {} /\ \A t \in Tables : fid[t] = NoFid
  <2>1. stage = "ts"
    BY <1>0, <1>3 DEF Current
  <2>2. Leaving
    BY <1>3, <2>1 DEF Leaving
  <2> QED BY <1>2, <2>1, <2>2, NothingLeft
<1>5. UNCHANGED <<stage, mode, recv, evt, fid>> /\ ~currTs'
      /\ mishaps' = mishaps \cup Mishap(evt \cap {"pat", "pmt", "sdt"} # {}, "late")
  BY DEF LeaveTs, Untouched
<1>6. mode # "blind"
  BY <1>0, <1>4 DEF Collecting
<1>7. ~Slotting' /\ \A t \in Tables : ~Waits("request", t)'
  BY <1>2, <1>3 DEF Fewer
<1>8. ASSUME "late" \notin mishaps', NEW t \in Tables \ {"nit"}
      PROVE  Idle(t)'
  <2>1. evt \cap {"pat", "pmt", "sdt"} = {}
    BY <1>5, <1>8 DEF Mishap
  <2>2. Flag(t) \in {"pat", "pmt", "sdt"}
    BY FlagTyped
  <2>3. ~Waits("done", t)'
    <3>1. SUFFICES ASSUME Waits("done", t)
                   PROVE  FALSE
      BY <1>2 DEF Fewer
    <3>2. For("done", t) \in Rest /\ t \notin SlotSet /\ agenda # << >>
      BY <1>0, <1>1, <1>3, <3>1, HeadTask DEF Sampled, Heads
    <3>3. t \in evt /\ Flag(t) = t
      BY <1>0, <3>2, FlagTyped DEF Sampled, Rest
    <3> QED BY <2>1, <2>2, <3>3
  <2>4. fid'[t] = NoFid /\ Flag(t) \notin recv' /\ Flag(t) \notin evt' /\ ~Waits("request", t)'
    BY <1>4, <1>5, <1>7, <2>1, <2>2
  <2> QED BY <2>3, <2>4 DEF Idle
<1>9. "nit" \in Tables
  BY DEF Tables
<1> QED BY <1>4, <1>5, <1>6, <1>7, <1>8, <1>9 DEF Collecting

\* A stream is the current one once the frontend has locked.
LEMMA LocksCollect ==
    ASSUME Inv, Stepping, LockedForTs
    PROVE  Collecting'
<1>1. stage' = "ts" /\ stage = "ts" /\ mode' = mode /\ currTs' /\ "fend" \notin recv'
  BY DEF LockedForTs, Untouched
<1>2. mode # "blind"
  BY <1>1, CurrentParts DEF Inv, Collecting
<1> QED BY <1>1, <1>2 DEF Collecting

\* A table is asked for while there is a current stream, but for the NIT that is looked for first.
LEMMA AskKinds ==
    ASSUME Inv, Request \/ RequestSlot
    PROVE  /\ UNCHANGED <<stage, currTs, mode, evt>> /\ mishaps \subseteq mishaps'
           /\ \/ recv' \subseteq recv /\ UNCHANGED fid
              \/ \E t \in Tables :
                    /\ fid' = [fid EXCEPT ![t] = LowestFree] /\ recv' = recv \cup {Flag(t)}
                    /\ Waits("request", t) \/ (currTs /\ t # "nit")
<1>0. Agenda
  BY InvParts
<1>1. CASE Request
  <2>1. Of \in Tables /\ Waits("request", Of)
    BY <1>0, <1>1, AtHas DEF Request
  <2>2. \/ UNCHANGED <<fid, recv, mishaps>>
        \/ Allocated(Of) /\ mishaps \subseteq mishaps'
        \/ NotAllocated /\ mishaps \subseteq mishaps'
    BY <1>1 DEF Request
  <2>3. UNCHANGED <<stage, currTs, mode, evt>>
    BY <1>1 DEF Request, scanVars
  <2> QED BY <2>1, <2>2, <2>3 DEF Allocated, NotAllocated
<1>2. CASE RequestSlot
  <2>1. Slot \in Tables /\ Slot # "nit" /\ currTs
    <3>1. Slot \in SlotSet /\ Slot \in Tables /\ Slotting
      BY <1>0, <1>2, SlotOf, AtHas DEF RequestSlot
    <3>2. "nit" \notin SlotSet
      BY SlotsAssumption
    <3> QED BY <3>1, <3>2, CurrentParts DEF Inv, Collecting
  <2>2. \/ UNCHANGED <<fid, mishaps>> /\ recv' \subseteq recv
        \/ Allocated(Slot) /\ UNCHANGED mishaps
        \/ NotAllocated /\ mishaps \subseteq mishaps'
    BY <1>2 DEF RequestSlot
  <2>3. UNCHANGED <<stage, currTs, mode, evt>>
    BY <1>2 DEF RequestSlot, Untouched, scanVars
  <2> QED BY <2>1, <2>2, <2>3 DEF Allocated, NotAllocated
<1> QED BY <1>1, <1>2

LEMMA AsksCollect ==
    ASSUME Inv, Stepping, Request \/ RequestSlot
    PROVE  Collecting'
<1>0. Agenda /\ Collecting /\ TypeOK /\ CalmTasks
  BY InvParts, CurrentParts, CalmRuns DEF Inv, LockedForTs, Request, RequestSlot, At
<1>1. UNCHANGED <<stage, currTs, mode, evt>> /\ mishaps \subseteq mishaps'
  BY AskKinds
<1>2. CASE recv' \subseteq recv /\ UNCHANGED fid
  <2>1. Calm
    BY <1>1, <1>2 DEF Calm
  <2> QED BY <1>0, <2>1, CalmKeeps
<1>3. CASE \E t \in Tables :
              /\ fid' = [fid EXCEPT ![t] = LowestFree] /\ recv' = recv \cup {Flag(t)}
              /\ Waits("request", t) \/ (currTs /\ t # "nit")
  <2>1. PICK t \in Tables : /\ fid' = [fid EXCEPT ![t] = LowestFree] /\ recv' = recv \cup {Flag(t)}
                            /\ Waits("request", t) \/ (currTs /\ t # "nit")
    BY <1>3
  <2>2. \A z \in Tables : z # t => fid'[z] = fid[z]
    BY <1>0, <2>1 DEF TypeOK
  <2>3. stage # "start" /\ (t # "nit" => currTs) /\ (stage = "ts" => currTs)
    BY <1>0, <2>1 DEF Collecting
  <2>4. Flag(t) # "fend" /\ (t = "nit" <=> Flag(t) = "nit")
    <3>1. "nit" \notin SlotSet
      BY SlotsAssumption
    <3> QED BY <3>1, FlagTyped
  <2>5. currTs' => stage' = "ts" /\ "fend" \notin recv'
    BY <1>0, <1>1, <2>1, <2>4 DEF Collecting
  <2>6. mode' = "blind" => stage' = "start"
    BY <1>0, <1>1 DEF Collecting
  <2>7. ASSUME "late" \notin mishaps', ~currTs', NEW z \in Tables \ {"nit"}
        PROVE  Idle(z)'
    <3>1. t = "nit" /\ Idle(z) /\ ~currTs
      BY <1>0, <1>1, <2>3, <2>7 DEF Collecting
    <3>2. Flag(z) # "nit" /\ Flag(t) = "nit"
      BY <2>4, <3>1, FlagTyped, SlotsAssumption
    <3>3. fid'[z] = NoFid /\ Flag(z) \notin recv' /\ Flag(z) \notin evt'
      BY <1>1, <2>1, <2>2, <3>1, <3>2 DEF Idle
    <3>4. ~Waits("request", z)' /\ ~Waits("done", z)'
      BY <1>0, <3>1 DEF CalmTasks, Idle
    <3> QED BY <3>3, <3>4 DEF Idle
  <2>8. stage' = "ts" => currTs'
    BY <1>1, <2>3
  <2>9. ASSUME NEW z \in Tables \ {"nit"}, fid'[z] # NoFid \/ Waits("request", z)'
        PROVE  currTs'
    BY <1>0, <1>1, <2>2, <2>3, <2>9 DEF Collecting, CalmTasks
  <2>10. Slotting' => currTs'
    BY <1>0, <1>1 DEF Collecting, CalmTasks
  <2>11. ~(stage' = "ts" /\ "fend" \in recv')
    BY <2>5, <2>8
  <2> QED BY <1>1, <2>3, <2>5, <2>6, <2>7, <2>8, <2>9, <2>10, <2>11 DEF Collecting
<1> QED BY <1>2, <1>3, AskKinds

LEMMA CollectingKept ==
    ASSUME Inv, Stepping
    PROVE  Collecting'
<1>1. Collecting /\ TypeOK
  BY InvParts, CurrentParts DEF Inv
<1>2. ~CollectStep => Collecting'
  <2>1. ~CollectStep => Calm /\ CalmTasks
    BY CalmSteps, CalmRuns DEF CollectStep
  <2> QED BY <1>1, <2>1, CalmKeeps
<1> QED BY <1>2, MovesCollect, LeavesCollect, LocksCollect, AsksCollect DEF CollectStep

\* The calls that go on with the scan.
Going == {"next", "tune", "trynit", "leave", "status", "ts"}
Still == \A x \in Going : ~Has(x)

LEMMA StillFits == Still' => Fitting'
BY DEF Still, Going, Fitting, Leaving

\* One call is what a step goes on with.
Goes(x) == \A y \in Going : Has(y)' <=> y = x

LEMMA RunsGoing ==
    /\ \A op : Runs0(op) => Still'
    /\ \A op : \A x \in Tracked : Runs1(op, x) => Goes(x) /\ NoFrees
    /\ \A op, S, C : Runs(op, S, C) /\ S \cap Going = {} /\ C \cap Going = {} => Still'
<1>1. Going \subseteq Tracked /\ Comes \cap Going = {}
  BY DEF Going, Tracked, Comes
<1>2. \A op, S, C : Runs(op, S, C) /\ S \cap Going = {} /\ C \cap Going = {} => Still'
  BY <1>1 DEF Runs, Still
<1>3. \A op : Runs0(op) => Still'
  BY <1>1, <1>2 DEF Runs0
<1>4. \A op : \A x \in Tracked : Runs1(op, x) => Goes(x) /\ NoFrees
  BY <1>1 DEF Runs1, Runs, Goes
<1> QED BY <1>2, <1>3, <1>4

LEMMA GoesOn ==
    ASSUME NEW x \in Going, Goes(x),
           x \in {"next", "tune"} => ~currTs' /\ stage' # "start",
           x = "trynit" => stage' # "ts" /\ mode' # "blind",
           x = "ts" => mode' # "blind",
           x = "leave" => stage' = "ts",
           x = "status" => "fend" \in recv',
           x = "ts" \/ (stage' = "ts" /\ x \in {"leave", "next", "tune"})
           => recv' = {} /\ \A t \in Tables : fid'[t] = NoFid
    PROVE  Fitting'
<1>1. /\ Has("next")' <=> x = "next"
      /\ Has("tune")' <=> x = "tune"
      /\ Has("trynit")' <=> x = "trynit"
      /\ Has("leave")' <=> x = "leave"
      /\ Has("status")' <=> x = "status"
      /\ Has("ts")' <=> x = "ts"
  BY DEF Goes, Going
<1>2. Leaving' => recv' = {} /\ \A t \in Tables : fid'[t] = NoFid
  BY <1>1 DEF Leaving
<1> QED BY <1>1, <1>2 DEF Fitting

\* The handling of an event that does not go on with another stage or frequency.
LEMMA QuietStill ==
    ASSUME Agenda,
           Recheck \/ PatList \/ NitDoneInTs \/ NextBlind \/ LockedForNit \/ LockedForTs
           \/ RequestPmts \/ SkipSlot \/ RequestSlot \/ FreeSlot \/ Request \/ ((PatDone \/ SdtDone) /\ currTs)
    PROVE  Still'
<1>1. Recheck \/ PatList \/ NitDoneInTs \/ ((PatDone \/ SdtDone) /\ currTs) => Still'
  BY CallRuns, AskRuns, RunsGoing
<1>2. NextBlind => Still'
  <2>1. "bs" \in Tracked /\ "bs" \notin Going
    BY DEF Tracked, Going
  <2> QED BY <2>1, CallRuns, RunsGoing DEF Goes, Still
<1>3. LockedForNit \/ LockedForTs \/ RequestPmts \/ SkipSlot \/ RequestSlot \/ FreeSlot \/ Request => Still'
  <2>1. LockedForNit \/ LockedForTs \/ RequestPmts \/ SkipSlot \/ RequestSlot \/ FreeSlot \/ Request
        => \E op : Runs(op, {}, Comes)
    BY AskRuns, FreeRuns
  <2>2. Comes \cap Going = {}
    BY DEF Comes, Going
  <2> QED BY <2>1, <2>2, RunsGoing
<1> QED BY <1>1, <1>2, <1>3

LEMMA PassStill ==
    ASSUME Agenda, started \in BOOLEAN, PassStep \/ BlindDone \/ Quit \/ Stop \/ StopBlind \/ Unlock, ~Complete
    PROVE  Still'
<1>t. Going \subseteq Tracked
  BY DEF Going, Tracked
<1>2. \A T : Only(T)' /\ T \cap Going = {} => Still'
  BY <1>t DEF Only, Still
<1>3. \A e : HandlesNext(e) => Still'
  BY DEF HandlesNext, Still, Going, Tracked
<1>4. {} \cap Going = {} /\ {"check"} \cap Going = {}
  BY DEF Going
<1>5. Check \/ ((PatDone \/ SdtDone) /\ ~currTs) \/ Unlock => Still'
  BY <1>2, <1>4, CheckRuns, PassRuns
<1>6. Wait \/ Woken \/ TimedOut => Still'
  BY <1>2, <1>3, <1>4, PassRuns
<1>7. Clear => Still'
  <2>1. Clear /\ evt' = {} => Only({"check"})'
    BY PassRuns
  <2>2. Clear /\ evt' # {} => HandlesNext(evt')
    BY PassRuns
  <2> QED BY <1>2, <1>3, <1>4, <2>1, <2>2
<1>8. Quit => Still'
  <2>1. Quit => \A x \in Tracked : Has(x)' <=> x = "unsub" \/ (x = "stop" /\ started)
    BY QuitRuns
  <2> QED BY <1>t, <2>1 DEF Still, Going
<1>9. BlindDone \/ Stop \/ StopBlind => Still'
  <2>1. BlindDone => Runs("blind", {"nextbs"}, {"quit", "clear"})
    BY FreeRuns
  <2>2. Stop => Runs("stop", {}, {"unsub"}) \/ Runs("free all", {}, {"unsub"})
    BY FreeRuns
  <2>3. StopBlind => Runs("stop", {"free all"}, {"unsub"})
    BY FreeRuns
  <2>4. /\ {"nextbs"} \cap Going = {} /\ {"quit", "clear"} \cap Going = {}
        /\ {"unsub"} \cap Going = {} /\ {"free all"} \cap Going = {} /\ {} \cap Going = {}
    BY DEF Going
  <2> QED BY <2>1, <2>2, <2>3, <2>4, RunsGoing
<1> QED BY <1>5, <1>6, <1>7, <1>8, <1>9 DEF PassStep

LEMMA QuietFits ==
    ASSUME Inv, Stepping,
           Recheck \/ PatList \/ NitDoneInTs \/ NextBlind \/ LockedForNit \/ LockedForTs
           \/ RequestPmts \/ SkipSlot \/ RequestSlot \/ FreeSlot \/ Request \/ ((PatDone \/ SdtDone) /\ currTs)
    PROVE  Fitting'
<1>1. Agenda
  BY InvParts
<1> QED BY <1>1, QuietStill, StillFits

\* The stages and the frequencies.
LEMMA MovesFit ==
    ASSUME Inv, Stepping, LeaveTs \/ TryNit \/ StartTs \/ NextFreq \/ Tune
    PROVE  Fitting'
<1>0. Agenda /\ Current
  BY InvParts DEF Inv
<1>t. /\ {"trynit", "ts", "next", "tune", "leave"} \subseteq Tracked
      /\ {"trynit", "ts", "next", "tune", "leave"} \subseteq Going
  BY DEF Tracked, Going
<1>1. CASE LeaveTs
  <2>1. Goes("next") /\ NoFrees /\ Has("leave")
    BY <1>0, <1>1, <1>t, CallRuns, RunsGoing, AtHas DEF LeaveTs
  <2>2. stage = "ts"
    BY <1>0, <2>1 DEF Current
  <2>3. recv = {} /\ \A t \in Tables : fid[t] = NoFid
    BY <2>1, <2>2, NothingLeft DEF Leaving
  <2>4. UNCHANGED <<stage, recv, fid>> /\ ~currTs'
    BY <1>1 DEF LeaveTs
  <2> QED BY <1>t, <2>1, <2>2, <2>3, <2>4, GoesOn
<1>2. CASE TryNit
  <2>1. Goes("next") /\ Has("trynit")
    BY <1>0, <1>2, <1>t, CallRuns, RunsGoing, AtHas DEF TryNit
  <2>2. ~currTs
    BY <1>0, <2>1 DEF Current
  <2>3. stage' = "nit" /\ currTs' = currTs
    BY <1>2 DEF TryNit
  <2> QED BY <1>t, <2>1, <2>2, <2>3, GoesOn
<1>3. CASE StartTs
  <2>1. Goes("leave") /\ NoFrees /\ Has("ts")
    BY <1>0, <1>3, <1>t, AskRuns, RunsGoing, AtHas DEF StartTs
  <2>2. recv = {} /\ \A t \in Tables : fid[t] = NoFid
    BY <2>1, NothingLeft DEF Leaving
  <2>3. stage' = "ts" /\ UNCHANGED <<recv, fid>>
    BY <1>3 DEF StartTs, tableVars
  <2> QED BY <1>t, <2>1, <2>2, <2>3, GoesOn
<1>4. CASE NextFreq
  <2>1. Has("next")
    BY <1>0, <1>4, <1>t, AtHas DEF NextFreq
  <2>2. ~currTs /\ stage # "start"
    BY <1>0, <2>1 DEF Current
  <2>3. CASE curr + 1 >= cnt
    BY <1>0, <1>4, <2>3, CallRuns, RunsGoing, StillFits
  <2>4. CASE ~(curr + 1 >= cnt)
    <3>1. Goes("tune") /\ NoFrees
      BY <1>0, <1>4, <1>t, <2>4, CallRuns, RunsGoing
    <3>2. UNCHANGED <<stage, currTs, recv, fid>>
      BY <1>4, <2>4 DEF NextFreq, tableVars
    <3>3. stage = "ts" => recv = {} /\ \A t \in Tables : fid[t] = NoFid
      BY <2>1, <3>1, NothingLeft DEF Leaving
    <3> QED BY <1>t, <2>2, <3>1, <3>2, <3>3, GoesOn
  <2> QED BY <2>3, <2>4
<1>5. CASE Tune
  <2>1. Has("tune")
    BY <1>0, <1>5, <1>t, AtHas DEF Tune
  <2>2. ~currTs /\ stage # "start"
    BY <1>0, <2>1 DEF Current
  <2>3. CASE Runs0("tune")
    BY <2>3, RunsGoing, StillFits
  <2>4. CASE Runs1("tune", "next") /\ UNCHANGED recv
    <3>1. Goes("next") /\ NoFrees
      BY <1>t, <2>4, RunsGoing
    <3>2. UNCHANGED <<stage, currTs, recv, fid>>
      BY <1>5, <2>4 DEF Tune, tableVars, scanVars
    <3>3. stage = "ts" => recv = {} /\ \A t \in Tables : fid[t] = NoFid
      BY <2>1, <3>1, NothingLeft DEF Leaving
    <3> QED BY <1>t, <2>2, <3>1, <3>2, <3>3, GoesOn
  <2> QED BY <1>0, <1>5, <2>3, <2>4, BranchRuns
<1> QED BY <1>1, <1>2, <1>3, <1>4, <1>5

\* The start of a scan, and the answers to what was asked for.
LEMMA AnswersFit ==
    ASSUME Inv, Stepping, NitMissing \/ NitFound \/ FendEvent \/ NotLocked
    PROVE  Fitting'
<1>0. Agenda /\ Current
  BY InvParts DEF Inv
<1>t. /\ {"trynit", "ts", "status"} \subseteq Tracked
      /\ {"trynit", "ts", "status"} \subseteq Going
  BY DEF Tracked, Going
<1>1. stage # "start" => mode # "blind"
  BY <1>0 DEF Current
<1>2. CASE NitMissing \/ NitFound
  <2>1. Of = "nit" /\ fid["nit"] = NoFid /\ stage # "ts" /\ UNCHANGED <<stage, mode, fid>>
    BY <1>2 DEF NitMissing, NitFound, Freed, Untouched, dataVars, scanVars, tableVars
  <2>2. Waits("done", "nit") /\ "nit" \in Tables
    BY <1>0, <1>2, <2>1, AtHas DEF NitMissing, NitFound, Freed
  <2>3. stage # "start"
    BY <1>0, <2>2 DEF Current
  <2>4. \A t \in Tables : fid[t] = NoFid
    BY <1>0, <2>1 DEF Current
  <2>5. CASE NitMissing
    <3>1. Goes("trynit")
      BY <1>0, <1>t, <2>5, CallRuns, RunsGoing
    <3> QED BY <1>1, <1>t, <2>1, <2>3, <3>1, GoesOn
  <2>6. CASE NitFound /\ recv' = {}
    <3>1. Goes("ts")
      BY <1>0, <1>t, <2>6, CallRuns, RunsGoing
    <3> QED BY <1>1, <1>t, <2>1, <2>3, <2>4, <2>6, <3>1, GoesOn
  <2>7. CASE NitFound /\ recv' # {}
    BY <1>0, <2>7, CallRuns, RunsGoing, StillFits
  <2> QED BY <1>2, <2>5, <2>6, <2>7
<1>3. CASE FendEvent
  <2>1. CASE FendExpected
    <3>1. Goes("status")
      BY <1>0, <1>3, <1>t, <2>1, CallRuns, RunsGoing
    <3>2. "fend" \in recv'
      BY <1>3, <2>1 DEF FendEvent, FendExpected, dataVars
    <3> QED BY <1>t, <3>1, <3>2, GoesOn
  <2>2. CASE ~FendExpected
    BY <1>0, <1>3, <2>2, CallRuns, RunsGoing, StillFits
  <2> QED BY <2>1, <2>2
<1>4. CASE NotLocked
  <2>1. UNCHANGED <<stage, mode, fid>> /\ recv' = recv \ {"fend"}
    BY <1>4 DEF NotLocked, Untouched, scanVars, tableVars
  <2>2. "fend" \in recv
    BY <1>0, <1>4, <1>t, AtHas DEF NotLocked, Current
  <2>3. CASE stage = "nit"
    <3>1. Goes("trynit")
      BY <1>0, <1>4, <1>t, <2>3, CallRuns, RunsGoing
    <3> QED BY <1>1, <1>t, <2>1, <2>3, <3>1, GoesOn
  <2>4. CASE stage = "ts"
    <3>1. Goes("ts")
      BY <1>0, <1>4, <1>t, <2>4, CallRuns, RunsGoing
    <3>2. recv' = {} /\ \A t \in Tables : fid'[t] = NoFid
      BY <1>0, <2>1, <2>2, <2>4 DEF Current
    <3> QED BY <1>1, <1>t, <2>1, <2>4, <3>1, <3>2, GoesOn
  <2>5. CASE stage # "nit" /\ stage # "ts"
    BY <1>0, <1>4, <2>5, CallRuns, RunsGoing, StillFits
  <2> QED BY <2>3, <2>4, <2>5
<1> QED BY <1>2, <1>3, <1>4

LEMMA BeginsFit ==
    ASSUME Inv, Stepping, Begin \/ StartBlind
    PROVE  Fitting'
<1>0. Agenda /\ Current /\ TypeOK
  BY InvParts DEF Inv
<1>t. {"trynit", "ts", "begin", "bs"} \subseteq Tracked /\ {"trynit", "ts"} \subseteq Going
      /\ "bs" \notin Going
  BY DEF Tracked, Going
<1>1. stage = "start" /\ recv = {} /\ \A t \in Tables : fid[t] = NoFid
  <2>1. Begin => stage = "start"
    <3>1. Begin => Has("begin")
      BY <1>0, <1>t, AtHas DEF Begin
    <3>2. Begin => ~started
      BY <3>1 DEF Inv, Sampled
    <3> QED BY <3>2 DEF Inv, NotStarted
  <2>2. StartBlind => stage = "start"
    <3>1. StartBlind => Has("bs")
      BY <1>0, <1>t, AtHas DEF StartBlind
    <3>2. StartBlind => mode = "blind"
      BY <3>1 DEF Inv, Blinded
    <3> QED BY <1>0, <3>2 DEF Current
  <2> QED BY <1>0, <2>1, <2>2 DEF Current
<1>2. UNCHANGED <<stage, recv, fid>>
  BY DEF Begin, StartBlind, tableVars
<1>3. CASE Begin
  <2>1. mode' = mode /\ mode \in {"auto", "allband", "blind"}
    BY <1>0, <1>3 DEF Begin, TypeOK
  <2>2. CASE mode = "auto"
    <3>1. Goes("trynit")
      BY <1>0, <1>3, <1>t, <2>2, CallRuns, RunsGoing
    <3> QED BY <1>1, <1>2, <1>t, <2>1, <2>2, <3>1, GoesOn
  <2>3. CASE mode = "blind"
    <3>1. Runs1("begin", "bs")
      BY <1>0, <1>3, <2>3, CallRuns
    <3>2. Goes("bs")
      BY <1>t, <3>1, RunsGoing
    <3> QED BY <1>t, <3>2, StillFits DEF Goes, Still
  <2>4. CASE mode = "allband"
    <3>1. Goes("ts")
      BY <1>0, <1>3, <1>t, <2>4, CallRuns, RunsGoing
    <3> QED BY <1>1, <1>2, <1>t, <2>1, <2>4, <3>1, GoesOn
  <2> QED BY <2>1, <2>2, <2>3, <2>4
<1>4. CASE StartBlind
  <2>1. CASE Runs0("bs")
    BY <2>1, RunsGoing, StillFits
  <2>2. CASE Runs1("bs", "bs")
    <3>1. Goes("bs")
      BY <1>t, <2>2, RunsGoing
    <3> QED BY <1>t, <3>1, StillFits DEF Goes, Still
  <2>3. CASE Runs1("bs", "ts") /\ mode' = "allband"
    <3>1. Goes("ts")
      BY <1>t, <2>3, RunsGoing
    <3> QED BY <1>1, <1>2, <1>t, <2>3, <3>1, GoesOn
  <2> QED BY <1>0, <1>4, <2>1, <2>2, <2>3, BranchRuns
<1> QED BY <1>3, <1>4

\* The passes, and the end of the thread.
LEMMA PassFits ==
    ASSUME Inv, Stepping, PassStep \/ BlindDone \/ Quit \/ Stop \/ StopBlind \/ Unlock
    PROVE  Fitting'
<1>0. Agenda /\ Current /\ started \in BOOLEAN
  BY InvParts DEF Inv
<1>1. CASE Complete
  <2>1. Only({"ts"})' /\ \A t \in Tables : Waits("free", t)'
    BY <1>0, <1>1, CompleteRuns
  <2>2. stage = "ts" /\ recv = {} /\ UNCHANGED <<stage, mode, recv>>
    BY <1>1 DEF Complete, Untouched, scanVars
  <2>3. mode' # "blind"
    BY <1>0, <2>2 DEF Current
  <2>4. /\ ~Has("next")' /\ ~Has("tune")' /\ ~Has("trynit")' /\ ~Has("leave")' /\ ~Has("status")'
    BY <2>1 DEF Only, Tracked
  <2> QED BY <2>1, <2>2, <2>3, <2>4 DEF Fitting
<1>2. CASE ~Complete
  BY <1>0, <1>2, PassStill, StillFits
<1> QED BY <1>1, <1>2

\* A filter is freed, or the lock is let go: what is pending stays so.
LEMMA FreesFit ==
    ASSUME Inv, Stepping, FreeStep \/ Window
    PROVE  Fitting'
<1>0. Agenda /\ Current /\ fid \in [Tables -> Fids \cup {NoFid}]
  BY InvParts DEF Inv, TypeOK
<1>t. Going \subseteq Tracked /\ "ts" \in Going /\ "leave" \in Going
  BY DEF Tracked, Going
<1>1. CASE FreeStep
  <2>1. /\ Runs("free", {}, Comes \cup {"ts"}) /\ Of \in Tables
        /\ \A t \in Tables \ {Of} : Waits("free", t) => Waits("free", t)'
    BY <1>0, <1>1, FreeRuns DEF FreeStep
  <2>2. \A x \in Comes \cup {"ts"} : x \in Going => x = "ts"
    BY DEF Comes, Going
  <2>3. \A x \in Going : Has(x)' => x = "ts" /\ Has("ts")
    BY <1>t, <2>1, <2>2 DEF Runs
  <2>4. /\ ~Has("next")' /\ ~Has("tune")' /\ ~Has("trynit")' /\ ~Has("leave")' /\ ~Has("status")'
        /\ Has("ts")' => Has("ts")
    BY <2>3 DEF Going
  <2>5. UNCHANGED <<mode, recv>>
    BY <1>1 DEF FreeStep, Free, NothingToFree, Untouched, scanVars, dataVars
  <2>6. \A t \in Tables : fid'[t] # NoFid => t # Of /\ fid'[t] = fid[t]
    BY <1>0, <1>1, <2>1 DEF FreeStep, Free, NothingToFree, dataVars, tableVars
  <2>7. ASSUME Has("ts")'
        PROVE  mode' # "blind" /\ recv' = {} /\ \A t \in Tables : fid'[t] # NoFid => Waits("free", t)'
    <3>1. Leaving /\ mode # "blind"
      BY <1>0, <2>4, <2>7 DEF Leaving, Current
    <3>2. recv = {} /\ \A t \in Tables : fid[t] # NoFid => Waits("free", t)
      BY <1>0, <3>1 DEF Current
    <3>3. ASSUME NEW t \in Tables, fid'[t] # NoFid
          PROVE  Waits("free", t)'
      BY <2>1, <2>6, <3>2, <3>3
    <3> QED BY <2>5, <3>1, <3>2, <3>3
  <2>8. Leaving' => Has("ts")'
    BY <2>4 DEF Leaving
  <2> QED BY <2>4, <2>7, <2>8 DEF Fitting
<1>2. CASE Window
  <2>1. Runs("window", {}, Comes \cup {"begin", "leave", "unsub"}) /\ NoFrees
    BY <1>0, <1>2, FreeRuns
  <2>2. \A x \in Comes \cup {"begin", "leave", "unsub"} : x \in Going => x = "leave"
    BY DEF Comes, Going
  <2>3. \A x \in Going : Has(x)' => x = "leave" /\ Has("leave")
    BY <1>t, <2>1, <2>2 DEF Runs
  <2>4. /\ ~Has("next")' /\ ~Has("tune")' /\ ~Has("trynit")' /\ ~Has("ts")' /\ ~Has("status")'
        /\ Has("leave")' => Has("leave")
    BY <2>3 DEF Going
  <2>5. UNCHANGED <<stage, recv, fid>>
    BY <1>2 DEF Window, scanVars, dataVars, tableVars
  <2>6. Has("leave") => stage = "ts" /\ recv = {} /\ \A t \in Tables : fid[t] = NoFid
    <3>1. Has("leave") => stage = "ts"
      BY <1>0 DEF Current
    <3>2. Has("leave") => Leaving
      BY <3>1 DEF Leaving
    <3> QED BY <2>1, <3>1, <3>2, NothingLeft
  <2>7. Leaving' => Has("leave")'
    BY <2>4 DEF Leaving
  <2> QED BY <2>4, <2>5, <2>6, <2>7 DEF Fitting
<1> QED BY <1>1, <1>2

LEMMA SameFits ==
    ASSUME Inv, Stepping, SameStep \/ Unsubscribe \/ Apart
    PROVE  Fitting'
<1>0. Agenda /\ Fitting
  BY InvParts, CurrentParts DEF Inv
<1>1. Same
  BY <1>0, SameRuns, ApartRuns DEF SameStep
<1>2. UNCHANGED <<stage, currTs, mode, recv>>
  <2>1. SameStep \/ Unsubscribe => UNCHANGED <<stage, currTs, mode, recv>>
    BY DEF SameStep, Resume, Free, Synced, Resumed, Joined, Unsubscribe, Untouched, dataVars, scanVars
  <2>2. Apart => UNCHANGED <<stage, currTs, mode, recv>>
    BY DEF Apart, OutsideStep, SectionRead, SectionIgnored, SectionUndecoded, SectionCollected, FendStatus,
        FendCallback, BlindReport, BlindCallback, BlindEnds, AppStart, AppPause, Destroy, DestroyQuit,
        DestroyReturn, Terminated, vars, dataVars, scanVars
  <2> QED BY <2>1, <2>2
<1>3. \A t \in Tables : fid'[t] = fid[t] \/ fid'[t] = NoFid
  <2>1. SameStep \/ Unsubscribe => fid' = fid \/ fid' = [fid EXCEPT ![Of] = NoFid]
    BY DEF SameStep, Resume, Free, Synced, Resumed, Joined, Unsubscribe, dataVars, tableVars
  <2>2. Apart => fid' = fid
    BY DEF Apart, OutsideStep, SectionRead, SectionIgnored, SectionUndecoded, SectionCollected, FendStatus,
        FendCallback, BlindReport, BlindCallback, BlindEnds, AppStart, AppPause, Destroy, DestroyQuit,
        DestroyReturn, Terminated, vars, dataVars, tableVars
  <2>3. fid \in [Tables -> Fids \cup {NoFid}]
    BY InvParts DEF TypeOK
  <2> QED BY <2>1, <2>2, <2>3
<1>4. Leaving' <=> Leaving
  BY <1>1, <1>2 DEF Leaving, Same
<1>5. Leaving' => recv' = {} /\ \A t \in Tables : fid'[t] # NoFid => Waits("free", t)'
  <2>1. Leaving => recv = {} /\ \A t \in Tables : fid[t] # NoFid => Waits("free", t)
    BY <1>0 DEF Fitting
  <2> QED BY <1>1, <1>2, <1>3, <1>4, <2>1 DEF Same
<1> QED BY <1>0, <1>1, <1>2, <1>5 DEF Same, Fitting

LEMMA CurrentKept ==
    ASSUME Inv, Stepping
    PROVE  Current'
<1>1. Fitting'
  BY QuietFits, MovesFit, AnswersFit, BeginsFit, PassFits, FreesFit, SameFits, StepKinds
     DEF HandlingStep, EndStep
<1> QED BY <1>1, CollectingKept, FinishedKept, CurrentParts

-----------------------------------------------------------------------------
(* The theorems.                                                             *)

LEMMA InvHolds == Init => Inv
<1> SUFFICES ASSUME Init
             PROVE  Inv
  OBVIOUS
<1>1. agenda = <<Do("wait")>> /\ Do("wait") \in ScanTasks /\ Do("wait")[1] = "wait" /\ spc = "run"
  BY TasksTyped DEF Init, Calls, Finals
<1>2. agenda \in Seq(ScanTasks) /\ agenda # << >> /\ Len(agenda) = 1
  BY <1>1
<1>3. Pending = {Do("wait")} /\ Rest = {}
  <2>1. \A x : Range(<<x>>) = {x}
    BY DEF Range
  <2>2. Tail(agenda) = << >>
    BY <1>1
  <2>3. Range(<< >>) = {}
    BY NoRange
  <2> QED BY <1>1, <2>1, <2>2, <2>3 DEF Pending, Rest
<1>4. Only({"wait"}) /\ NoTasks
  <2>1. Pending = {<<"wait", "none">>}
    BY <1>3 DEF Do
  <2> QED BY <2>1, OneTask
<1>5. TypeOK
  <2>1. ScanTypes
    <3>1. plan \in Plans /\ mode = plan.mode /\ cnt = plan.freqs /\ curr = NoList /\ pats = NoList /\ prog = NoList
      BY DEF Init
    <3>2. /\ plan.mode \in {"auto", "allband", "blind"} /\ plan.freqs \in 0 .. MaxFreqs /\ plan.progs \in Nat
      BY <3>1, PlansAssumption
    <3>3. cnt \in Nat /\ cnt \in 0 .. MaxFreqs /\ MaxFreqs \in Nat
      BY <3>1, <3>2, BoundsAssumption
    <3>4. cnt \in NoList .. MaxFreqs /\ pats \in NoList .. plan.progs /\ prog \in NoList .. plan.progs
      BY <3>1, <3>2, <3>3 DEF NoList
    <3> QED BY <3>1, <3>2, <3>4 DEF Init, ScanTypes
  <2>2. EventTypes
    BY DEF Init, EventTypes, ThreadStates
  <2>3. TableTypes
    BY DEF Init, TableTypes
  <2>4. SectionTypes
    BY DEF Init, SectionTypes, NoSection
  <2>5. FendTypes
    <3>1. plan.status \in Nat \ {0} /\ MaxFreqs \in Nat
      BY PlansAssumption, BoundsAssumption DEF Init
    <3>2. NoList \in NoList .. MaxFreqs /\ 0 \in 0 .. plan.status
      BY <3>1 DEF NoList
    <3> QED BY <3>2 DEF Init, FendTypes, NoStatus
  <2>6. RestTypes
    <3>1. 0 \in 0 .. LastBs + 1 /\ 0 \in 0 .. 1
      BY BoundsAssumption
    <3> QED BY <3>1 DEF Init, RestTypes
  <2> QED BY <1>2, <2>1, <2>2, <2>3, <2>4, <2>5, <2>6, TypeParts
<1>6. AgendaInv
  <2>1. Ordered
    BY <1>2 DEF Ordered
  <2>2. "wait" \in Finals /\ spc \notin Idling
    BY <1>1 DEF Finals, Idling
  <2> QED BY <1>1, <1>2, <1>3, <1>5, <2>1, <2>2 DEF AgendaInv
<1>7. ~Ending /\ ~Ended
  BY <1>1, <1>4 DEF Ending, Ended, Only, Tracked
<1>8. NotStarted
  <2>1. "wait" \in Finals
    BY DEF Finals
  <2> QED BY <1>1, <1>3, <2>1 DEF Init, NotStarted
<1>9. Sampled
  BY <1>3, <1>4 DEF Init, Sampled, Only, Tracked, NoTasks, Rest
<1>10. Filtered
  <2>1. {fid[t] : t \in Tables} \ {NoFid} = {}
    BY DEF Init
  <2> QED BY <1>7, <2>1 DEF Init, Filtered, NoSection
<1>11. Blinded
  BY <1>4, <1>7 DEF Init, Blinded, Only, Tracked
<1>12. Destroyed
  BY DEF Init, Destroyed
<1>13. Current
  <2>1. Fitting
    <3>1. Still
      BY <1>4 DEF Still, Only, Going, Tracked
    <3> QED BY <3>1 DEF Still, Going, Fitting, Leaving
  <2>2. Collecting
    BY <1>4 DEF Init, Collecting, NoTasks, Idle
  <2>3. Finished
    BY <1>1 DEF Finished
  <2> QED BY <2>1, <2>2, <2>3, CurrentParts
<1> QED BY <1>6, <1>8, <1>9, <1>10, <1>11, <1>12, <1>13 DEF Inv

LEMMA InvKept ==
    ASSUME Inv, Stepping
    PROVE  Inv'
<1>1. AgendaInv'
  BY AgendaKept DEF Inv, Stepping
<1> QED BY <1>1, NotStartedKept, SampledKept, FilteredKept, BlindedKept, DestroyedKept, CurrentKept DEF Inv

-----------------------------------------------------------------------------
\* What tells where the scan is: its list, its frequency, and the tuning of it.
LEMMA FrequencyUntouched ==
    ASSUME Stepping
    PROVE  /\ NextFreq \/ NitFound \/ Begin \/ curr' = curr
           /\ NextFreq \/ NitFound \/ BlindDone \/ cnt' = cnt
           /\ TryNit \/ StartTs \/ NextFreq \/ stage' = stage
           /\ LeaveTs \/ LockedForTs \/ currTs' = currTs
           /\ SectionCollected \/ nits' = nits
<1>1. ScannerStep => /\ NextFreq \/ NitFound \/ Begin \/ curr' = curr
                     /\ NextFreq \/ NitFound \/ BlindDone \/ cnt' = cnt
                     /\ TryNit \/ StartTs \/ NextFreq \/ stage' = stage
                     /\ LeaveTs \/ LockedForTs \/ currTs' = currTs
                     /\ nits' = nits
  BY DEF ScannerStep, Check, Recheck, Complete, Wait, Woken, TimedOut, Clear, Window, Resume,
        Free, NothingToFree, Synced, Request, FreeSlot, RequestPmts, RequestSlot, SkipSlot,
        PatDone, PatList, SdtDone, NitDoneInTs, NitMissing, NitFound, TryNit, StartTs, Resumed,
        LeaveTs, NextFreq, AllDone, Tune, FendEvent, NotLocked, LockedForNit, LockedForTs, Begin,
        StartBlind, BlindDone, NextBlind, Joined,
        Quit, StopBlind, Stop, Unlock, Untouched, dataVars, scanVars
<1>2. Unsubscribe \/ SectionRead \/ SectionIgnored \/ SectionUndecoded \/ FendStatus \/ FendCallback
      \/ BlindReport \/ BlindCallback \/ BlindEnds \/ AppStart \/ AppPause
      \/ Destroy \/ DestroyQuit \/ DestroyReturn \/ Terminated \/ UNCHANGED vars
      => UNCHANGED <<curr, cnt, stage, currTs, nits>>
  BY DEF Unsubscribe, SectionRead, SectionIgnored, SectionUndecoded, FendStatus, FendCallback,
        BlindReport, BlindCallback, BlindEnds, AppStart, AppPause, Destroy, DestroyQuit,
        DestroyReturn, Terminated, vars, dataVars, scanVars
<1>3. SectionCollected => UNCHANGED <<curr, cnt, stage, currTs>>
  BY DEF SectionCollected
<1> QED BY <1>1, <1>2, <1>3 DEF Stepping, Next, SectionHandled

LEMMA TuningUntouched ==
    ASSUME Agenda, Stepping
    PROVE  /\ Tune \/ tuned' = tuned
           /\ FendStatus \/ FendCallback \/ fevt' = fevt
           /\ FendCallback \/ Clear \/ feEvt' = feEvt
           /\ Tune \/ NotLocked \/ LockedForNit \/ LockedForTs \/ ("fend" \in recv' <=> "fend" \in recv)
           /\ Complete \/ NitMissing \/ NitFound \/ Tune \/ NotLocked \/ answered' = answered
           /\ mishaps \subseteq mishaps'
<1>1. ScannerStep => /\ Tune \/ tuned' = tuned
                     /\ fevt' = fevt
                     /\ Clear \/ feEvt' = feEvt
  BY DEF ScannerStep, Check, Recheck, Complete, Wait, Woken, TimedOut, Clear, Window, Resume,
        Free, NothingToFree, Synced, Request, FreeSlot, RequestPmts, RequestSlot, SkipSlot,
        PatDone, PatList, SdtDone, NitDoneInTs, NitMissing, NitFound, TryNit, StartTs, Resumed,
        LeaveTs, NextFreq, Tune, FendEvent, NotLocked, LockedForNit, LockedForTs, Begin,
        StartBlind, BlindDone, NextBlind, Joined,
        Quit, StopBlind, Stop, Unlock, Untouched, fendVars
<1>2. ScannerStep => Tune \/ NotLocked \/ LockedForNit \/ LockedForTs \/ ("fend" \in recv' <=> "fend" \in recv)
  <2>1. Request \/ RequestSlot => ("fend" \in recv' <=> "fend" \in recv)
    <3>1. \A t \in Tables : Flag(t) # "fend"
      BY FlagTyped
    <3>2. Request => Of \in Tables
      BY FreeRuns
    <3>3. RequestSlot => Slot \in Tables
      BY SlotOf DEF RequestSlot
    <3>4. \A t \in Tables : Allocated(t) => ("fend" \in recv' <=> "fend" \in recv)
      BY <3>1 DEF Allocated
    <3>5. Request => ("fend" \in recv' <=> "fend" \in recv)
      BY <3>2, <3>4 DEF Request, NotAllocated
    <3>6. RequestSlot => ("fend" \in recv' <=> "fend" \in recv)
      BY <3>3, <3>4 DEF RequestSlot, NotAllocated
    <3> QED BY <3>5, <3>6
  <2> QED BY <2>1 DEF ScannerStep, Check, Recheck, Complete, Wait, Woken, TimedOut, Clear, Window, Resume,
        Free, NothingToFree, Synced, FreeSlot, RequestPmts, SkipSlot,
        PatDone, PatList, SdtDone, NitDoneInTs, NitMissing, NitFound, TryNit, StartTs, Resumed,
        LeaveTs, NextFreq, FendEvent, Begin,
        StartBlind, BlindDone, NextBlind, Joined,
        Quit, StopBlind, Stop, Unlock, dataVars
<1>3. ScannerStep => /\ Complete \/ NitMissing \/ NitFound \/ Tune \/ NotLocked \/ answered' = answered
                     /\ mishaps \subseteq mishaps'
  BY DEF ScannerStep, Check, Recheck, Complete, Wait, Woken, TimedOut, Clear, Window, Resume,
        Free, NothingToFree, Synced, Request, FreeSlot, RequestPmts, RequestSlot, SkipSlot,
        PatDone, PatList, SdtDone, NitDoneInTs, NitMissing, NitFound, TryNit, StartTs, Resumed,
        LeaveTs, NextFreq, AllDone, Tune, FendEvent, NotLocked, LockedForNit, LockedForTs, Begin,
        StartBlind, BlindDone, NextBlind, Joined,
        Quit, StopBlind, Stop, Unlock, history
<1>4. SectionRead \/ SectionHandled \/ Unsubscribe
      \/ BlindReport \/ BlindCallback \/ BlindEnds \/ AppStart \/ AppPause
      \/ Destroy \/ DestroyQuit \/ DestroyReturn \/ Terminated \/ UNCHANGED vars
      => UNCHANGED <<tuned, fevt, feEvt, recv, answered>> /\ mishaps \subseteq mishaps'
  BY DEF Unsubscribe, SectionRead, SectionHandled, SectionIgnored, SectionUndecoded, SectionCollected,
        BlindReport, BlindCallback, BlindEnds, AppStart, AppPause, Destroy, DestroyQuit,
        DestroyReturn, Terminated, vars, dataVars, outerVars, fendVars, history
<1>5. FendStatus \/ FendCallback => UNCHANGED <<tuned, recv, answered>> /\ mishaps \subseteq mishaps'
  BY DEF FendStatus, FendCallback, dataVars, history
<1>6. FendStatus => UNCHANGED feEvt
  BY DEF FendStatus
<1> QED BY <1>1, <1>2, <1>3, <1>4, <1>5, <1>6 DEF Stepping, Next

-----------------------------------------------------------------------------
(* The calls that go on with the scan. *)

GoStep ==
    \/ LeaveTs \/ TryNit \/ StartTs \/ NextFreq \/ Tune \/ NitMissing \/ NitFound
    \/ FendEvent \/ NotLocked \/ Begin \/ StartBlind \/ Complete

LEMMA FreesGoing ==
    ASSUME Agenda, FreeStep \/ Window
    PROVE  \A x \in Going : Has(x)' => Has(x)
<1>t. Going \subseteq Tracked
  BY DEF Going, Tracked
<1>1. CASE FreeStep
  <2>1. Runs("free", {}, Comes \cup {"ts"})
    BY <1>1, FreeRuns DEF FreeStep
  <2> QED BY <1>t, <2>1 DEF Runs
<1>2. CASE Window
  <2>1. Runs("window", {}, Comes \cup {"begin", "leave", "unsub"})
    BY <1>2, FreeRuns
  <2> QED BY <1>t, <2>1 DEF Runs
<1> QED BY <1>1, <1>2

LEMMA GoingFewer ==
    ASSUME Inv, Stepping, ~GoStep
    PROVE  \A x \in Going : Has(x)' => Has(x)
<1>0. Agenda /\ started \in BOOLEAN
  BY InvParts
<1>1. HandlingStep => Still'
  BY <1>0, QuietStill DEF HandlingStep, GoStep
<1>2. PassStep \/ BlindDone \/ Quit \/ Stop \/ StopBlind \/ Unlock => Still'
  BY <1>0, PassStill DEF GoStep
<1>3. SameStep \/ Unsubscribe \/ Apart => Same
  BY <1>0, SameRuns, ApartRuns DEF SameStep
<1> QED BY <1>0, <1>1, <1>2, <1>3, FreesGoing, StepKinds DEF Still, Same, EndStep

LEMMA GoSteps ==
    ASSUME Inv, Stepping
    PROVE  /\ LeaveTs => Goes("next") /\ Has("leave")
           /\ TryNit => Goes("next") /\ Has("trynit")
           /\ StartTs => Goes("leave") /\ Has("ts")
           /\ NextFreq => Has("next") /\ IF curr + 1 >= cnt THEN Still' ELSE Goes("tune")
           /\ Tune => /\ Has("tune")
                      /\ \/ Still' /\ tuned' = curr /\ recv' = recv \cup {"fend"}
                         \/ Goes("next") /\ answered' /\ UNCHANGED <<recv, tuned>>
           /\ NitMissing => Goes("trynit")
           /\ NitFound => IF recv' = {} THEN Goes("ts") ELSE Still'
           /\ FendEvent => IF FendExpected THEN Goes("status") ELSE Still'
           /\ NotLocked => Has("status") /\ IF stage = "nit" THEN Goes("trynit")
                                            ELSE IF stage = "ts" THEN Goes("ts") ELSE Still'
           /\ Begin => ~started /\ (Still' \/ Goes("trynit") \/ Goes("ts"))
           /\ StartBlind => mode = "blind" /\ (Still' \/ Goes("ts"))
           /\ Complete => Goes("ts")
<1>0. Agenda /\ TypeOK
  BY InvParts
<1>t. /\ {"trynit", "ts", "next", "tune", "leave", "status", "begin", "bs"} \subseteq Tracked
      /\ {"trynit", "ts", "next", "tune", "leave", "status"} \subseteq Going
      /\ Going \subseteq Tracked /\ "bs" \notin Going
  BY DEF Tracked, Going
<1>1. /\ LeaveTs => Goes("next") /\ Has("leave")
      /\ TryNit => Goes("next") /\ Has("trynit")
      /\ StartTs => Goes("leave") /\ Has("ts")
  BY <1>0, <1>t, CallRuns, AskRuns, RunsGoing, AtHas DEF LeaveTs, TryNit, StartTs
<1>2. NextFreq => Has("next") /\ IF curr + 1 >= cnt THEN Still' ELSE Goes("tune")
  <2>1. NextFreq => Has("next")
    BY <1>0, <1>t, AtHas DEF NextFreq
  <2>2. NextFreq => IF curr + 1 >= cnt THEN Runs0("next") ELSE Runs1("next", "tune")
    BY <1>0, CallRuns
  <2> QED BY <1>t, <2>1, <2>2, RunsGoing
<1>3. Tune => /\ Has("tune")
              /\ \/ Still' /\ tuned' = curr /\ recv' = recv \cup {"fend"}
                 \/ Goes("next") /\ answered' /\ UNCHANGED <<recv, tuned>>
  <2>1. Tune => Has("tune")
    BY <1>0, <1>t, AtHas DEF Tune
  <2> QED BY <1>0, <1>t, <2>1, BranchRuns, RunsGoing
<1>4. NitMissing => Goes("trynit")
  BY <1>0, <1>t, CallRuns, RunsGoing
<1>5. NitFound => IF recv' = {} THEN Goes("ts") ELSE Still'
  BY <1>0, <1>t, CallRuns, RunsGoing
<1>6. FendEvent => IF FendExpected THEN Goes("status") ELSE Still'
  BY <1>0, <1>t, CallRuns, RunsGoing
<1>7. NotLocked => Has("status") /\ IF stage = "nit" THEN Goes("trynit")
                                    ELSE IF stage = "ts" THEN Goes("ts") ELSE Still'
  <2>1. NotLocked => Has("status")
    BY <1>0, <1>t, AtHas DEF NotLocked
  <2> QED BY <1>0, <1>t, <2>1, CallRuns, RunsGoing
<1>8. Goes("bs") => Still'
  BY <1>t DEF Goes, Still
<1>9. Begin => ~started /\ (Still' \/ Goes("trynit") \/ Goes("ts"))
  <2>1. Begin => Has("begin")
    BY <1>0, <1>t, AtHas DEF Begin
  <2>2. Begin => ~started
    BY <2>1 DEF Inv, Sampled
  <2>3. Begin => Runs1("begin", "trynit") \/ Runs1("begin", "bs") \/ Runs1("begin", "ts")
    BY <1>0, CallRuns
  <2> QED BY <1>t, <1>8, <2>2, <2>3, RunsGoing
<1>10. StartBlind => mode = "blind" /\ (Still' \/ Goes("ts"))
  <2>1. StartBlind => Has("bs")
    BY <1>0, <1>t, AtHas DEF StartBlind
  <2>2. StartBlind => mode = "blind"
    BY <2>1 DEF Inv, Blinded
  <2>3. StartBlind => Runs0("bs") \/ Runs1("bs", "bs") \/ Runs1("bs", "ts")
    BY <1>0, BranchRuns
  <2> QED BY <1>t, <1>8, <2>2, <2>3, RunsGoing
<1>11. Complete => Goes("ts")
  <2>1. Complete => Only({"ts"})'
    BY <1>0, CompleteRuns
  <2> QED BY <1>t, <2>1 DEF Only, Goes
<1> QED BY <1>1, <1>2, <1>3, <1>4, <1>5, <1>6, <1>7, <1>9, <1>10, <1>11

LEMMA OrderlyParts ==
    ASSUME Inv, Orderly, Stepping, Regular'
    PROVE  /\ Regular /\ Heard /\ NitSought /\ Asked /\ Overdue /\ Listed /\ Answered
           /\ Agenda /\ TypeOK /\ Current
<1>1. Agenda /\ TypeOK /\ Current
  BY InvParts DEF Inv
<1>2. Regular
  BY <1>1, TuningUntouched DEF Regular
<1> QED BY <1>1, <1>2 DEF Orderly

-----------------------------------------------------------------------------
(* The frontend's answers. *)

LEMMA HeardQuiet ==
    ASSUME Inv, Orderly, Stepping, Regular',
           ~GoStep, ~LockedForNit, ~LockedForTs
    PROVE  Heard'
<1>0. /\ Heard /\ Agenda /\ TypeOK /\ Current
      /\ \A x \in Going : Has(x)' => Has(x)
  BY OrderlyParts, GoingFewer
<1>1. UNCHANGED <<tuned, curr, currTs>> /\ ("fend" \in recv' <=> "fend" \in recv)
  BY <1>0, FrequencyUntouched, TuningUntouched DEF GoStep
<1>2. /\ Has("trynit")' => Has("trynit")
      /\ Has("ts")' => Has("ts")
      /\ Has("leave")' => Has("leave")
      /\ Has("next")' => Has("next")
      /\ Has("tune")' => Has("tune")
      /\ Has("status")' => Has("status")
  BY <1>0 DEF Going
<1>3. CASE UNCHANGED <<fevt, feEvt>>
  BY <1>0, <1>1, <1>2, <1>3 DEF Heard
<1>4. CASE FendStatus
  <2>1. fevt' = tuned /\ feEvt' = feEvt
    BY <1>4 DEF FendStatus
  <2> QED BY <1>0, <1>1, <1>2, <2>1 DEF Heard
<1>5. CASE FendCallback
  <2>1. feEvt'.freq = fevt /\ fevt' = NoList /\ fevt # NoList
    BY <1>5 DEF FendCallback
  <2>2. Has("status") => fevt = curr
    BY <1>0, <2>1 DEF Heard, Current
  <2> QED BY <1>0, <1>1, <1>2, <2>1, <2>2 DEF Heard
<1>6. CASE Clear
  <2>1. fevt' = fevt /\ (feEvt' = feEvt \/ feEvt'.freq = NoList)
    BY <1>6 DEF Clear, NoStatus
  <2>2. Still'
    BY <1>0, <1>6, PassStill DEF PassStep, Clear, Complete, At, TypeOK
  <2>3. curr \in Int /\ (curr >= 0 => curr # NoList)
    BY <1>0 DEF NoList, TypeOK
  <2>4. ~Has("status")'
    BY <2>2 DEF Still, Going
  <2> QED BY <1>0, <1>1, <1>2, <2>1, <2>3, <2>4 DEF Heard
<1> QED BY <1>0, <1>3, <1>4, <1>5, <1>6, TuningUntouched

LEMMA HeardLocked ==
    ASSUME Inv, Orderly, Stepping, Regular', LockedForNit \/ LockedForTs
    PROVE  Heard'
<1>0. Heard /\ Agenda /\ TypeOK /\ Current
  BY OrderlyParts
<1>1. Has("status")
  <2>1. "status" \in Tracked
    BY DEF Tracked
  <2> QED BY <1>0, <2>1, AtHas DEF LockedForNit, LockedForTs
<1>2. "fend" \in recv /\ feEvt.freq = curr /\ tuned = curr /\ fevt \in {NoList, curr} /\ curr >= 0
  BY <1>0, <1>1 DEF Heard, Current
<1>3. Still'
  BY <1>0, QuietStill
<1>4. recv' = recv \ {"fend"} /\ UNCHANGED <<tuned, curr, fevt, feEvt>>
  BY DEF LockedForNit, LockedForTs, Untouched, fendVars, scanVars
<1>5. ~Has("status")'
  BY <1>3 DEF Still, Going
<1> QED BY <1>2, <1>4, <1>5 DEF Heard

\* What is left of it for a step that goes on, while no answer is waited for.
LEMMA HeardGoes ==
    ASSUME Heard, UNCHANGED <<tuned, fevt, feEvt>>, "fend" \notin recv, "fend" \notin recv', ~Has("status")',
           currTs' => currTs /\ curr' = curr, Has("tune")' => curr' >= 0
    PROVE  Heard'
BY DEF Heard

LEMMA HeardMoves ==
    ASSUME Inv, Orderly, Stepping, Regular', LeaveTs \/ TryNit \/ StartTs \/ NextFreq \/ Tune \/ Complete
    PROVE  Heard'
<1>0. Heard /\ Agenda /\ TypeOK /\ Current
  BY OrderlyParts
<1>1. "fend" \notin recv
  <2>1. Complete => "fend" \notin recv
    BY DEF Complete
  <2> QED BY <1>0, <2>1, GoSteps DEF Heard
<1>2. UNCHANGED <<fevt, feEvt>>
  BY <1>0, TuningUntouched DEF LeaveTs, TryNit, StartTs, NextFreq, Tune, Complete, fendVars, Untouched
<1>3. Still' \/ \E x \in {"next", "leave", "tune", "ts"} : Goes(x)
  BY GoSteps
<1>4. ~Has("status")'
  BY <1>3 DEF Still, Goes, Going
<1>5. CASE LeaveTs \/ TryNit \/ StartTs \/ Complete
  <2>1. UNCHANGED <<tuned, curr, recv>> /\ (currTs' => currTs)
    <3>1. UNCHANGED <<tuned, recv>>
      BY <1>5 DEF LeaveTs, TryNit, StartTs, Complete, fendVars, Untouched
    <3>2. UNCHANGED curr /\ (currTs' => currTs)
      <4>1. LeaveTs => UNCHANGED curr /\ ~currTs'
        BY DEF LeaveTs
      <4>2. TryNit \/ StartTs \/ Complete => UNCHANGED <<curr, currTs>>
        BY DEF TryNit, StartTs, Complete, scanVars
      <4> QED BY <1>5, <4>1, <4>2
    <3> QED BY <3>1, <3>2
  <2>2. ~Has("tune")'
    BY <1>5, GoSteps DEF Goes, Going
  <2> QED BY <1>0, <1>1, <1>2, <1>4, <2>1, <2>2, HeardGoes
<1>6. CASE NextFreq
  <2>1. UNCHANGED <<tuned, recv, currTs>> /\ ~currTs
    BY <1>0, <1>6, GoSteps DEF NextFreq, AllDone, fendVars, Current
  <2>2. Has("tune")' => curr' >= 0
    <3>1. CASE curr + 1 >= cnt
      BY <1>6, <3>1, GoSteps DEF Still, Going
    <3>2. CASE ~(curr + 1 >= cnt)
      BY <1>0, <1>6, <3>2 DEF NextFreq, TypeOK, NoList
    <3> QED BY <3>1, <3>2
  <2> QED BY <1>0, <1>1, <1>2, <1>4, <2>1, <2>2, HeardGoes
<1>7. CASE Tune
  <2>1. UNCHANGED <<curr, currTs>> /\ ~currTs
    BY <1>0, <1>7, GoSteps DEF Tune, scanVars, Current
  <2>2. CASE Goes("next") /\ UNCHANGED <<recv, tuned>>
    <3>1. ~Has("tune")'
      BY <2>2 DEF Goes, Going
    <3> QED BY <1>0, <1>1, <1>2, <1>4, <2>1, <2>2, <3>1, HeardGoes
  <2>3. CASE Still' /\ tuned' = curr /\ recv' = recv \cup {"fend"}
    <3>1. /\ ~Has("trynit")' /\ ~Has("ts")' /\ ~Has("leave")' /\ ~Has("next")' /\ ~Has("tune")'
          /\ ~Has("status")'
      BY <2>3 DEF Still, Going
    <3>2. fevt \in {NoList, tuned} /\ feEvt.freq \in {NoList, tuned}
      BY <1>0, <1>1 DEF Heard
    <3>3. curr >= 0 /\ curr # NoList
      BY <1>0, <1>7, GoSteps DEF Heard, NoList
    <3> QED BY <1>2, <2>1, <2>3, <3>1, <3>2, <3>3 DEF Heard
  <2> QED BY <1>7, <2>2, <2>3, GoSteps
<1> QED BY <1>5, <1>6, <1>7

LEMMA HeardAnswers ==
    ASSUME Inv, Orderly, Stepping, Regular', NitMissing \/ NitFound \/ FendEvent \/ NotLocked
    PROVE  Heard'
<1>0. Heard /\ NitSought /\ Answered /\ Agenda /\ TypeOK /\ Current
  BY OrderlyParts
<1>1. UNCHANGED <<fevt, feEvt, tuned>>
  BY DEF NitMissing, NitFound, FendEvent, NotLocked, fendVars, Untouched
<1>2. UNCHANGED currTs
  BY DEF NitMissing, NitFound, FendEvent, NotLocked, dataVars, scanVars
<1>3. CASE NitMissing
  <2>1. UNCHANGED <<recv, curr>>
    BY <1>3 DEF NitMissing, dataVars, scanVars
  <2>2. "fend" \notin recv
    <3>1. "fend" \in recv => "again" \in mishaps'
      BY <1>3 DEF NitMissing, Mishap
    <3> QED BY <3>1 DEF Regular
  <2>3. ~Has("status")' /\ ~Has("tune")'
    BY <1>3, GoSteps DEF Goes, Going
  <2> QED BY <1>0, <1>1, <1>2, <2>1, <2>2, <2>3, HeardGoes
<1>4. CASE NitFound
  <2>1. Of = "nit" /\ stage # "ts" /\ nits /\ recv' = recv \ {"nit"} /\ Waits("done", "nit") /\ "nit" \in Tables
    BY <1>0, <1>4, AtHas DEF NitFound, Freed
  <2>2. "fend" \notin recv
    <3>1. stage # "start" /\ stage \in {"start", "nit", "ts", "done"}
      BY <1>0, <2>1 DEF Current, TypeOK
    <3>2. stage = "nit" => "fend" \notin recv
      BY <1>0, <2>1 DEF NitSought, Seeking
    <3>3. ASSUME stage = "done"
          PROVE  "fend" \notin recv
      <4>1. curr = -1
        BY <1>0, <3>3 DEF NitSought, NoList
      <4> QED BY <1>0, <4>1 DEF Heard
    <3> QED BY <2>1, <3>1, <3>2, <3>3
  <2>3. ~currTs
    BY <1>0, <2>1 DEF Current
  <2>4. ~Has("status")' /\ ~Has("tune")'
    BY <1>4, GoSteps DEF Goes, Going, Still
  <2> QED BY <1>0, <1>1, <1>2, <2>1, <2>2, <2>3, <2>4, HeardGoes
<1>5. CASE FendEvent
  <2>1. UNCHANGED <<recv, curr>>
    BY <1>5 DEF FendEvent, dataVars, scanVars
  <2>2. CASE FendExpected
    <3>1. Goes("status") /\ feEvt.freq = curr
      BY <1>5, <2>2, GoSteps DEF FendExpected
    <3>2. /\ ~Has("trynit")' /\ ~Has("ts")' /\ ~Has("leave")' /\ ~Has("next")' /\ ~Has("tune")'
      BY <3>1 DEF Goes, Going
    <3> QED BY <1>0, <1>1, <1>2, <2>1, <3>1, <3>2 DEF Heard
  <2>3. CASE ~FendExpected
    <3>1. Still'
      BY <1>5, <2>3, GoSteps
    <3>2. /\ ~Has("trynit")' /\ ~Has("ts")' /\ ~Has("leave")' /\ ~Has("next")' /\ ~Has("tune")'
          /\ ~Has("status")'
      BY <3>1 DEF Still, Going
    <3> QED BY <1>0, <1>1, <1>2, <2>1, <3>2 DEF Heard
  <2> QED BY <2>2, <2>3
<1>6. CASE NotLocked
  <2>1. Has("status") /\ "fend" \in recv
    BY <1>0, <1>6, GoSteps DEF Current
  <2>2. UNCHANGED curr /\ recv' = recv \ {"fend"}
    BY <1>6 DEF NotLocked, scanVars
  <2>3. fevt \in {NoList, tuned} /\ feEvt.freq \in {NoList, tuned}
    BY <1>0, <2>1 DEF Heard
  <2>4. ~Has("status")' /\ ~Has("tune")'
    BY <1>6, GoSteps DEF Goes, Going, Still
  <2> QED BY <1>0, <1>1, <1>2, <2>2, <2>3, <2>4 DEF Heard
<1> QED BY <1>3, <1>4, <1>5, <1>6

LEMMA HeardBegins ==
    ASSUME Inv, Orderly, Stepping, Regular', Begin \/ StartBlind
    PROVE  Heard'
<1>0. Heard /\ Agenda /\ TypeOK /\ Current
  BY OrderlyParts
<1>1. stage = "start"
  <2>1. Begin => stage = "start"
    BY GoSteps DEF Inv, NotStarted
  <2> QED BY <1>0, <2>1, GoSteps DEF Current
<1>2. recv = {} /\ ~currTs
  BY <1>0, <1>1 DEF Current
<1>3. UNCHANGED <<fevt, feEvt, tuned, recv, currTs>>
  <2>1. Begin => UNCHANGED <<fevt, feEvt, tuned, recv, currTs>>
    BY DEF Begin
  <2>2. StartBlind => UNCHANGED <<fevt, feEvt, tuned, recv, currTs>>
    BY DEF StartBlind, fendVars
  <2> QED BY <2>1, <2>2
<1>4. ~Has("status")' /\ ~Has("tune")'
  BY GoSteps DEF Goes, Going, Still
<1> QED BY <1>0, <1>2, <1>3, <1>4, HeardGoes

LEMMA HeardKept ==
    ASSUME Inv, Orderly, Stepping, Regular'
    PROVE  Heard'
BY HeardQuiet, HeardLocked, HeardMoves, HeardAnswers, HeardBegins DEF GoStep

-----------------------------------------------------------------------------
(* What the thread has yet to do stays, until it is done. *)

Comers == {"fend", "done", "wait", "patlist"}
Stacks ==
    /\ agenda # << >> /\ Rest \subseteq Pending'
    /\ \A x \in Pending' : x[1] \in Comers => x \in Rest \/ (x = Do("patlist") /\ PatDone /\ currTs)
Plainly(N) == \A x \in N : x[1] \notin Comers

LEMMA PopsStacks ==
    ASSUME NEW op, NEW N, Pops(op, N), Plainly(N) \/ (PatDone /\ currTs /\ Plainly(N \ {Do("patlist")}))
    PROVE  Stacks
BY DEF Pops, Heads, Stacks, Plainly

LEMMA PlainTasks ==
    /\ Plainly({})
    /\ \A x, y, s, t : x \notin Comers /\ y \notin Comers => Plainly({For(x, s)}) /\ Plainly({For(x, s), For(y, t)})
    /\ \A x, y : x \notin Comers /\ y \notin Comers => Plainly({Do(x)}) /\ Plainly({Do(x), Do(y)})
    /\ \A i : Plainly(Slotted(i)) /\ Plainly({<<"slot", 1>>})
<1>1. \A x, s : For(x, s)[1] = x /\ Do(x)[1] = x
  BY DEF For, Do
<1>2. \A i : <<"slot", i>>[1] = "slot" /\ "slot" \notin Comers
  BY DEF Comers
<1> QED BY <1>1, <1>2 DEF Plainly, Slotted

LEMMA StackStep ==
    ASSUME Inv, Stepping, ~PassStep, ~Quit, ~Unlock
    PROVE  Same \/ Stacks
<1>0. Agenda /\ started \in BOOLEAN
  BY InvParts
<1>c. /\ "next" \notin Comers /\ "trynit" \notin Comers /\ "request" \notin Comers /\ "free" \notin Comers
      /\ "bs" \notin Comers /\ "nextbs" \notin Comers /\ "free all" \notin Comers /\ "ts" \notin Comers
      /\ "status" \notin Comers /\ "tune" \notin Comers /\ "window" \notin Comers /\ "leave" \notin Comers
      /\ "pmts" \notin Comers
  BY DEF Comers
<1>1. Recheck \/ Window \/ NothingToFree \/ PatList \/ NitDoneInTs \/ NextBlind \/ BlindDone \/ LeaveTs
      \/ TryNit \/ NitMissing \/ LockedForNit \/ Stop \/ StopBlind => Stacks
  <2>1. \A op : Pops(op, {}) => Stacks
    BY PopsStacks, PlainTasks
  <2>2. \A op : \A x \in {"bs", "nextbs", "next", "trynit", "free all"} : Pops(op, {Do(x)}) => Stacks
    BY <1>c, PopsStacks, PlainTasks
  <2>3. \A op : Pops(op, {For("request", "nit")}) => Stacks
    BY <1>c, PopsStacks, PlainTasks
  <2> QED BY <1>0, <2>1, <2>2, <2>3, SimplePops
<1>2. Request \/ FreeSlot \/ RequestPmts \/ SkipSlot \/ RequestSlot => Stacks
  <2>1. Request => Stacks
    <3>1. Plainly(IF fid[Of] # NoFid THEN {For("free", Of), For("request", Of)} ELSE {})
      BY <1>c, PlainTasks
    <3> QED BY <1>0, <3>1, RequestPops, PopsStacks
  <2>2. FreeSlot => Stacks
    <3>1. Plainly(IF Arrived THEN {For("free", Of)} ELSE {})
      BY <1>c, PlainTasks
    <3> QED BY <1>0, <3>1, FreeSlotPops, PopsStacks
  <2>3. RequestPmts => Stacks
    <3>1. Plainly(IF currTs /\ pats # NoList THEN {<<"slot", 1>>} ELSE {})
      BY PlainTasks
    <3> QED BY <1>0, <3>1, SlotPops, PopsStacks
  <2>4. SkipSlot \/ RequestSlot => Stacks
    <3>1. Plainly(Slotted(Of + 1)) /\ Plainly({})
      BY PlainTasks
    <3> QED BY <1>0, <3>1, SlotPops, PopsStacks
  <2> QED BY <2>1, <2>2, <2>3, <2>4
<1>3. ((PatDone \/ SdtDone) /\ currTs) \/ NitFound => Stacks
  <2>1. PatDone /\ currTs => Stacks
    <3>1. Plainly({Do("patlist"), Do("pmts")} \ {Do("patlist")})
      BY <1>c, PlainTasks DEF Plainly
    <3> QED BY <1>0, <3>1, DonePops, PopsStacks
  <2>2. SdtDone /\ currTs => Stacks
    BY <1>0, DonePops, PopsStacks, PlainTasks
  <2>3. NitFound => Stacks
    <3>1. Plainly(IF recv' = {} THEN {Do("ts")} ELSE {})
      BY <1>c, PlainTasks
    <3> QED BY <1>0, <3>1, DonePops, PopsStacks
  <2> QED BY <2>1, <2>2, <2>3
<1>4. StartTs \/ NextFreq \/ Tune \/ FendEvent \/ NotLocked => Stacks
  <2>1. StartTs => Stacks
    <3>1. Plainly(IF curr >= 0 THEN {Do("window"), Do("leave")} ELSE {Do("leave")})
      BY <1>c, PlainTasks
    <3> QED BY <1>0, <3>1, StartTsPops, PopsStacks
  <2>2. NextFreq => Stacks
    <3>1. Plainly(IF curr + 1 >= cnt THEN {} ELSE {Do("tune")})
      BY <1>c, PlainTasks
    <3> QED BY <1>0, <3>1, TunePops, PopsStacks
  <2>3. Tune => Stacks
    <3>1. Plainly({Do("next")}) /\ Plainly({})
      BY <1>c, PlainTasks
    <3> QED BY <1>0, <3>1, TunePops, PopsStacks
  <2>4. FendEvent => Stacks
    <3>1. Plainly(IF FendExpected THEN {Do("status")} ELSE {})
      BY <1>c, PlainTasks
    <3> QED BY <1>0, <3>1, TunePops, PopsStacks
  <2>5. NotLocked => Stacks
    <3>1. Plainly(IF stage = "nit" THEN {Do("trynit")} ELSE IF stage = "ts" THEN {Do("ts")} ELSE {})
      BY <1>c, PlainTasks
    <3> QED BY <1>0, <3>1, TunePops, PopsStacks
  <2> QED BY <2>1, <2>2, <2>3, <2>4, <2>5
<1>5. LockedForTs \/ Begin \/ StartBlind => Stacks
  <2>1. LockedForTs => Stacks
    <3>1. Plainly({For("request", "pat"), For("request", "sdt")}
                  \cup IF plan.source = "terrestrial" THEN {For("request", "nit")} ELSE {})
      BY <1>c, PlainTasks DEF Plainly
    <3> QED BY <1>0, <3>1, LockedPops, PopsStacks
  <2>2. Begin => Stacks
    <3>1. Plainly(Begins)
      BY <1>c, PlainTasks DEF Begins
    <3> QED BY <1>0, <3>1, BeginPops, PopsStacks
  <2>3. StartBlind => Stacks
    <3>1. Plainly({Do("bs")}) /\ Plainly({Do("ts")}) /\ Plainly({})
      BY <1>c, PlainTasks
    <3> QED BY <1>0, <3>1, BeginPops, PopsStacks
  <2> QED BY <2>1, <2>2, <2>3
<1>6. FreeStep => Stacks
  <2>1. Free /\ At("free") => Stacks
    BY <1>0, OtherPops, PopsStacks, PlainTasks
  <2> QED BY <1>1, <2>1 DEF FreeStep
<1>7. SameStep \/ Unsubscribe \/ Apart => Same
  BY <1>0, SameRuns, ApartRuns DEF SameStep
<1> QED BY <1>1, <1>2, <1>3, <1>4, <1>5, <1>6, <1>7, StepKinds DEF HandlingStep, EndStep

-----------------------------------------------------------------------------
(* What happens to the PAT, the SDT and the NIT. *)

Single == {"pat", "sdt", "nit"}

LEMMA SingleTables ==
    ASSUME NEW t \in Single
    PROVE  /\ t \in Tables /\ t \notin SlotSet /\ Flag(t) = t
           /\ \A u \in Tables : Flag(u) = t => u = t
<1>1. t \in Tables /\ t \notin SlotSet /\ t # "pmt"
  BY SlotsAssumption DEF Single, Tables
<1> QED BY <1>1 DEF Flag

\* A section is of a table that has a filter.
LEMMA SectionOf ==
    ASSUME Inv, section # NoSection, NEW t \in Handled
    PROVE  t \in Tables /\ fid[t] # NoFid
<1>1. t \in Tables /\ fid[t] = section.fid /\ section.fid \in Fids
  BY DEF Handled, Inv, Filtered
<1>2. NoFid \notin Fids
  BY TablesFinite DEF Fids, NoFid
<1> QED BY <1>1, <1>2

LEMMA SectionCollects ==
    ASSUME Inv, SectionCollected
    PROVE  \E t \in Tables :
              /\ fid[t] # NoFid /\ got[t] # "all" /\ got'[t] \in {"some", "all"}
              /\ \A u \in Tables \ {t} : got'[u] = got[u]
              /\ IF got'[t] = "all" THEN evt' = evt \cup {Flag(t)} ELSE evt' = evt
              /\ nits' = (nits \/ (t = "nit" /\ stage # "ts"))
              /\ pats' = pats \/ (t = "pat" /\ pats = NoList /\ pats' \in 0 .. plan.progs)
<1>0. got \in [Tables -> {"none", "some", "all"}]
  BY InvParts DEF TypeOK
<1>1. PICK t \in Handled :
        /\ got[t] # "all"
        /\ \E last \in BOOLEAN :
            /\ got' = [got EXCEPT ![t] = IF last THEN "all" ELSE "some"]
            /\ IF last THEN Raise(Flag(t)) ELSE UNCHANGED evt
        /\ IF t = "pat" /\ pats = NoList THEN pats' \in 0 .. plan.progs ELSE UNCHANGED pats
        /\ nits' = (nits \/ (t = "nit" /\ stage # "ts"))
  BY DEF SectionCollected
<1>2. t \in Tables /\ fid[t] # NoFid
  BY SectionOf DEF SectionCollected
<1>3. PICK last \in BOOLEAN :
            /\ got' = [got EXCEPT ![t] = IF last THEN "all" ELSE "some"]
            /\ IF last THEN Raise(Flag(t)) ELSE UNCHANGED evt
  BY <1>1
<1>4. got'[t] = (IF last THEN "all" ELSE "some") /\ \A u \in Tables \ {t} : got'[u] = got[u]
  BY <1>0, <1>2, <1>3
<1>5. IF got'[t] = "all" THEN evt' = evt \cup {Flag(t)} ELSE evt' = evt
  BY <1>3, <1>4 DEF Raise
<1> QED BY <1>1, <1>2, <1>4, <1>5

LEMMA FidMoves ==
    ASSUME Inv, Stepping, NEW t \in Tables
    PROVE  \/ fid'[t] = fid[t]
           \/ fid'[t] = NoFid
           \/ Request /\ Of = t /\ fid[t] = NoFid
           \/ RequestSlot /\ Slot = t /\ fid[t] = NoFid
<1>0. Agenda /\ fid \in [Tables -> Fids \cup {NoFid}]
  BY InvParts DEF TypeOK
<1>1. Free => fid'[t] = fid[t] \/ fid'[t] = NoFid
  BY <1>0 DEF Free
<1>2. Stop \/ SectionRead \/ SectionHandled => UNCHANGED fid
  BY DEF Stop, SectionRead, SectionHandled, SectionIgnored, SectionUndecoded, SectionCollected, dataVars, tableVars
<1>3. Request => fid'[t] = fid[t] \/ (Of = t /\ fid[t] = NoFid)
  <2>1. Request => UNCHANGED fid \/ (fid[Of] = NoFid /\ Allocated(Of))
    BY DEF Request, NotAllocated
  <2> QED BY <1>0, <2>1 DEF Allocated
<1>4. RequestSlot => fid'[t] = fid[t] \/ (Slot = t /\ fid[t] = NoFid)
  <2>1. RequestSlot => UNCHANGED fid \/ (fid[Slot] = NoFid /\ Allocated(Slot))
    BY DEF RequestSlot, NotAllocated
  <2> QED BY <1>0, <2>1 DEF Allocated
<1> QED BY <1>1, <1>2, <1>3, <1>4, FiltersUntouched DEF FilterStep

LEMMA ExpiredMoves ==
    ASSUME Inv, Stepping, NEW t \in Tables, t \in expired
    PROVE  t \in expired' \/ Complete \/ (Request /\ Of = t) \/ (RequestSlot /\ Slot = t)
<1>1. ScannerStep => t \in expired' \/ Complete \/ Request \/ RequestSlot
  BY DEF ScannerStep, Check, Recheck, Complete, Wait, Woken, TimedOut, Clear, BeginPass, Window, Resume,
        Free, NothingToFree, Synced, FreeSlot, RequestPmts, SkipSlot,
        PatDone, PatList, SdtDone, NitDoneInTs, NitMissing, NitFound, TryNit, StartTs, Resumed,
        LeaveTs, NextFreq, Tune, FendEvent, NotLocked, LockedForNit, LockedForTs, Begin,
        StartBlind, BlindDone, NextBlind, Joined,
        Quit, StopBlind, Stop, Unlock, dataVars, tableVars
<1>2. Request => t \in expired' \/ Of = t
  BY DEF Request, Allocated, NotAllocated
<1>3. RequestSlot => t \in expired' \/ Slot = t
  BY DEF RequestSlot, Allocated, NotAllocated
<1>4. Unsubscribe \/ SectionRead \/ SectionHandled \/ FendStatus \/ FendCallback
      \/ BlindReport \/ BlindCallback \/ BlindEnds \/ AppStart \/ AppPause
      \/ Destroy \/ DestroyQuit \/ DestroyReturn \/ Terminated \/ UNCHANGED vars
      => UNCHANGED expired
  BY DEF Unsubscribe, SectionRead, SectionHandled, SectionIgnored, SectionUndecoded, SectionCollected, FendStatus,
        FendCallback, BlindReport, BlindCallback, BlindEnds, AppStart, AppPause, Destroy, DestroyQuit,
        DestroyReturn, Terminated, vars, dataVars, tableVars
<1> QED BY <1>1, <1>2, <1>3, <1>4 DEF Stepping, Next

LEMMA GotMoves ==
    ASSUME Inv, Stepping, NEW t \in Tables
    PROVE  \/ got'[t] = got[t]
           \/ SectionCollected /\ got[t] # "all"
           \/ LeaveTs \/ LockedForTs
           \/ (Request /\ Of = t) \/ (RequestSlot /\ Slot = t)
<1>0. Agenda /\ got \in [Tables -> {"none", "some", "all"}]
  BY InvParts DEF TypeOK
<1>1. ScannerStep => UNCHANGED got \/ LeaveTs \/ LockedForTs \/ Request \/ RequestSlot
  BY DEF ScannerStep, Check, Recheck, Complete, Wait, Woken, TimedOut, Clear, BeginPass, Window, Resume,
        Free, NothingToFree, Synced, FreeSlot, RequestPmts, SkipSlot,
        PatDone, PatList, SdtDone, NitDoneInTs, NitMissing, NitFound, TryNit, StartTs, Resumed,
        NextFreq, Tune, FendEvent, NotLocked, LockedForNit, Begin,
        StartBlind, BlindDone, NextBlind, Joined,
        Quit, StopBlind, Stop, Unlock, dataVars, tableVars
<1>2. Request => got'[t] = got[t] \/ Of = t
  BY <1>0 DEF Request
<1>3. RequestSlot => got'[t] = got[t] \/ Slot = t
  BY <1>0 DEF RequestSlot
<1>4. Unsubscribe \/ SectionRead \/ SectionIgnored \/ SectionUndecoded \/ FendStatus \/ FendCallback
      \/ BlindReport \/ BlindCallback \/ BlindEnds \/ AppStart \/ AppPause
      \/ Destroy \/ DestroyQuit \/ DestroyReturn \/ Terminated \/ UNCHANGED vars
      => UNCHANGED got
  BY DEF Unsubscribe, SectionRead, SectionIgnored, SectionUndecoded, FendStatus,
        FendCallback, BlindReport, BlindCallback, BlindEnds, AppStart, AppPause, Destroy, DestroyQuit,
        DestroyReturn, Terminated, vars, dataVars, tableVars
<1>5. SectionCollected => got'[t] = got[t] \/ got[t] # "all"
  BY SectionCollects
<1> QED BY <1>1, <1>2, <1>3, <1>4, <1>5 DEF Stepping, Next, SectionHandled

LEMMA Decoded ==
    ASSUME Agenda, Stepping, Regular'
    PROVE  ~SectionUndecoded /\ (Request => fid[Of] # NoFid \/ Allocated(Of))
           /\ (RequestSlot => NextProg = NoList \/ Allocated(Slot))
BY DEF Regular, SectionUndecoded, Request, RequestSlot

\* An event of a table is raised when it is complete.
LEMMA EvtMoves ==
    ASSUME Inv, Stepping, Regular', NEW t \in Single, t \in evt'
    PROVE  \/ t \in evt
           \/ /\ SectionCollected /\ got[t] # "all" /\ got'[t] = "all" /\ fid[t] # NoFid
              /\ t = "nit" /\ stage # "ts" => nits'
<1>0. Agenda
  BY InvParts
<1>1. PassBegins => evt' \subseteq evt
  BY DEF PassBegins, Wait, Woken, TimedOut, Clear, dataVars
<1>2. FendCallback \/ BlindCallback \/ AppStart \/ DestroyQuit => t \in evt
  BY DEF FendCallback, BlindCallback, AppStart, DestroyQuit, Raise, Single
<1>3. SectionIgnored => evt' = evt
  BY DEF SectionIgnored, dataVars
<1>4. CASE SectionCollected /\ t \notin evt
  <2>1. PICK u \in Tables :
              /\ fid[u] # NoFid /\ got[u] # "all" /\ got'[u] \in {"some", "all"}
              /\ IF got'[u] = "all" THEN evt' = evt \cup {Flag(u)} ELSE evt' = evt
              /\ nits' = (nits \/ (u = "nit" /\ stage # "ts"))
    BY <1>4, SectionCollects
  <2>2. Flag(u) = t /\ got'[u] = "all"
    BY <1>4, <2>1
  <2>3. u = t
    BY <2>2, SingleTables
  <2> QED BY <1>4, <2>1, <2>2, <2>3
<1> QED BY <1>0, <1>1, <1>2, <1>3, <1>4, Decoded, EventsKept DEF SectionHandled

\* A table is handled for its event, or because its time is up.
LEMMA DoneExpired ==
    ASSUME Agenda, Check, NEW t \in Single, Waits("done", t)'
    PROVE  t \in expired
<1>1. Late(Of) # {} /\ ~ReadsNull(Of)
  <2>1. Late(Of) = {} \/ ReadsNull(Of) => Pending' \subseteq {Do("complete")}
    BY CheckPops
  <2>2. Do("complete") # For("done", t)
    BY DoTracked
  <2> QED BY <2>1, <2>2 DEF Waits
<1> DEFINE j == First(Late(Of))
<1>2. j \in Late(Of) /\ Order[j] \in Tables /\ Pending' = LateTasks(j)
  BY <1>1, CheckPops
<1>3. Order[j] \in expired
  BY <1>2 DEF Late
<1> HIDE DEF j
<1>4. For("done", t) \in DoneTasks(Order[j])
  <2>1. For("done", t) # For("recheck", Order[j]) /\ For("done", t) # <<"check", j + 1>>
    BY DEF For
  <2> QED BY <1>2, <2>1 DEF LateTasks, Waits
<1>5. t = Order[j]
  <2>1. \A u : For("done", t) # For("pmtfree", u)
    BY DEF For
  <2>2. For("done", t) # Do("pmts")
    BY DoTracked
  <2>3. \A u : For("done", t) = For("done", u) => t = u
    BY DoTracked
  <2> QED BY <1>4, <2>1, <2>2, <2>3 DEF DoneTasks
<1> QED BY <1>3, <1>5

LEMMA DoneMoves ==
    ASSUME Inv, Stepping, NEW t \in Single, Waits("done", t)'
    PROVE  \/ Waits("done", t)
           \/ PassBegins /\ t \in evt' /\ t \in evt
           \/ Check /\ t \in expired
<1>0. Agenda /\ started \in BOOLEAN /\ t \in Tables
  BY InvParts, SingleTables
<1>1. HandlingStep \/ FreeStep \/ Window \/ BlindDone \/ SameStep \/ EndStep \/ Apart => Waits("done", t)
  BY <1>0, HandlingFewer, OtherFewer DEF DoneFewer
<1>2. PassBegins => t \in evt' /\ t \in evt
  <2>1. PassBegins => t \in sampled'
    BY <1>0, PassSampled DEF NoTasks, HandlesNext
  <2>2. PassBegins => evt' \subseteq evt
    BY DEF PassBegins, Wait, Woken, TimedOut, Clear, dataVars
  <2> QED BY <2>1, <2>2, PassSampled
<1>3. ~Complete /\ ~((PatDone \/ SdtDone) /\ ~currTs)
  BY <1>0, CompleteRuns, PassRuns DEF NoTasks
<1>4. Check => t \in expired
  BY <1>0, DoneExpired
<1> QED BY <1>1, <1>2, <1>3, <1>4, StepKinds DEF PassStep, PassBegins

\* A table that is asked for again was asked for before, or is now that a frequency is locked.
LEMMA RequestMoves ==
    ASSUME Inv, Stepping, NEW t \in Tables, Waits("request", t)'
    PROVE  Waits("request", t) \/ LockedForTs \/ (LockedForNit /\ t = "nit")
<1>0. Agenda /\ started \in BOOLEAN
  BY InvParts
<1>1. Fewer \/ Same => Waits("request", t)
  BY DEF Fewer, Same
<1>2. ~NoTasks'
  BY DEF NoTasks
<1>3. \A op, x : (Runs0(op) \/ Runs1(op, x)) => Waits("request", t)
  BY <1>1 DEF Runs0, Runs1
<1>4. HandlingStep => Waits("request", t) \/ LockedForTs \/ (LockedForNit /\ t = "nit")
  <2>1. Recheck \/ PatList \/ NitDoneInTs \/ NextBlind \/ LeaveTs \/ TryNit \/ NitMissing
        \/ NitFound \/ NextFreq \/ FendEvent \/ NotLocked \/ Begin \/ (SdtDone /\ currTs) => Waits("request", t)
    BY <1>0, <1>3, CallRuns
  <2>2. Tune \/ StartBlind \/ StartTs \/ (PatDone /\ currTs) => Waits("request", t)
    BY <1>0, <1>3, BranchRuns, AskRuns
  <2>3. SkipSlot \/ RequestSlot \/ FreeSlot \/ Request => Waits("request", t)
    BY <1>0, <1>1, AskRuns, FreeRuns
  <2>4. RequestPmts => Waits("request", t)
    BY <1>0, AskRuns DEF Asking
  <2>5. LockedForNit => Waits("request", t) \/ t = "nit"
    BY <1>0, AskRuns DEF Asking
  <2> QED BY <2>1, <2>2, <2>3, <2>4, <2>5 DEF HandlingStep
<1>5. PassStep => FALSE
  <2>1. \A e : ~HandlesNext(e)
    BY DEF HandlesNext
  <2>2. ~PassBegins
    BY <1>2, <2>1, PassSampled
  <2>3. ~Check /\ ~Complete
    BY <1>0, CheckRuns, CompleteRuns
  <2> QED BY <1>0, <1>2, <2>2, <2>3, PassRuns DEF PassStep, PassBegins
<1>6. FreeStep \/ Window \/ BlindDone \/ Stop \/ StopBlind => Waits("request", t)
  BY <1>0, <1>1, FreeRuns DEF FreeStep
<1>7. SameStep \/ Unsubscribe \/ Apart => Waits("request", t)
  BY <1>0, <1>1, SameRuns, ApartRuns DEF SameStep
<1>8. ~Quit /\ ~Unlock
  BY <1>0, <1>2, QuitRuns, PassRuns
<1> QED BY <1>4, <1>5, <1>6, <1>7, <1>8, StepKinds DEF EndStep

\* The steps that bring a call that goes on with the scan.
LEMMA GoingMoves ==
    ASSUME Inv, Stepping
    PROVE  /\ Has("next")' => Has("next") \/ LeaveTs \/ TryNit \/ (Tune /\ Has("tune") /\ answered')
           /\ Has("tune")' => Has("tune") \/ (NextFreq /\ Has("next") /\ curr + 1 < cnt)
           /\ Has("trynit")' => Has("trynit") \/ NitMissing \/ (NotLocked /\ stage = "nit") \/ Begin
           /\ Has("ts")' => Has("ts") \/ NitFound \/ (NotLocked /\ stage = "ts") \/ Begin \/ StartBlind \/ Complete
           /\ Has("leave")' => Has("leave") \/ StartTs
           /\ Has("status")' => Has("status") \/ (FendEvent /\ FendExpected)
<1>t. Going = {"next", "tune", "trynit", "leave", "status", "ts"}
  BY DEF Going
<1>0. cnt \in Int /\ curr \in Int
  BY InvParts DEF TypeOK, NoList
<1>1. CASE ~GoStep
  BY <1>1, <1>t, GoingFewer
<1>s. Still' => ~Has("next")' /\ ~Has("tune")' /\ ~Has("trynit")' /\ ~Has("leave")' /\ ~Has("status")' /\ ~Has("ts")'
  BY <1>t DEF Still
<1>g. \A x \in Going : Goes(x) =>
         /\ (Has("next")' <=> x = "next") /\ (Has("tune")' <=> x = "tune") /\ (Has("trynit")' <=> x = "trynit")
         /\ (Has("leave")' <=> x = "leave") /\ (Has("status")' <=> x = "status") /\ (Has("ts")' <=> x = "ts")
  BY <1>t DEF Goes
<1>2. CASE LeaveTs \/ TryNit \/ StartTs \/ NitMissing \/ NitFound
  BY <1>2, <1>t, <1>s, <1>g, GoSteps
<1>3. CASE NextFreq
  <2>1. Has("next") /\ IF curr + 1 >= cnt THEN Still' ELSE Goes("tune")
    BY <1>3, GoSteps
  <2>2. ~(curr + 1 >= cnt) => curr + 1 < cnt
    BY <1>0
  <2> QED BY <1>3, <1>t, <1>s, <1>g, <2>1, <2>2
<1>4. CASE Tune
  BY <1>4, <1>t, <1>s, <1>g, GoSteps
<1>5. CASE FendEvent \/ NotLocked
  BY <1>5, <1>t, <1>s, <1>g, GoSteps
<1>6. CASE Begin \/ StartBlind \/ Complete
  BY <1>6, <1>t, <1>s, <1>g, GoSteps
<1> QED BY <1>1, <1>2, <1>3, <1>4, <1>5, <1>6 DEF GoStep

LEMMA NitsMove ==
    ASSUME Inv, Stepping
    PROVE  /\ nits => nits'
           /\ nits' => nits \/ (fid["nit"] # NoFid /\ stage # "ts")
<1>1. nits \in BOOLEAN
  BY InvParts DEF TypeOK
<1> QED BY <1>1, FrequencyUntouched, SectionCollects

LEMMA StageMoves ==
    ASSUME Inv, Stepping
    PROVE  \/ stage' = stage
           \/ TryNit /\ Has("trynit") /\ stage \in {"start", "nit", "done"} /\ stage' = "nit"
           \/ StartTs /\ Has("ts") /\ stage' = "ts"
           \/ NextFreq /\ Has("next") /\ stage' = "done" /\ Still' /\ (Regular' => curr' = NoList /\ cnt' = NoList)
<1>0. stage \in {"start", "nit", "ts", "done"} /\ Current
  BY InvParts DEF TypeOK, Inv
<1>1. TryNit => Has("trynit") /\ stage \in {"start", "nit", "done"} /\ stage' = "nit"
  BY <1>0, GoSteps DEF TryNit, Current
<1>2. StartTs => Has("ts") /\ stage' = "ts"
  BY GoSteps DEF StartTs
<1>3. NextFreq => Has("next") /\ (stage' = stage \/ (stage' = "done" /\ Still' /\ (Regular' => curr' = NoList /\ cnt' = NoList)))
  BY GoSteps DEF NextFreq, AllDone, Regular, Mishap
<1> QED BY <1>1, <1>2, <1>3, FrequencyUntouched

LEMMA ListMoves ==
    ASSUME Inv, Stepping
    PROVE  /\ cnt' = cnt \/ cnt' = NoList \/ (NitFound /\ nits /\ stage # "ts") \/ (BlindDone /\ stage = "start")
           /\ curr' = curr \/ curr' = NoList \/ (NextFreq /\ Has("next") /\ curr' = curr + 1 /\ (Regular' => stage' = stage))
           /\ NitFound => Waits("done", "nit") /\ curr' = NoList
<1>0. Agenda /\ Blinded /\ Current
  BY InvParts DEF Inv
<1>1. NextFreq => /\ cnt' = cnt \/ cnt' = NoList
                  /\ curr' = NoList \/ (Has("next") /\ curr' = curr + 1 /\ (Regular' => stage' = stage))
  BY GoSteps DEF NextFreq, AllDone, Regular, Mishap
<1>2. NitFound => nits /\ stage # "ts" /\ curr' = NoList /\ Waits("done", "nit")
  <2>1. NitFound => nits /\ stage # "ts" /\ curr' = NoList /\ At("done") /\ Of = "nit"
    BY DEF NitFound, Freed
  <2> QED BY <1>0, <2>1, AtHas
<1>3. Begin => curr' = NoList
  BY DEF Begin
<1>4. BlindDone => stage = "start"
  <2>1. BlindDone => Has("blind")
    BY <1>0, AtHas DEF BlindDone, Tracked
  <2>2. Has("blind") => mode = "blind"
    BY <1>0 DEF Blinded
  <2> QED BY <1>0, <2>1, <2>2 DEF Current
<1> QED BY <1>1, <1>2, <1>3, <1>4, FrequencyUntouched

-----------------------------------------------------------------------------
(* The NIT. *)

LEMMA StartKept ==
    ASSUME Inv, Orderly, Stepping, Regular', stage' = "start"
    PROVE  curr' = NoList /\ ~nits'
<1>0. NitSought /\ Current /\ "nit" \in Tables
  BY OrderlyParts, SingleTables DEF Single
<1>1. stage = "start"
  BY StageMoves
<1>2. curr = NoList /\ ~nits /\ ~Has("next") /\ fid["nit"] = NoFid
  BY <1>0, <1>1 DEF NitSought, Current
<1> QED BY <1>2, ListMoves, NitsMove

LEMMA OverKept ==
    ASSUME Inv, Orderly, Stepping, Regular', stage' = "done"
    PROVE  curr' = NoList /\ ~Has("next")' /\ ~Has("tune")' /\ (cnt' > 0 => nits')
<1>0. NitSought /\ Current /\ cnt \in Int
  BY OrderlyParts DEF TypeOK, NoList
<1>1. CASE curr' = NoList /\ cnt' = NoList /\ Still'
  BY <1>1 DEF Still, Going, NoList
<1>2. CASE stage = "done"
  <2>1. curr = NoList /\ ~Has("next") /\ ~Has("tune") /\ (cnt > 0 => nits)
    BY <1>0, <1>2 DEF NitSought
  <2>2. ~LeaveTs /\ ~TryNit
    <3>1. LeaveTs => stage = "ts"
      BY <1>0, GoSteps DEF Current
    <3>2. TryNit => stage' = "nit"
      BY DEF TryNit
    <3> QED BY <1>2, <3>1, <3>2
  <2>3. ~Has("next")' /\ ~Has("tune")'
    BY <2>1, <2>2, GoingMoves
  <2>4. curr' = NoList
    BY <2>1, ListMoves
  <2>5. cnt' > 0 => nits'
    BY <1>0, <1>2, <2>1, ListMoves, NitsMove DEF NoList
  <2> QED BY <2>3, <2>4, <2>5
<1> QED BY <1>1, <1>2, StageMoves

LEMMA NitHeard ==
    ASSUME Inv, Orderly, Stepping, Regular', stage' \in {"start", "nit"}, cnt' > 0
    PROVE  /\ "nit" \in evt' => nits'
           /\ Waits("done", "nit")' => nits' \/ "nit" \in expired'
<1>0. NitSought /\ Current /\ Agenda /\ cnt \in Int
  BY OrderlyParts DEF TypeOK, NoList
<1>t. "nit" \in Single /\ "nit" \in Tables /\ "nit" \notin SlotSet
  BY SingleTables DEF Single
<1>1. CASE nits
  BY <1>1, NitsMove
<1>2. CASE ~nits
  <2>1. cnt > 0 \/ stage = "start"
    BY <1>0, <1>2, ListMoves DEF NoList
  <2>2. stage \in {"start", "nit"}
    <3>1. stage = "done" => ~(cnt > 0)
      BY <1>0, <1>2 DEF NitSought
    <3> QED BY <2>1, <3>1, StageMoves
  <2>3. "nit" \notin evt
    BY <1>0, <1>2, <2>1, <2>2 DEF NitSought, Current
  <2>4. Waits("done", "nit") => "nit" \in expired
    BY <1>0, <1>t, <1>2, <2>1, <2>2 DEF NitSought, Current
  <2>5. "nit" \in evt' => nits'
    BY <1>t, <2>2, <2>3, EvtMoves
  <2>6. ASSUME Waits("done", "nit")'
        PROVE  "nit" \in expired'
    <3>1. "nit" \in expired
      BY <1>t, <2>3, <2>4, <2>6, DoneMoves
    <3>2. ~Complete /\ ~(RequestSlot /\ Slot = "nit")
      <4>1. ~(RequestSlot /\ Slot = "nit")
        BY <1>0, <1>t, SlotOf DEF RequestSlot
      <4> QED BY <2>2, <4>1 DEF Complete
    <3>3. ~(Request /\ Of = "nit")
      <4> SUFFICES ASSUME Request
                   PROVE  FALSE
        OBVIOUS
      <4>1. At("request") /\ ~PassBegins /\ ~Check
        BY DEF Request, PassBegins, Wait, Woken, TimedOut, Clear, Check, At
      <4>2. Waits("done", "nit")
        BY <1>t, <2>6, <4>1, DoneMoves
      <4>3. For("done", "nit") \in Rest /\ agenda # << >>
        <5>1. agenda # << >> /\ Pending = {<<"request", Of>>} \cup Rest
          BY <1>0, <4>1, HeadTask DEF Heads
        <5>2. For("done", "nit") # <<"request", Of>>
          BY DEF For
        <5> QED BY <4>2, <5>1, <5>2 DEF Waits
      <4>4. "nit" \in evt
        BY <1>t, <4>3 DEF Inv, Sampled, Rest
      <4> QED BY <2>3, <4>4
    <3> QED BY <1>t, <3>1, <3>2, <3>3, ExpiredMoves
  <2> QED BY <2>5, <2>6
<1> QED BY <1>1, <1>2

LEMMA SeekingMoves ==
    ASSUME Inv, Orderly, Stepping, Regular', Seeking'
    PROVE  Seeking \/ NitMissing \/ Begin
<1>0. Current
  BY OrderlyParts
<1>1. stage' = "nit" => stage = "nit" \/ Has("trynit")
  BY StageMoves
<1>2. CASE Has("trynit")'
  <2>1. NotLocked => "fend" \in recv
    BY <1>0, GoSteps DEF Current
  <2> QED BY <1>2, <2>1, GoingMoves DEF Seeking
<1>3. CASE stage' = "nit" /\ "fend" \in recv'
  <2>1. "fend" \in recv \/ Has("tune")
    <3>1. LockedForNit \/ LockedForTs \/ NotLocked => "fend" \notin recv'
      BY DEF LockedForNit, LockedForTs, NotLocked
    <3> QED BY <1>3, <3>1, OrderlyParts, TuningUntouched, GoSteps
  <2> QED BY <1>1, <1>3, <2>1 DEF Seeking
<1>4. CASE stage' = "nit" /\ Has("next")'
  <2>1. LeaveTs => stage = "ts" /\ ~Has("trynit")
    BY <1>0, GoSteps DEF Current
  <2>2. TryNit => Has("trynit")
    BY GoSteps
  <2> QED BY <1>1, <1>4, <2>1, <2>2, GoingMoves DEF Seeking
<1>5. CASE stage' = "nit" /\ Has("tune")'
  BY <1>1, <1>5, GoingMoves DEF Seeking
<1> QED BY <1>2, <1>3, <1>4, <1>5 DEF Seeking

LEMMA SeekingKept ==
    ASSUME Inv, Orderly, Stepping, Regular', Seeking'
    PROVE  fid'["nit"] = NoFid /\ ~nits' /\ ~Waits("request", "nit")'
<1>0. NitSought /\ Current /\ Agenda
  BY OrderlyParts
<1>t. "nit" \in Tables /\ "nit" \notin SlotSet
  BY SingleTables DEF Single
<1>1. fid["nit"] = NoFid /\ ~nits /\ ~Waits("request", "nit")
  <2>1. CASE Seeking
    BY <1>0, <2>1 DEF NitSought
  <2>2. CASE NitMissing
    <3>1. At("done") /\ fid["nit"] = NoFid /\ ~nits
      BY <2>2 DEF NitMissing, Freed
    <3>2. "done" \in Handling
      BY DEF Handling
    <3> QED BY <1>0, <3>1, <3>2, HandlingHead
  <2>3. CASE Begin
    <3>1. stage = "start"
      BY <2>3, GoSteps DEF Inv, NotStarted
    <3> QED BY <1>0, <1>t, <3>1 DEF NitSought, Current
  <2> QED BY <2>1, <2>2, <2>3, SeekingMoves
<1>2. ~LockedForNit /\ ~LockedForTs
  <2>1. LockedForNit \/ LockedForTs => Still' /\ "fend" \notin recv'
    <3>1. LockedForNit \/ LockedForTs => "fend" \notin recv'
      BY DEF LockedForNit, LockedForTs
    <3> QED BY <1>0, <3>1, QuietStill
  <2> QED BY <2>1 DEF Seeking, Still, Going
<1>3. ~Waits("request", "nit")'
  BY <1>t, <1>1, <1>2, RequestMoves
<1>4. fid'["nit"] = NoFid
  <2>1. Request /\ Of = "nit" => Waits("request", "nit")
    BY <1>0, AtHas DEF Request
  <2>2. ~(RequestSlot /\ Slot = "nit")
    BY <1>0, <1>t, SlotOf DEF RequestSlot
  <2> QED BY <1>t, <1>1, <2>1, <2>2, FidMoves
<1> QED BY <1>1, <1>3, <1>4, NitsMove

LEMMA NitSoughtKept ==
    ASSUME Inv, Orderly, Stepping, Regular'
    PROVE  NitSought'
<1>1. (stage = "start" => curr = NoList /\ ~nits)'
  BY StartKept
<1>2. (stage = "done" => curr = NoList /\ ~Has("next") /\ ~Has("tune") /\ (cnt > 0 => nits))'
  BY OverKept
<1>3. (stage \in {"start", "nit"} /\ cnt > 0 =>
          /\ "nit" \in evt => nits
          /\ Waits("done", "nit") => nits \/ "nit" \in expired)'
  BY NitHeard
<1>4. (Seeking => fid["nit"] = NoFid /\ ~nits /\ ~Waits("request", "nit"))'
  BY SeekingKept
<1> QED BY <1>1, <1>2, <1>3, <1>4 DEF NitSought

\* A table is waited for until it is handled, or there is no PMT left to ask for.
LEMMA RecvMoves ==
    ASSUME Agenda, Stepping, NEW f \in {"pat", "sdt", "pmt"}, f \in recv
    PROVE  \/ f \in recv'
           \/ PatDone /\ f = "pat"
           \/ SdtDone /\ f = "sdt"
           \/ RequestSlot /\ f = "pmt" /\ NextProg = NoList /\ Receiving = {}
<1>1. ScannerStep => f \in recv' \/ PatDone \/ SdtDone \/ Request \/ RequestSlot
  BY DEF ScannerStep, Check, Recheck, Complete, Wait, Woken, TimedOut, Clear, Window, Resume,
        Free, NothingToFree, Synced, FreeSlot, RequestPmts, SkipSlot,
        PatList, NitDoneInTs, NitMissing, NitFound, TryNit, StartTs, Resumed,
        LeaveTs, NextFreq, Tune, FendEvent, NotLocked, LockedForNit, LockedForTs, Begin,
        StartBlind, BlindDone, NextBlind, Joined,
        Quit, StopBlind, Stop, Unlock, dataVars
<1>2. PatDone => f \in recv' \/ f = "pat"
  BY DEF PatDone
<1>3. SdtDone => f \in recv' \/ f = "sdt"
  BY DEF SdtDone
<1>4. Request => f \in recv'
  BY DEF Request, Allocated, NotAllocated
<1>5. RequestSlot => f \in recv' \/ (f = "pmt" /\ NextProg = NoList /\ Receiving = {})
  BY DEF RequestSlot, Allocated, NotAllocated
<1>6. Unsubscribe \/ SectionRead \/ SectionHandled \/ FendStatus \/ FendCallback
      \/ BlindReport \/ BlindCallback \/ BlindEnds \/ AppStart \/ AppPause
      \/ Destroy \/ DestroyQuit \/ DestroyReturn \/ Terminated \/ UNCHANGED vars
      => UNCHANGED recv
  BY DEF Unsubscribe, SectionRead, SectionHandled, SectionIgnored, SectionUndecoded, SectionCollected, FendStatus,
        FendCallback, BlindReport, BlindCallback, BlindEnds, AppStart, AppPause, Destroy, DestroyQuit,
        DestroyReturn, Terminated, vars, dataVars
<1> QED BY <1>1, <1>2, <1>3, <1>4, <1>5, <1>6 DEF Stepping, Next

LEMMA ProgsUntouched ==
    ASSUME Inv, Stepping
    PROVE  /\ PatList \/ RequestSlot \/ curPat' = curPat
           /\ RequestSlot \/ prog' = prog
           /\ LeaveTs \/ LockedForTs \/ pats' = pats \/ (SectionCollected /\ pats' # NoList)
<1>1. ScannerStep => /\ PatList \/ RequestSlot \/ curPat' = curPat
                     /\ RequestSlot \/ prog' = prog
                     /\ LeaveTs \/ LockedForTs \/ pats' = pats
  BY DEF ScannerStep, Check, Recheck, Complete, Wait, Woken, TimedOut, Clear, Window, Resume,
        Free, NothingToFree, Synced, Request, FreeSlot, RequestPmts, RequestSlot, SkipSlot,
        PatDone, PatList, SdtDone, NitDoneInTs, NitMissing, NitFound, TryNit, StartTs, Resumed,
        LeaveTs, NextFreq, Tune, FendEvent, NotLocked, LockedForNit, LockedForTs, Begin,
        StartBlind, BlindDone, NextBlind, Joined,
        Quit, StopBlind, Stop, Unlock, dataVars, progVars
<1>2. Unsubscribe \/ SectionRead \/ SectionIgnored \/ SectionUndecoded \/ FendStatus \/ FendCallback
      \/ BlindReport \/ BlindCallback \/ BlindEnds \/ AppStart \/ AppPause
      \/ Destroy \/ DestroyQuit \/ DestroyReturn \/ Terminated \/ UNCHANGED vars
      => UNCHANGED <<curPat, prog, pats>>
  BY DEF Unsubscribe, SectionRead, SectionIgnored, SectionUndecoded, FendStatus, FendCallback,
        BlindReport, BlindCallback, BlindEnds, AppStart, AppPause, Destroy, DestroyQuit,
        DestroyReturn, Terminated, vars, dataVars, progVars
<1>3. SectionCollected => UNCHANGED <<curPat, prog>> /\ (pats' = pats \/ pats' # NoList)
  <2>1. SectionCollected => UNCHANGED <<curPat, prog>>
    BY DEF SectionCollected
  <2>2. SectionCollected => pats' = pats \/ pats' \in 0 .. plan.progs
    BY SectionCollects
  <2>3. NoList \notin 0 .. plan.progs
    BY DEF NoList
  <2> QED BY <2>1, <2>2, <2>3
<1> QED BY <1>1, <1>2, <1>3 DEF Stepping, Next, SectionHandled

-----------------------------------------------------------------------------
(* A frequency that is left. *)

Leaves == {"ts", "leave", "next", "tune"}

\* Nothing else is done with a call that leaves a frequency on the agenda.
LEMMA LeavesFirst ==
    ASSUME Inv, Stepping, NEW x \in Leaves, Has(x)
    PROVE  \/ FreeStep /\ x = "ts" /\ Has(x)'
           \/ Window /\ x = "leave" /\ Has(x)'
           \/ SameStep \/ Unsubscribe \/ Apart
           \/ StartTs /\ x = "ts"
           \/ LeaveTs /\ x = "leave"
           \/ NextFreq /\ x = "next"
           \/ Tune /\ x = "tune"
<1>0. Agenda /\ started \in BOOLEAN
  BY InvParts
<1>t. x \in Tracked /\ x \notin Comes /\ x \in {"ts", "leave", "next", "tune"}
  BY DEF Leaves, Tracked, Comes
<1>r. \A op, S : Runs(op, S, Comes) => x = op
  BY <1>t DEF Runs
<1>o. \A T : Only(T) => x \in T
  BY <1>t DEF Only
<1>1. HandlingStep => \/ StartTs /\ x = "ts"
                      \/ LeaveTs /\ x = "leave"
                      \/ NextFreq /\ x = "next"
                      \/ Tune /\ x = "tune"
  <2>1. \A op, y : (Runs0(op) \/ Runs1(op, y)) => x = op
    BY <1>r DEF Runs0, Runs1
  <2>2. ~Recheck /\ ~PatList /\ ~NitDoneInTs /\ ~NextBlind /\ ~TryNit /\ ~NitMissing
        /\ ~NitFound /\ ~FendEvent /\ ~NotLocked /\ ~Begin /\ ~(SdtDone /\ currTs)
    BY <1>0, <1>t, <2>1, CallRuns
  <2>3. (LeaveTs => x = "leave") /\ (NextFreq => x = "next")
    BY <1>0, <1>t, <2>1, CallRuns
  <2>4. (Tune => x = "tune") /\ (StartTs => x = "ts") /\ ~StartBlind /\ ~(PatDone /\ currTs)
    BY <1>0, <1>t, <2>1, BranchRuns, AskRuns
  <2>5. ~LockedForNit /\ ~LockedForTs /\ ~RequestPmts /\ ~SkipSlot /\ ~RequestSlot /\ ~FreeSlot /\ ~Request
    BY <1>0, <1>t, <1>r, AskRuns, FreeRuns
  <2> QED BY <2>2, <2>3, <2>4, <2>5 DEF HandlingStep
<1>2. ~PassStep
  <2>1. ~Check /\ ~Complete
    BY <1>0, <1>t, <1>o, CheckRuns, CompleteRuns
  <2>2. ~Wait /\ ~Woken /\ ~TimedOut /\ ~Clear
    BY <1>0, <1>t, <1>o, PassRuns
  <2>3. ~(PatDone \/ SdtDone)
    <3>1. PatDone \/ SdtDone => At("done")
      BY DEF PatDone, SdtDone, Freed
    <3>2. At("done") => Heads("done")
      BY <1>0, HeadTask
    <3>3. Heads("done") => Do(x) = <<"done", Of>> \/ Do(x)[1] \in Events
      BY BehindOf DEF Heads, Has
    <3>4. Do(x)[1] = x /\ x \notin Events /\ x # "done"
      BY <1>t DEF Do, Events, Later
    <3>5. Do(x) # <<"done", Of>>
      BY <3>4
    <3> QED BY <3>1, <3>2, <3>3, <3>4, <3>5
  <2> QED BY <2>1, <2>2, <2>3 DEF PassStep
<1>3. FreeStep => x = "ts" /\ Has(x)'
  <2>1. FreeStep => Runs("free", {}, Comes \cup {"ts"})
    BY <1>0, FreeRuns DEF FreeStep
  <2> QED BY <1>t, <2>1 DEF Runs
<1>4. Window => x = "leave" /\ Has(x)'
  <2>1. Window => Runs("window", {}, Comes \cup {"begin", "leave", "unsub"})
    BY <1>0, FreeRuns
  <2> QED BY <1>t, <2>1 DEF Runs
<1>5. ~BlindDone /\ ~Quit /\ ~Stop /\ ~StopBlind /\ ~Unlock
  <2>1. ~Quit /\ ~Unlock
    BY <1>0, <1>t, <1>o, QuitRuns, PassRuns
  <2>2. \A op, S, C : Runs(op, S, C) => x = op \/ x \in C
    BY <1>t DEF Runs
  <2>3. BlindDone => Runs("blind", {"nextbs"}, {"quit", "clear"})
    BY <1>0, FreeRuns
  <2>4. StopBlind => Runs("stop", {"free all"}, {"unsub"})
    BY <1>0, FreeRuns
  <2>5. Stop => Runs("stop", {}, {"unsub"}) \/ Runs("free all", {}, {"unsub"})
    BY <1>0, FreeRuns
  <2> QED BY <1>t, <2>1, <2>2, <2>3, <2>4, <2>5
<1> QED BY <1>1, <1>2, <1>3, <1>4, <1>5, StepKinds DEF EndStep

LEMMA HasLeaves ==
    ASSUME NEW x \in Leaves, Has(x), x = "ts" \/ stage = "ts"
    PROVE  Leaving
BY DEF Leaves, Leaving

\* A frequency is being left until it is left: then the next one is tuned, or there is none.
LEMMA LeavingKept ==
    ASSUME Inv, Stepping, Leaving, ~Leaving'
    PROVE  stage' = "done" \/ (Tune /\ "fend" \in recv')
<1>0. PICK x \in Leaves : Has(x) /\ (x = "ts" \/ stage = "ts")
  BY DEF Leaving, Leaves
<1>t. {"ts", "leave", "next", "tune"} \subseteq Going
  BY DEF Going
<1>1. stage = "ts" => stage' = "ts" \/ stage' = "done"
  <2>1. TryNit => stage # "ts"
    <3>1. Has("trynit") => stage # "ts"
      BY DEF Inv, Current
    <3> QED BY <3>1, GoSteps
  <2> QED BY <2>1, StageMoves
<1>2. Has(x)' => stage' = "done"
  BY <1>0, <1>1 DEF Leaving, Leaves
<1>3. SameStep \/ Unsubscribe \/ Apart => Same
  BY InvParts, SameRuns, ApartRuns DEF SameStep
<1>4. CASE StartTs
  BY <1>4, <1>t, GoSteps, StageMoves DEF Leaving, Goes, StartTs
<1>5. CASE LeaveTs \/ NextFreq \/ Tune
  <2>1. x # "ts" => stage = "ts"
    BY <1>0
  <2>2. CASE x = "ts"
    BY <1>0, <1>2, <1>3, <1>5, <2>2, LeavesFirst, GoSteps, StageMoves DEF Same, LeaveTs, NextFreq, Tune, StartTs, At
  <2>3. CASE stage = "ts"
    <3>1. Goes("next") \/ Goes("tune") => Leaving' \/ stage' = "done"
      BY <1>1, <1>t, <2>3 DEF Goes, Leaving
    <3>2. LeaveTs => Goes("next")
      BY GoSteps
    <3>3. NextFreq => Goes("tune") \/ stage' = "done"
      BY GoSteps DEF NextFreq, AllDone
    <3>4. Tune => Goes("next") \/ "fend" \in recv'
      BY GoSteps
    <3> QED BY <1>5, <3>1, <3>2, <3>3, <3>4
  <2> QED BY <2>1, <2>2, <2>3
<1> QED BY <1>0, <1>2, <1>3, <1>4, <1>5, LeavesFirst DEF Same

\* A current stream that is left is still there for a while: its filters are freed.
LEMMA LeavingTasks ==
    ASSUME Inv, Orderly, Stepping, Regular', currTs', Leaving'
    PROVE  /\ Has("wait")'
           /\ \A x \in Pending' : x[1] \in {"free", "ts", "window", "leave", "wait"}
<1>0. Heard /\ Asked /\ Agenda /\ TypeOK /\ Current
  BY OrderlyParts
<1>1. ~LeaveTs
  BY DEF LeaveTs
<1>2. ~LockedForTs
  <2>1. LockedForTs => Still'
    BY <1>0, QuietStill
  <2>2. Leaving' => ~Still'
    BY DEF Leaving, Still, Going
  <2> QED BY <2>1, <2>2
<1>3. currTs /\ stage = "ts" /\ ~Has("next") /\ ~Has("tune") /\ "fend" \notin recv
  BY <1>0, <1>1, <1>2, FrequencyUntouched DEF Current
<1>4. ~Has("trynit") /\ ~Has("status") /\ mode # "blind" /\ started
  BY <1>0, <1>3 DEF Current, Inv, NotStarted
<1>5. CASE Leaving
  <2>0. Has("wait") /\ \A x \in Pending : x[1] \in {"free", "ts", "window", "leave", "wait"}
    BY <1>0, <1>3, <1>5 DEF Asked
  <2>w. \A x : x # "wait" => Do("wait")[1] # x
    BY DEF Do
  <2>1. PICK x \in {"ts", "leave"} : Has(x)
    BY <1>3, <1>5 DEF Leaving
  <2>2. \A op, N : Pops(op, N) /\ op # "wait" /\ (\A y \in N : y[1] \in {"free", "ts", "window", "leave", "wait"})
           => /\ Has("wait")'
              /\ \A y \in Pending' : y[1] \in {"free", "ts", "window", "leave", "wait"}
    <3> SUFFICES ASSUME NEW op, NEW N, Pops(op, N), op # "wait",
                        \A y \in N : y[1] \in {"free", "ts", "window", "leave", "wait"}
                 PROVE  /\ Has("wait")'
                        /\ \A y \in Pending' : y[1] \in {"free", "ts", "window", "leave", "wait"}
      OBVIOUS
    <3>1. Pending = {<<op, Of>>} \cup Rest /\ Pending' = N \cup Rest
      BY DEF Pops, Heads
    <3>2. Do("wait") # <<op, Of>>
      BY <2>w
    <3> QED BY <2>0, <3>1, <3>2 DEF Has
  <2>3. CASE FreeStep
    <3>1. Pops("free", {})
      BY <1>0, <2>3, SimplePops, OtherPops DEF FreeStep
    <3> QED BY <2>2, <3>1
  <2>4. CASE Window
    <3>1. Pops("window", {})
      BY <1>0, <2>4, SimplePops
    <3> QED BY <2>2, <3>1
  <2>5. CASE SameStep \/ Unsubscribe \/ Apart
    <3>1. Same
      BY <1>0, <2>5, SameRuns, ApartRuns DEF SameStep
    <3> QED BY <2>0, <3>1 DEF Same
  <2>6. CASE StartTs
    <3>1. Pops("ts", IF curr >= 0 THEN {Do("window"), Do("leave")} ELSE {Do("leave")})
      BY <1>0, <2>6, StartTsPops
    <3>2. \A y \in (IF curr >= 0 THEN {Do("window"), Do("leave")} ELSE {Do("leave")}) :
              y[1] \in {"free", "ts", "window", "leave", "wait"}
      BY DEF Do
    <3> QED BY <2>2, <3>1, <3>2
  <2> QED BY <1>1, <2>1, <2>3, <2>4, <2>5, <2>6, LeavesFirst DEF Leaves
<1>6. CASE ~Leaving
  <2>1. ~Has("ts") /\ ~Has("leave")
    BY <1>3, <1>6 DEF Leaving
  <2>2. ~Begin /\ ~StartBlind /\ ~NotLocked /\ ~NitFound /\ ~TryNit /\ ~StartTs /\ ~Tune /\ ~NextFreq
    <3>1. ~Begin /\ ~StartBlind /\ ~NotLocked /\ ~TryNit /\ ~StartTs /\ ~Tune /\ ~NextFreq
      BY <1>3, <1>4, <2>1, GoSteps
    <3>2. NitFound => stage # "ts"
      BY DEF NitFound
    <3> QED BY <1>3, <3>1, <3>2
  <2>3. Complete
    BY <1>1, <1>3, <2>1, <2>2, GoingMoves DEF Leaving
  <2>4. Pops("complete", FreeTasks \cup {Do("ts"), Do("wait")})
    BY <1>0, <2>3, CompletePops
  <2>5. Pending' = FreeTasks \cup {Do("ts"), Do("wait")}
    <3>1. "complete" \in Finals
      BY DEF Finals
    <3> QED BY <2>4, <3>1 DEF Pops, Heads
  <2>6. \A x \in FreeTasks : x[1] = "free"
    BY DEF FreeTasks, For
  <2>7. Do("ts")[1] = "ts" /\ Do("wait")[1] = "wait"
    BY DEF Do
  <2> QED BY <2>5, <2>6, <2>7 DEF Has
<1> QED BY <1>5, <1>6

LEMMA StreamTuned ==
    ASSUME Inv, Orderly, Stepping, Regular', stage' = "ts", ~Leaving', spc' # "crashed"
    PROVE  "fend" \in recv' \/ currTs'
<1>0. Asked /\ Agenda /\ TypeOK /\ Current
  BY OrderlyParts
<1>t. {"ts", "leave", "next", "tune"} \subseteq Going
  BY DEF Going
<1>1. spc # "crashed"
  BY CrashedApart, ApartRuns
<1> SUFFICES ASSUME "fend" \notin recv'
             PROVE  currTs'
  OBVIOUS
<1>2. ~Leaving
  BY LeavingKept
<1>3. stage = "ts"
  <2>1. StartTs => Leaving'
    BY <1>t, GoSteps DEF Goes, Leaving, StartTs
  <2> QED BY <2>1, StageMoves
<1>4. "fend" \in recv \/ currTs
  BY <1>0, <1>1, <1>2, <1>3 DEF Asked
<1>5. CASE currTs
  <2>1. ~LeaveTs
    BY <1>2, <1>3, GoSteps DEF Leaving
  <2>2. LockedForTs => currTs'
    BY DEF LockedForTs
  <2> QED BY <1>5, <2>1, <2>2, FrequencyUntouched
<1>6. CASE "fend" \in recv
  <2>1. ~Tune
    BY <1>2, <1>3, GoSteps DEF Leaving
  <2>2. ~LockedForNit
    BY <1>3 DEF LockedForNit
  <2>3. NotLocked => Leaving'
    BY <1>3, <1>t, GoSteps DEF Goes, Leaving
  <2>4. LockedForTs => currTs'
    BY DEF LockedForTs
  <2> QED BY <1>0, <1>6, <2>1, <2>2, <2>3, <2>4, TuningUntouched
<1> QED BY <1>4, <1>5, <1>6

-----------------------------------------------------------------------------
(* The PAT and the SDT are asked for. *)

LEMMA RequestNow ==
    ASSUME Agenda, Stepping, At("request")
    PROVE  Request \/ UNCHANGED <<spc, agenda>> \/ SectionCollected
<1>1. ScannerStep => Request
  BY DEF ScannerStep, Check, Recheck, Complete, Wait, Woken, TimedOut, Clear, Window, Resume,
        Free, NothingToFree, Synced, FreeSlot, RequestPmts, RequestSlot, SkipSlot,
        PatDone, PatList, SdtDone, NitDoneInTs, NitMissing, NitFound, Freed, TryNit, StartTs, Resumed,
        LeaveTs, NextFreq, Tune, FendEvent, NotLocked, LockedForNit, LockedForTs, Begin,
        StartBlind, BlindDone, NextBlind, Joined,
        Quit, StopBlind, Stop, Unlock, At
<1>2. ~Unsubscribe
  BY DEF Unsubscribe, At
<1>3. SectionRead \/ SectionIgnored \/ SectionUndecoded \/ FendStatus \/ FendCallback
      \/ BlindReport \/ BlindCallback \/ BlindEnds \/ AppStart \/ AppPause
      \/ Destroy \/ DestroyQuit \/ DestroyReturn \/ Terminated \/ UNCHANGED vars
      => UNCHANGED <<spc, agenda>>
  BY DEF SectionRead, SectionIgnored, SectionUndecoded, FendStatus, FendCallback,
        BlindReport, BlindCallback, BlindEnds, AppStart, AppPause, Destroy, DestroyQuit,
        DestroyReturn, Terminated, vars, threadVars
<1> QED BY <1>1, <1>2, <1>3 DEF Stepping, Next, SectionHandled

\* Behind the request of the PAT is that of the SDT, and no other of them.
LEMMA TurnTasks ==
    ASSUME Agenda, InTurn
    PROVE  /\ At("request") /\ Of \in PatSdt /\ Heads("request") /\ Waits("request", Of)
           /\ For("request", Of) \notin Rest
           /\ Rest \cap Unasked # {} =>
                 /\ Tail(agenda) # << >> /\ Head(Tail(agenda)) = For("request", "sdt")
                 /\ Range(Tail(Tail(agenda))) \cap Unasked = {}
<1>1. spc = "run" /\ agenda # << >> /\ agenda \in Seq(ScanTasks)
  BY DEF InTurn, Agenda
<1>f. /\ \A t : For("request", t)[1] = "request" /\ For("request", t)[2] = t
      /\ For("request", "pat") \in Unasked /\ For("request", "sdt") \in Unasked
      /\ For("request", "pat") # For("request", "sdt")
  BY DEF For, Unasked, PatSdt
<1>2. At("request") /\ Of \in PatSdt /\ Head(agenda) = For("request", Of)
  <2>1. PICK t \in PatSdt : Head(agenda) = For("request", t)
    BY DEF InTurn, PatSdt
  <2>2. Head(agenda)[1] = "request" /\ Of = t
    BY <1>f, <2>1 DEF Of
  <2> QED BY <1>1, <2>1, <2>2 DEF At
<1>3. Heads("request") /\ Pending = {Head(agenda)} \cup Rest
  BY <1>1, <1>2, HeadTask, Split
<1>4. CASE Head(agenda) = For("request", "sdt") /\ Rest \cap Unasked = {}
  BY <1>2, <1>3, <1>4, <1>f DEF Waits
<1>5. CASE /\ Head(agenda) = For("request", "pat")
           /\ Tail(agenda) # << >> /\ Head(Tail(agenda)) = For("request", "sdt")
           /\ Range(Tail(Tail(agenda))) \cap Unasked = {}
  <2>1. Tail(agenda) \in Seq(ScanTasks)
    BY <1>1, Split
  <2>2. Rest = {Head(Tail(agenda))} \cup Range(Tail(Tail(agenda)))
    <3> DEFINE u == Tail(agenda)
    <3>1. u \in Seq(ScanTasks) /\ u # << >>
      BY <1>5, <2>1
    <3> HIDE DEF u
    <3>2. /\ Head(u) = u[1] /\ Len(u) \in Nat \ {0} /\ Tail(u) \in Seq(ScanTasks) /\ Len(Tail(u)) = Len(u) - 1
          /\ \A i \in 1 .. Len(u) - 1 : Tail(u)[i] = u[i + 1]
      BY <3>1
    <3>3. Range(u) = {u[i] : i \in 1 .. Len(u)}
      BY <3>1, RangeEquality
    <3>4. Range(Tail(u)) = {Tail(u)[i] : i \in 1 .. Len(Tail(u))}
      BY <3>2, RangeEquality
    <3>5. ASSUME NEW y \in Range(u)
          PROVE  y = Head(u) \/ y \in Range(Tail(u))
      <4>1. PICK i \in 1 .. Len(u) : y = u[i]
        BY <3>3, <3>5
      <4>2. CASE i = 1
        BY <3>2, <4>1, <4>2
      <4>3. CASE i # 1
        <5>1. i - 1 \in 1 .. Len(u) - 1 /\ (i - 1) + 1 = i
          BY <3>2, <4>1, <4>3
        <5> QED BY <3>2, <3>4, <4>1, <5>1
      <4> QED BY <4>2, <4>3
    <3>6. Head(u) \in Range(u)
      BY <3>2, <3>3
    <3>7. Range(Tail(u)) \subseteq Range(u)
      BY <3>2, <3>3, <3>4
    <3> QED BY <3>5, <3>6, <3>7 DEF u, Rest
  <2> QED BY <1>2, <1>3, <1>5, <1>f, <2>2 DEF Waits
<1> QED BY <1>2, <1>3, <1>4, <1>5 DEF InTurn, Rest

\* A stream of which the PAT or the SDT is asked for is the current one, and is not left.
LEMMA TurnStream ==
    ASSUME Inv, Orderly, Stepping, Regular', NEW t \in PatSdt, Waits("request", t)
    PROVE  /\ currTs /\ ~Leaving /\ InTurn
           /\ fid[t] = NoFid /\ t \notin evt /\ ~Waits("done", t)
<1>0. Asked /\ Agenda /\ Current
  BY OrderlyParts
<1>t. t \in Tables \ {"nit"}
  BY DEF Tables, PatSdt
<1>1. currTs
  BY <1>0, <1>t DEF Current
<1>2. ~Leaving
  <2>1. For("request", t)[1] = "request"
    BY DEF For
  <2> QED BY <1>0, <1>1, <2>1 DEF Asked, Waits
<1>3. InTurn
  BY <1>0 DEF Asked, Unasked, Waits
<1> QED BY <1>0, <1>1, <1>2, <1>3 DEF Asked

LEMMA TurnStep ==
    ASSUME Inv, Orderly, Stepping, Regular', NEW t \in PatSdt, Waits("request", t)
    PROVE  \/ /\ UNCHANGED <<spc, agenda>> /\ ~Request /\ Same
           \/ /\ Request /\ Of \in PatSdt /\ Allocated(Of) /\ For("request", Of) \notin Rest
              /\ agenda' = Tail(agenda) /\ spc' = "run" /\ Pending' = Rest
<1>0. Agenda /\ InTurn
  BY OrderlyParts, TurnStream
<1>1. At("request") /\ Of \in PatSdt /\ Heads("request") /\ Waits("request", Of) /\ For("request", Of) \notin Rest
  BY <1>0, TurnTasks
<1>2. CASE Request
  <2>1. fid[Of] = NoFid
    BY <1>1, TurnStream
  <2>2. Allocated(Of)
    BY <1>0, <1>2, <2>1, Decoded
  <2>3. agenda' = << >> \o Tail(agenda) /\ spc' = "run"
    BY <1>2, <2>1 DEF Request, Return, Then
  <2>4. Tail(agenda) \in Seq(ScanTasks)
    BY <1>0, <1>1, Split DEF Agenda, Heads
  <2>5. agenda' = Tail(agenda)
    BY <2>3, <2>4
  <2>6. Pending' = Rest
    BY <2>5 DEF Pending, Rest
  <2> QED BY <1>1, <1>2, <2>2, <2>3, <2>5, <2>6
<1>3. CASE ~Request
  <2>1. UNCHANGED <<spc, agenda>> \/ SectionCollected
    BY <1>0, <1>1, <1>3, RequestNow
  <2>2. UNCHANGED <<spc, agenda>>
    BY <2>1, CollectedSafely
  <2> QED BY <1>0, <1>3, <2>2, SameRuns
<1> QED BY <1>2, <1>3

LEMMA FirstTurn ==
    ASSUME Agenda, LockedForTs
    PROVE  InTurn'
<1> DEFINE more == If(plan.source = "terrestrial", <<For("request", "nit")>>)
           rp == For("request", "pat")
           rs == For("request", "sdt")
<1>0. /\ agenda' = (<<rp, rs>> \o more) \o Tail(agenda) /\ spc' = "run"
      /\ At("status")
  BY DEF LockedForTs, Then
<1>1. Heads("status") /\ Tail(agenda) \in Seq(ScanTasks) /\ \A t : ~Waits("request", t)
  <2>1. "status" \in Handling
    BY DEF Handling
  <2>2. Heads("status")
    BY <1>0, HeadTask
  <2> QED BY <1>0, <2>1, <2>2, Split, HandlingHead DEF Agenda, Heads
<1>2. /\ more = << >> \/ more = <<For("request", "nit")>>
      /\ more \in Seq({For("request", "nit")})
  <2>1. CASE plan.source = "terrestrial"
    BY <2>1 DEF If
  <2>2. CASE plan.source # "terrestrial"
    BY <2>2 DEF If
  <2> QED BY <2>1, <2>2
<1>3. Range(more) \subseteq {For("request", "nit")}
  BY <1>2, RangeOfSeq
<1>4. Rest \cap Unasked = {}
  BY <1>1 DEF Heads, Unasked, Waits
<1>5. For("request", "nit") \notin Unasked
  BY DEF For, Unasked, PatSdt
<1> HIDE DEF more, rp, rs
<1>6. agenda' = <<rp>> \o (<<rs>> \o (more \o Tail(agenda)))
  <2> DEFINE S == {rp, rs, For("request", "nit")} \cup ScanTasks
  <2>1. more \in Seq(S) /\ Tail(agenda) \in Seq(S) /\ <<rp>> \in Seq(S) /\ <<rs>> \in Seq(S)
    BY <1>1, <1>2
  <2>2. <<rp, rs>> = <<rp>> \o <<rs>>
    BY Pair
  <2> HIDE DEF S
  <2>3. \A a, b, c, d \in Seq(S) : ((a \o b) \o c) \o d = a \o (b \o (c \o d))
    <3> TAKE a, b, c, d \in Seq(S)
    <3>1. (a \o b) \o c = a \o (b \o c)
      OBVIOUS
    <3>2. (a \o (b \o c)) \o d = a \o ((b \o c) \o d)
      OBVIOUS
    <3>3. (b \o c) \o d = b \o (c \o d)
      OBVIOUS
    <3> QED BY <3>1, <3>2, <3>3
  <2> QED BY <1>0, <2>1, <2>2, <2>3
<1>7. more \o Tail(agenda) \in Seq({For("request", "nit")} \cup ScanTasks)
  <2> DEFINE S == {For("request", "nit")} \cup ScanTasks
  <2>1. more \in Seq(S) /\ Tail(agenda) \in Seq(S)
    BY <1>1, <1>2
  <2> QED BY <2>1
<1>8. Range(more \o Tail(agenda)) \cap Unasked = {}
  <2> DEFINE S == {For("request", "nit")} \cup ScanTasks
  <2>1. more \in Seq(S) /\ Tail(agenda) \in Seq(S)
    BY <1>1, <1>2
  <2> HIDE DEF S
  <2>2. Range(more \o Tail(agenda)) = Range(more) \cup Range(Tail(agenda))
    BY <2>1, RangeConcatenation
  <2> QED BY <1>3, <1>4, <1>5, <2>2 DEF Rest
<1>9. /\ agenda' # << >> /\ Head(agenda') = rp
      /\ Tail(agenda') = <<rs>> \o (more \o Tail(agenda))
  <2> DEFINE u == <<rs>> \o (more \o Tail(agenda))
  <2>1. u \in Seq({rp, rs, For("request", "nit")} \cup ScanTasks)
    BY <1>7
  <2> HIDE DEF u
  <2>2. /\ <<rp>> \o u # << >> /\ Head(<<rp>> \o u) = rp /\ Tail(<<rp>> \o u) = u
    BY <2>1
  <2> QED BY <1>6, <2>2 DEF u
<1>10. /\ Tail(agenda') # << >> /\ Head(Tail(agenda')) = rs
       /\ Tail(Tail(agenda')) = more \o Tail(agenda)
  <2> DEFINE u == more \o Tail(agenda)
  <2>1. u \in Seq({For("request", "nit")} \cup ScanTasks)
    BY <1>7
  <2> HIDE DEF u
  <2>2. /\ <<rs>> \o u # << >> /\ Head(<<rs>> \o u) = rs /\ Tail(<<rs>> \o u) = u
    BY <2>1
  <2> QED BY <1>9, <2>2 DEF u
<1> QED BY <1>0, <1>8, <1>9, <1>10 DEF InTurn, rp, rs

LEMMA AskedInTurn ==
    ASSUME Inv, Orderly, Stepping, Regular', (Pending \cap Unasked # {})'
    PROVE  InTurn'
<1>0. Agenda
  BY InvParts
<1>1. PICK t \in PatSdt : Waits("request", t)'
  BY DEF Unasked, Waits
<1>2. t \in Tables /\ t # "nit"
  BY DEF Tables, PatSdt
<1>3. CASE LockedForTs
  BY <1>0, <1>3, FirstTurn
<1>4. CASE Waits("request", t)
  <2>1. InTurn
    BY <1>4, TurnStream
  <2>2. CASE UNCHANGED <<spc, agenda>>
    BY <2>1, <2>2 DEF InTurn
  <2>3. CASE agenda' = Tail(agenda) /\ spc' = "run" /\ Pending' = Rest
    <3>1. Rest \cap Unasked # {}
      BY <2>3
    <3>2. /\ Tail(agenda) # << >> /\ Head(Tail(agenda)) = For("request", "sdt")
          /\ Range(Tail(Tail(agenda))) \cap Unasked = {}
      BY <1>0, <2>1, <3>1, TurnTasks
    <3> QED BY <2>3, <3>2 DEF InTurn
  <2> QED BY <1>4, <2>2, <2>3, TurnStep
<1> QED BY <1>1, <1>2, <1>3, <1>4, RequestMoves

LEMMA PatSdtTables ==
    ASSUME NEW t \in PatSdt
    PROVE  t \in Single /\ t \in Tables /\ t \notin SlotSet /\ t # "nit" /\ Flag(t) = t
<1>1. t \in Single /\ t # "nit"
  BY DEF PatSdt, Single
<1> QED BY <1>1, SingleTables

\* There was a current stream before, and it was not left; or this one has just been locked.
LEMMA StreamBefore ==
    ASSUME Inv, Orderly, Stepping, Regular', currTs', ~Leaving', ~LockedForTs
    PROVE  currTs /\ ~Leaving /\ ~LeaveTs /\ ~Complete
<1>1. ~LeaveTs
  BY DEF LeaveTs
<1>2. currTs
  BY <1>1, FrequencyUntouched
<1>3. ~Complete
  <2>1. Complete => Has("ts")'
    BY GoSteps DEF Goes, Going
  <2> QED BY <2>1 DEF Leaving
<1>4. ~Leaving
  <2>1. Current /\ stage = "ts"
    BY <1>2, OrderlyParts DEF Current
  <2>2. ~Tune /\ ~NextFreq
    BY <1>2, <2>1, GoSteps DEF Current
  <2>3. stage' # "done"
    BY <2>1, <2>2, StageMoves
  <2> QED BY <2>2, <2>3, LeavingKept
<1> QED BY <1>1, <1>2, <1>3, <1>4

LEMMA StreamLocked ==
    ASSUME Inv, Orderly, Stepping, Regular', LockedForTs, NEW t \in PatSdt
    PROVE  Waits("request", t)' /\ t \notin evt' /\ ~Waits("done", t)' /\ fid'[t] = NoFid
<1>0. Overdue /\ Agenda /\ Current /\ TypeOK
  BY OrderlyParts
<1>t. t \in Single /\ t \in Tables /\ t # "nit" /\ "status" \in Tracked
  BY PatSdtTables DEF Tracked
<1>1. At("status") /\ evt' = evt /\ fid' = fid
  BY DEF LockedForTs
<1>2. Has("status") /\ "fend" \in recv /\ ~currTs /\ spc # "crashed"
  BY <1>0, <1>t, <1>1, AtHas DEF Current, At
<1>3. Untroubled
  <2>1. ~Doomed
    BY <1>2 DEF Doomed
  <2>2. ~Left
    <3>1. Do("status")[1] \notin {"next", "tune", "wait"}
      BY DEF Do
    <3> QED BY <1>2, <3>1 DEF Left, Has
  <2> QED BY <1>0, <1>2, <2>1, <2>2 DEF Overdue
<1>4. fid[t] = NoFid
  BY <1>0, <1>2, <1>t DEF Current
<1>5. Waits("request", t)'
  <2>1. Pops("status", {For("request", "pat"), For("request", "sdt")}
                           \cup IF plan.source = "terrestrial" THEN {For("request", "nit")} ELSE {})
    BY <1>0, LockedPops
  <2> QED BY <2>1 DEF Pops, PatSdt, Waits
<1>6. ~Waits("done", t)'
  <2>1. ~PassBegins /\ ~Check
    BY <1>1 DEF PassBegins, Check, Wait, Woken, TimedOut, Clear, At
  <2> QED BY <1>3, <1>t, <2>1, DoneMoves DEF Untroubled
<1> QED BY <1>1, <1>3, <1>4, <1>5, <1>6 DEF Untroubled

\* What has come, or had its time, stays so.
LEMMA ComesOnce ==
    ASSUME Inv, Orderly, Stepping, Regular', currTs', ~Leaving', ~LockedForTs, NEW t \in PatSdt, ~Waits("request", t)
    PROVE  /\ got[t] = "all" => got'[t] = "all"
           /\ t \in expired => t \in expired'
<1>t. t \in Tables /\ t \notin SlotSet
  BY PatSdtTables
<1>1. ~LeaveTs /\ ~Complete /\ Agenda
  BY StreamBefore, InvParts
<1>2. ~(Request /\ Of = t)
  BY <1>1, AtHas DEF Request
<1>3. ~(RequestSlot /\ Slot = t)
  BY <1>1, <1>t, SlotOf DEF RequestSlot
<1> QED BY <1>1, <1>2, <1>3, <1>t, GotMoves, ExpiredMoves

LEMMA StreamComes ==
    ASSUME Inv, Orderly, Stepping, Regular', currTs', ~Leaving', ~LockedForTs, NEW t \in PatSdt
    PROVE  (Waits("request", t) \/ Coming(t))'
<1>0. Asked /\ Agenda
  BY OrderlyParts
<1>b. currTs /\ ~Leaving
  BY StreamBefore
<1>t. t \in Tables /\ Flag(t) = t
  BY PatSdtTables
<1>1. CASE Waits("request", t)
  <2>1. CASE UNCHANGED <<spc, agenda>> /\ Same
    BY <1>1, <2>1 DEF Same
  <2>2. CASE Request /\ Allocated(Of) /\ Pending' = Rest
    <3>1. Of = t => t \in recv'
      BY <1>t, <2>2 DEF Allocated
    <3>2. Of # t => For("request", t) \in Rest
      <4>1. Heads("request")
        BY <1>0, <2>2, HeadTask DEF Request
      <4>2. For("request", t) = <<"request", Of>> => t = Of
        BY DEF For
      <4> QED BY <1>1, <4>1, <4>2 DEF Heads, Waits
    <3> QED BY <2>2, <3>1, <3>2 DEF Coming, Waits
  <2> QED BY <1>1, <2>1, <2>2, TurnStep
<1>2. CASE ~Waits("request", t)
  <2>1. CASE got[t] = "all" \/ t \in expired
    BY <1>2, <2>1, ComesOnce DEF Coming
  <2>2. CASE t \in recv
    <3>1. CASE (PatDone /\ t = "pat") \/ (SdtDone /\ t = "sdt")
      <4>1. Waits("done", t)
        BY <1>0, <3>1, AtHas DEF PatDone, SdtDone, Freed
      <4>2. got[t] = "all" \/ t \in expired
        BY <1>0, <1>b, <4>1 DEF Asked
      <4> QED BY <2>1, <4>2
    <3>2. CASE t \in recv'
      BY <3>2 DEF Coming
    <3>3. t \in {"pat", "sdt", "pmt"} /\ t # "pmt"
      BY DEF PatSdt
    <3> QED BY <1>0, <2>2, <3>1, <3>2, <3>3, RecvMoves
  <2>3. got[t] = "all" \/ t \in expired \/ t \in recv
    BY <1>0, <1>b, <1>2 DEF Asked, Coming
  <2> QED BY <2>1, <2>2, <2>3
<1> QED BY <1>1, <1>2

\* A table has an event, or is handled, when it is complete or had its time.
LEMMA StreamHandled ==
    ASSUME Inv, Orderly, Stepping, Regular', currTs', ~Leaving', ~LockedForTs, NEW t \in PatSdt
    PROVE  /\ t \in evt' => got'[t] = "all"
           /\ Waits("done", t)' => got'[t] = "all" \/ t \in expired'
<1>0. Asked /\ Agenda
  BY OrderlyParts
<1>b. currTs /\ ~Leaving
  BY StreamBefore
<1>t. t \in Single
  BY PatSdtTables
<1>1. ASSUME t \in evt'
      PROVE  got'[t] = "all"
  <2>1. CASE t \in evt
    <3>1. ~Waits("request", t) /\ got[t] = "all"
      BY <1>0, <1>b, <2>1 DEF Asked
    <3> QED BY <3>1, ComesOnce
  <2> QED BY <1>1, <1>t, <2>1, EvtMoves
<1>2. ASSUME Waits("done", t)'
      PROVE  got'[t] = "all" \/ t \in expired'
  <2>1. CASE Waits("done", t)
    <3>1. ~Waits("request", t) /\ (got[t] = "all" \/ t \in expired)
      BY <1>0, <1>b, <2>1 DEF Asked
    <3> QED BY <3>1, ComesOnce
  <2>2. CASE t \in evt'
    BY <1>1, <2>2
  <2>3. CASE Check /\ t \in expired
    BY <2>3 DEF Check
  <2> QED BY <1>2, <1>t, <2>1, <2>2, <2>3, DoneMoves
<1> QED BY <1>1, <1>2

LEMMA StreamAsked ==
    ASSUME Inv, Orderly, Stepping, Regular', ~LockedForTs, NEW t \in PatSdt, Waits("request", t)'
    PROVE  t \notin evt' /\ ~Waits("done", t)' /\ fid'[t] = NoFid
<1>0. Agenda
  BY InvParts
<1>t. t \in Single /\ t \in Tables /\ t \notin SlotSet /\ t # "nit"
  BY PatSdtTables
<1>1. Waits("request", t)
  BY <1>t, RequestMoves
<1>2. fid[t] = NoFid /\ t \notin evt /\ ~Waits("done", t)
  BY <1>1, TurnStream
<1>3. t \notin evt'
  BY <1>2, <1>t, EvtMoves
<1>4. \/ Same /\ ~Request
      \/ Request /\ Pending' = Rest /\ For("request", Of) \notin Rest
  BY <1>1, TurnStep
<1>5. ~Waits("done", t)'
  <2>1. Request => Rest \subseteq Pending
    <3>1. Request => Heads("request")
      BY <1>0, HeadTask DEF Request
    <3> QED BY <3>1 DEF Heads
  <2> QED BY <1>2, <1>4, <2>1 DEF Same, Waits
<1>6. fid'[t] = NoFid
  <2>1. ~(Request /\ Of = t)
    BY <1>4 DEF Waits
  <2>2. ~(RequestSlot /\ Slot = t)
    BY <1>0, <1>t, SlotOf DEF RequestSlot
  <2> QED BY <1>2, <1>t, <2>1, <2>2, FidMoves
<1> QED BY <1>3, <1>5, <1>6

LEMMA AskedKept ==
    ASSUME Inv, Orderly, Stepping, Regular'
    PROVE  Asked'
<1>1. (stage = "ts" /\ ~Leaving /\ spc # "crashed" => "fend" \in recv \/ currTs)'
  BY StreamTuned
<1>2. (currTs /\ Leaving =>
          Has("wait") /\ \A x \in Pending : x[1] \in {"free", "ts", "window", "leave", "wait"})'
  BY LeavingTasks
<1>3. (Pending \cap Unasked # {} => InTurn)'
  BY AskedInTurn
<1>4. ASSUME currTs', ~Leaving', NEW t \in PatSdt
      PROVE  (/\ Waits("request", t) \/ Coming(t)
              /\ t \in evt => got[t] = "all"
              /\ Waits("done", t) => got[t] = "all" \/ t \in expired
              /\ Waits("request", t) => t \notin evt /\ ~Waits("done", t) /\ fid[t] = NoFid)'
  <2>1. CASE LockedForTs
    BY <2>1, StreamLocked
  <2>2. CASE ~LockedForTs
    BY <1>4, <2>2, StreamComes, StreamHandled, StreamAsked
  <2> QED BY <2>1, <2>2
<1> QED BY <1>1, <1>2, <1>3, <1>4 DEF Asked

-----------------------------------------------------------------------------
(* The thread does what is first on its agenda. *)

LEMMA HeadNow ==
    ASSUME Inv, Stepping, agenda # << >>
    PROVE  \/ UNCHANGED agenda /\ Same /\ (SameStep \/ Unsubscribe \/ Apart)
           \/ /\ spc = "run"
              /\ Head(agenda)[1] = "pmts" => RequestPmts
              /\ Head(agenda)[1] = "slot" => SkipSlot \/ RequestSlot
              /\ Head(agenda)[1] = "fend" => FendEvent
              /\ Head(agenda)[1] = "wait" => Wait
              /\ Head(agenda)[1] = "done" => PatDone \/ SdtDone \/ NitDoneInTs \/ NitMissing \/ NitFound
<1> DEFINE Now == /\ spc = "run"
                  /\ Head(agenda)[1] = "pmts" => RequestPmts
                  /\ Head(agenda)[1] = "slot" => SkipSlot \/ RequestSlot
                  /\ Head(agenda)[1] = "fend" => FendEvent
                  /\ Head(agenda)[1] = "wait" => Wait
                  /\ Head(agenda)[1] = "done" => PatDone \/ SdtDone \/ NitDoneInTs \/ NitMissing \/ NitFound
<1>0. Agenda
  BY InvParts
<1>1. Wait \/ RequestPmts \/ SkipSlot \/ RequestSlot \/ FendEvent => Now
  BY DEF Wait, RequestPmts, SkipSlot, RequestSlot, FendEvent, At
<1>2. PatDone \/ SdtDone \/ NitDoneInTs \/ NitMissing \/ NitFound => Now
  BY DEF PatDone, SdtDone, NitDoneInTs, NitMissing, NitFound, Freed, At
<1>3. Check \/ Recheck \/ Complete \/ Clear \/ Window \/ NothingToFree \/ Request \/ FreeSlot => Now
  <2>1. Complete => spc = "run" /\ Head(agenda)[1] = "complete"
    BY DEF Complete, At
  <2> QED BY <2>1 DEF Check, Recheck, Clear, Window, NothingToFree, Request, FreeSlot, At
<1>4. PatList \/ TryNit \/ StartTs \/ LeaveTs \/ NextFreq \/ Tune \/ NotLocked \/ LockedForNit \/ LockedForTs => Now
  BY DEF PatList, TryNit, StartTs, LeaveTs, NextFreq, Tune, NotLocked, LockedForNit, LockedForTs, At
<1>5. Begin \/ StartBlind \/ BlindDone \/ NextBlind \/ Quit \/ StopBlind \/ Stop \/ Unlock => Now
  BY DEF Begin, StartBlind, BlindDone, NextBlind, Quit, StopBlind, Stop, Unlock, At
<1>6. ~Woken /\ ~TimedOut
  BY <1>0 DEF Woken, TimedOut, Agenda, Idling
<1>7. Free => Now \/ SameStep
  BY DEF Free, SameStep, At
<1>8. SameStep \/ Unsubscribe \/ Apart => UNCHANGED agenda /\ Same
  <2>1. SameStep \/ Unsubscribe => UNCHANGED agenda
    BY DEF SameStep, Resume, Free, Synced, Resumed, Joined, Unsubscribe, At
  <2>2. SameStep \/ Unsubscribe => Same
    BY <1>0, SameRuns DEF SameStep
  <2> QED BY <2>1, <2>2, ApartRuns
<1>9. Resume \/ Synced \/ Resumed \/ Joined => SameStep
  BY DEF SameStep
<1>10. ScannerStep => Now \/ SameStep
  BY <1>1, <1>2, <1>3, <1>4, <1>5, <1>6, <1>7, <1>9 DEF ScannerStep
<1>11. Stepping => ScannerStep \/ Unsubscribe \/ Apart
  BY DEF Stepping, Next, Apart, OutsideStep, SectionHandled
<1> HIDE DEF Now
<1>12. Now \/ (UNCHANGED agenda /\ Same /\ (SameStep \/ Unsubscribe \/ Apart))
  BY <1>8, <1>10, <1>11
<1> QED BY <1>12 DEF Now

-----------------------------------------------------------------------------
(* The programs of the PAT. *)

LEMMA SlotsWaited ==
    ASSUME Inv, Orderly, Stepping, Regular', NEW t \in SlotSet, fid'[t] # NoFid
    PROVE  "pmt" \in recv'
<1>0. Listed /\ Agenda /\ TypeOK
  BY OrderlyParts
<1>t. t \in Tables /\ Flag(t) = "pmt"
  BY SlotIsTable, FlagTyped
<1>1. CASE fid[t] # NoFid
  <2>1. "pmt" \in recv
    BY <1>0, <1>1 DEF Listed
  <2>2. Receiving # {}
    BY <1>1 DEF Receiving
  <2> QED BY <1>0, <2>1, <2>2, RecvMoves
<1>2. CASE Request /\ Of = t /\ fid[t] = NoFid
  BY <1>0, <1>2, <1>t, Decoded DEF Allocated
<1>3. CASE RequestSlot /\ Slot = t /\ fid[t] = NoFid
  <2>1. NextProg = NoList => UNCHANGED fid
    BY <1>3 DEF RequestSlot
  <2>2. NextProg # NoList => Allocated(t)
    BY <1>0, <1>3, Decoded
  <2> QED BY <1>3, <1>t, <2>1, <2>2 DEF Allocated
<1> QED BY <1>1, <1>2, <1>3, <1>t, FidMoves

LEMMA HeadOnly ==
    ASSUME Agenda, agenda # << >>
    PROVE  /\ Do("patlist") \notin Rest /\ \A i : <<"slot", i>> \notin Rest
           /\ Pending = {Head(agenda)} \cup Rest
<1>1. \A y \in Rest : y[1] \in Behind(Head(agenda)[1])
  BY SplitOrder DEF Agenda, Before
<1>2. \A op : "patlist" \notin Behind(op) /\ "slot" \notin Behind(op)
  BY DEF Behind, Later, Finals
<1>3. Do("patlist")[1] = "patlist" /\ \A i : <<"slot", i>>[1] = "slot"
  BY DEF Do
<1> QED BY <1>1, <1>2, <1>3, Split DEF Agenda

\* The tasks of a pass, and those at the end, are other ones.
LEMMA PassTasks ==
    ASSUME Inv, Stepping, PassStep \/ Quit \/ Unlock
    PROVE  /\ ~Has("pmts") \/ ((PatDone \/ SdtDone) /\ ~currTs)
           /\ ~Slotting \/ ((PatDone \/ SdtDone) /\ ~currTs)
           /\ ~Has("patlist")'
<1>0. Agenda /\ started \in BOOLEAN
  BY InvParts
<1>f. \A op \in Finals : \A z : Do("pmts") # <<op, z>> /\ \A i : <<"slot", i>> # <<op, z>>
  BY DEF Finals, Do
<1>1. Pending = {} \/ (\E op \in Finals : \E z : Pending = {<<op, z>>}) \/ ((PatDone \/ SdtDone) /\ ~currTs)
  <2>1. Wait \/ Woken \/ TimedOut \/ Clear => Pending = {} \/ \E op \in {"wait", "complete", "clear"} : Pending = {<<op, Of>>}
    BY <1>0, EventPops
  <2>2. Check \/ Complete \/ Quit \/ Unlock => \E op \in {"check", "complete", "quit", "unsub"} : Pending = {<<op, Of>>}
    <3>1. \A op \in {"check", "complete", "quit", "unsub"} : At(op) => Pending = {<<op, Of>>}
      BY <1>0, LastTask DEF Finals
    <3> QED BY <3>1 DEF Check, Complete, Quit, Unlock
  <2>3. {"wait", "complete", "clear", "check", "quit", "unsub"} \subseteq Finals
    BY DEF Finals
  <2> QED BY <2>1, <2>2, <2>3 DEF PassStep
<1>p. /\ \A x, t : x # "patlist" => Do("patlist") # For(x, t)
      /\ \A x : x # "patlist" => Do("patlist") # Do(x)
      /\ \A i : Do("patlist") # <<"check", i>>
  BY DEF Do, For
<1>h. \A e : Do("patlist") \notin HandleTasks(e)
  BY <1>p DEF HandleTasks
<1>2. Wait \/ Woken \/ TimedOut \/ Clear => ~Has("patlist")'
  <2>1. Wait => ~Has("patlist")'
    BY <1>0, <1>h, EventPops DEF Emptying, Has
  <2>2. Woken => ~Has("patlist")'
    BY <1>0, <1>h, EventPops DEF Has
  <2>3. TimedOut => ~Has("patlist")'
    BY <1>0, <1>p, EventPops DEF Has
  <2>4. Clear => ~Has("patlist")'
    BY <1>0, <1>h, <1>p, EventPops DEF Has
  <2> QED BY <2>1, <2>2, <2>3, <2>4
<1>3. Check => ~Has("patlist")'
  <2>1. \A j : Do("patlist") \notin LateTasks(j)
    BY <1>p DEF LateTasks, DoneTasks
  <2>2. Do("patlist") # Do("complete")
    BY <1>p
  <2> QED BY <1>0, <2>1, <2>2, CheckPops DEF Has
<1>4. Complete => ~Has("patlist")'
  <2>1. "complete" \in Finals
    BY DEF Finals
  <2>2. Do("patlist") \notin FreeTasks \cup {Do("ts"), Do("wait")}
    BY <1>p DEF FreeTasks
  <2> QED BY <1>0, <2>1, <2>2, CompletePops DEF Has, Pops, Heads
<1>5. Quit => ~Has("patlist")'
  BY <1>0, <1>p, QuitPops DEF Has
<1>6. Unlock \/ ((PatDone \/ SdtDone) /\ ~currTs) => ~Has("patlist")'
  BY <1>0, OtherPops, DonePops DEF Emptying, Has
<1> QED BY <1>1, <1>f, <1>2, <1>3, <1>4, <1>5, <1>6 DEF PassStep, Has, Slotting, Waits, For

LEMMA ListAsked ==
    ASSUME Inv, Orderly, Stepping, Regular', Has("patlist")'
    PROVE  currTs' /\ Has("pmts")'
<1>0. Listed /\ Agenda /\ TypeOK
  BY OrderlyParts
<1>1. CASE PatDone /\ currTs
  <2>1. Pops("done", {Do("patlist"), Do("pmts")})
    BY <1>0, <1>1, DonePops
  <2>2. currTs' = currTs
    BY <1>1 DEF PatDone, scanVars
  <2> QED BY <1>1, <2>1, <2>2 DEF Pops, Has
<1>2. CASE ~(PatDone /\ currTs)
  <2>1. ~PassStep /\ ~Quit /\ ~Unlock
    BY PassTasks
  <2>2. ~Stacks
    <3>1. ASSUME Stacks
          PROVE  FALSE
      <4>1. Do("patlist") \in Rest
        <5>1. Do("patlist")[1] \in Comers
          BY DEF Do, Comers
        <5> QED BY <1>2, <3>1, <5>1 DEF Stacks, Has
      <4> QED BY <1>0, <3>1, <4>1, HeadOnly DEF Stacks
    <3> QED BY <3>1
  <2>3. Same
    BY <2>1, <2>2, StackStep
  <2>4. currTs /\ Has("pmts")
    BY <1>0, <2>3 DEF Listed, Same
  <2>5. ~LeaveTs
    <3>1. LeaveTs => Pops("leave", {Do("next")})
      BY <1>0, SimplePops
    <3>2. Pops("leave", {Do("next")}) => Do("patlist") \in Rest
      <4>1. Do("patlist") # <<"leave", Of>>
        BY DEF Do
      <4>2. Has("patlist")
        BY <2>3 DEF Same
      <4> QED BY <4>1, <4>2 DEF Pops, Heads, Has
    <3>3. LeaveTs => agenda # << >>
      BY <3>1 DEF Pops, Heads
    <3> QED BY <1>0, <3>1, <3>2, <3>3, HeadOnly
  <2>6. currTs'
    BY <2>4, <2>5, FrequencyUntouched DEF LockedForTs
  <2> QED BY <2>3, <2>4, <2>6 DEF Same
<1> QED BY <1>1, <1>2

\* What has a program yet to ask for goes on to do so, or waits for a PMT.
LEMMA ProgsWaited ==
    ASSUME Inv, Orderly, Stepping, Regular', currTs, pats # NoList, ~RequestSlot,
           "pmt" \in recv \/ Has("pmts") \/ Slotting
    PROVE  "pmt" \in recv' \/ Has("pmts")' \/ Slotting'
<1>0. Listed /\ Agenda /\ TypeOK
  BY OrderlyParts
<1>1. "pmt" \in recv => "pmt" \in recv'
  BY <1>0, RecvMoves
<1>2. CASE Has("pmts")
  <2>1. agenda # << >>
    BY <1>2, NoRange DEF Has, Pending
  <2>2. Same \/ Stacks
    BY <1>2, PassTasks, StackStep
  <2>3. CASE Do("pmts") \in Rest
    BY <1>2, <2>2, <2>3 DEF Same, Stacks, Has
  <2>4. CASE Head(agenda) = Do("pmts")
    <3>1. Head(agenda)[1] = "pmts"
      BY <2>4 DEF Do
    <3>2. CASE RequestPmts
      <4>1. Pops("pmts", {<<"slot", 1>>})
        BY <1>0, <3>2, SlotPops
      <4>2. Waits("slot", 1)' /\ 1 \in 1 .. Len(Slots)
        <5>1. 1 \in 1 .. Len(Slots)
          BY SlotIsTable
        <5> QED BY <4>1, <5>1 DEF Pops, Waits, For
      <4> QED BY <4>2 DEF Slotting
    <3>3. CASE Same
      BY <1>2, <3>3 DEF Same
    <3> QED BY <2>1, <3>1, <3>2, <3>3, HeadNow
  <2> QED BY <1>0, <1>2, <2>1, <2>3, <2>4, HeadOnly DEF Has
<1>3. CASE Slotting
  <2>1. PICK i \in 1 .. Len(Slots) : <<"slot", i>> \in Pending
    BY <1>3 DEF Slotting, Waits, For
  <2>2. agenda # << >>
    BY <2>1, NoRange DEF Pending
  <2>3. Head(agenda) = <<"slot", i>>
    BY <1>0, <2>1, <2>2, HeadOnly
  <2>4. Head(agenda)[1] = "slot"
    BY <2>3
  <2>5. CASE SkipSlot
    <3>1. fid[Slot] # NoFid /\ Slot \in SlotSet
      BY <1>0, <2>5, SlotOf DEF SkipSlot
    <3> QED BY <1>0, <1>1, <3>1 DEF Listed
  <2>6. CASE Same
    BY <1>3, <2>6 DEF Same
  <2> QED BY <2>2, <2>4, <2>5, <2>6, HeadNow
<1> QED BY <1>1, <1>2, <1>3

LEMMA ProgsListed ==
    ASSUME Inv, Orderly, Stepping, Regular', curPat' \/ prog' # NoList
    PROVE  /\ currTs' /\ pats' # NoList
           /\ "pmt" \in recv' \/ Has("pmts")' \/ Slotting'
<1>0. Listed /\ Asked /\ Heard /\ Agenda /\ TypeOK /\ Current
  BY OrderlyParts
<1>1. CASE PatList
  <2>1. At("patlist") /\ curPat' = (pats # NoList) /\ UNCHANGED <<pats, prog, currTs>>
    BY <1>1 DEF PatList, scanVars
  <2>2. Pops("patlist", {})
    BY <1>0, <1>1, SimplePops
  <2>3. Has("patlist")
    <3>1. <<"patlist", Of>> \in ScanTasks /\ <<"patlist", Of>>[1] = "patlist" /\ <<"patlist", Of>>[2] = Of
      BY <2>2 DEF Pops, Heads
    <3>2. Of = "none"
      BY <3>1, TaskType DEF Calls
    <3> QED BY <2>2, <3>2 DEF Pops, Heads, Has, Do
  <2>4. currTs /\ Has("pmts")
    BY <1>0, <2>3 DEF Listed
  <2>5. Has("pmts")'
    <3>1. Do("pmts") # <<"patlist", Of>>
      BY DEF Do
    <3> QED BY <2>2, <2>4, <3>1 DEF Pops, Heads, Has
  <2>6. pats # NoList
    BY <1>0, <2>1 DEF Listed
  <2> QED BY <2>1, <2>4, <2>5, <2>6
<1>2. CASE RequestSlot
  <2>1. UNCHANGED <<pats, currTs>> /\ curPat' = (curPat /\ prog > 0)
    BY <1>2 DEF RequestSlot, scanVars
  <2>2. currTs
    <3>1. Slotting
      BY <1>0, <1>2, AtHas DEF RequestSlot
    <3> QED BY <1>0, <3>1 DEF Current, Slotting
  <2>3. prog \in Int /\ (prog > 0 => prog - 1 # NoList)
    BY <1>0, PlanTyped, TypeParts DEF TypeOK, NoList
  <2>4. NextProg # NoList
    <3>1. NextProg = NoList => prog' = NoList
      BY <1>2 DEF RequestSlot
    <3>2. prog > 0 => NextProg = prog - 1
      BY DEF NextProg
    <3> QED BY <2>1, <2>3, <3>1, <3>2
  <2>5. "pmt" \in recv'
    <3>1. Allocated(Slot) /\ Flag(Slot) = "pmt"
      BY <1>0, <1>2, <2>4, Decoded, SlotOf DEF RequestSlot
    <3> QED BY <3>1 DEF Allocated
  <2>6. pats # NoList
    <3>1. prog > 0 => prog # NoList
      BY DEF NoList
    <3>2. prog > 0 \/ curPat
      BY <2>4 DEF NextProg
    <3> QED BY <1>0, <3>1, <3>2 DEF Listed
  <2> QED BY <2>1, <2>2, <2>5, <2>6
<1>3. CASE ~PatList /\ ~RequestSlot
  <2>1. curPat' = curPat /\ prog' = prog
    BY <1>3, ProgsUntouched
  <2>2. currTs /\ pats # NoList /\ ("pmt" \in recv \/ Has("pmts") \/ Slotting)
    BY <1>0, <2>1 DEF Listed, Slotting
  <2>3. ~LeaveTs
    <3> SUFFICES ASSUME LeaveTs
                 PROVE  FALSE
      OBVIOUS
    <3>1. Has("leave")
      BY GoSteps
    <3>2. Leaving
      BY <1>0, <2>2, <3>1 DEF Leaving, Current
    <3>3. \A x \in Pending : x[1] \in {"free", "ts", "window", "leave", "wait"}
      BY <1>0, <2>2, <3>2 DEF Asked
    <3>4. ~Has("pmts") /\ ~Slotting
      <4>1. Do("pmts")[1] = "pmts" /\ \A i : For("slot", i)[1] = "slot"
        BY DEF Do, For
      <4> QED BY <3>3, <4>1 DEF Has, Slotting, Waits
    <3> QED BY <1>0, <2>2, <3>2, <3>4 DEF Current
  <2>4. ~LockedForTs
    <3>1. LockedForTs => Has("status")
      BY <1>0, AtHas DEF LockedForTs, Tracked
    <3> QED BY <1>0, <2>2, <3>1 DEF Current
  <2>5. currTs' /\ pats' # NoList
    BY <2>2, <2>3, <2>4, FrequencyUntouched, ProgsUntouched
  <2> QED BY <1>3, <2>2, <2>5, ProgsWaited
<1> QED BY <1>1, <1>2, <1>3

LEMMA ListedKept ==
    ASSUME Inv, Orderly, Stepping, Regular'
    PROVE  Listed'
<1>1. (\A t \in SlotSet : fid[t] # NoFid => "pmt" \in recv)'
  BY SlotsWaited
<1>2. (Has("patlist") => currTs /\ Has("pmts"))'
  BY ListAsked
<1>3. (curPat \/ prog # NoList =>
          /\ currTs /\ pats # NoList
          /\ "pmt" \in recv \/ Has("pmts") \/ \E i \in 1 .. Len(Slots) : Waits("slot", i))'
  BY ProgsListed DEF Slotting
<1> QED BY <1>1, <1>2, <1>3 DEF Listed

-----------------------------------------------------------------------------
(* A PAT or an SDT that comes when its stream is left. *)

LEMMA AtDo ==
    ASSUME Agenda, NEW op \in (Calls \ {"pmts"}) \cup (Finals \ {"check"}), At(op)
    PROVE  Has(op) /\ Do(op) \notin Rest
<1>1. Heads(op)
  BY HeadTask
<1>2. <<op, Of>> \in ScanTasks /\ <<op, Of>>[1] = op /\ <<op, Of>>[2] = Of
  BY <1>1 DEF Heads
<1>3. Of = "none"
  BY <1>2, TaskType
<1>4. op \notin Behind(op)
  <2>1. CASE op \in Finals
    BY <2>1, BehindOf
  <2>2. CASE op \in {"window", "stop", "free all", "blind", "fend"}
    BY <2>2, BehindOf DEF Later, Events
  <2>3. CASE op \in Plain /\ op \in Calls \ {"pmts"}
    BY <2>3, BehindOf DEF Later, Calls, Plain
  <2> QED BY <2>1, <2>2, <2>3 DEF Plain, Calls
<1>5. Do(op)[1] = op
  BY DEF Do
<1> QED BY <1>1, <1>3, <1>4, <1>5 DEF Heads, Has, Do

LEMMA FendNow ==
    ASSUME Inv, Stepping, At("fend")
    PROVE  FendEvent \/ UNCHANGED vars
<1>1. ScannerStep => FendEvent
  BY DEF ScannerStep, Check, Recheck, Complete, Wait, Woken, TimedOut, Clear, Window, Resume,
        Free, NothingToFree, Synced, Request, FreeSlot, RequestPmts, RequestSlot, SkipSlot,
        PatDone, PatList, SdtDone, NitDoneInTs, NitMissing, NitFound, Freed, TryNit, StartTs, Resumed,
        LeaveTs, NextFreq, Tune, NotLocked, LockedForNit, LockedForTs, Begin,
        StartBlind, BlindDone, NextBlind, Joined,
        Quit, StopBlind, Stop, Unlock, At
<1>2. ~Unsubscribe
  BY DEF Unsubscribe, At
<1>3. SectionRead \/ SectionHandled \/ FendStatus \/ FendCallback
      \/ BlindReport \/ BlindCallback \/ BlindEnds \/ AppStart \/ AppPause
      \/ Destroy \/ DestroyQuit \/ DestroyReturn \/ Terminated \/ UNCHANGED vars
      => UNCHANGED vars
  BY DEF SectionRead, SectionHandled, SectionIgnored, SectionUndecoded, SectionCollected, FendStatus, FendCallback,
        BlindReport, BlindCallback, BlindEnds, AppStart, AppPause, Destroy, DestroyQuit,
        DestroyReturn, Terminated, Outside, LockFree, LockFreeStates, At
<1> QED BY <1>1, <1>2, <1>3 DEF Stepping, Next

\* While the thread runs the others do nothing.
LEMMA RunsAlone ==
    ASSUME Apart, spc = "run"
    PROVE  UNCHANGED vars
BY DEF Apart, OutsideStep, SectionRead, SectionIgnored, SectionUndecoded, SectionCollected, FendStatus,
      FendCallback, BlindReport, BlindCallback, BlindEnds, AppStart, AppPause, Destroy, DestroyQuit,
      DestroyReturn, Terminated, Outside, LockFree, LockFreeStates

LEMMA LeftNow ==
    ASSUME Inv, Orderly, Stepping, Regular', LeaveTs, currTs
    PROVE  Left'
<1>0. Heard /\ Asked /\ Agenda /\ TypeOK /\ Current
  BY OrderlyParts
<1>1. Pops("leave", {Do("next")}) /\ Has("leave") /\ Goes("next")
  BY <1>0, SimplePops, GoSteps
<1>2. Leaving
  BY <1>0, <1>1 DEF Current, Leaving
<1>3. UNCHANGED <<tuned, curr, recv>>
  BY DEF LeaveTs, fendVars, Untouched
<1>4. recv = {}
  BY <1>0, <1>2 DEF Current
<1>5. Has("wait") /\ \A x \in Pending : x[1] \in {"free", "ts", "window", "leave", "wait"}
  BY <1>0, <1>2 DEF Asked
<1>6. \A x \in Rest : x[1] = "wait"
  <2>1. \A x \in Rest : x \in Pending /\ x[1] \in Later
    <3>1. Behind("leave") = Later
      BY BehindOf DEF Plain, Calls
    <3> QED BY <1>1, <3>1 DEF Pops, Heads
  <2> QED BY <1>5, <2>1 DEF Later
<1>7. Has("wait")'
  <2>1. Do("wait") # <<"leave", Of>>
    BY DEF Do
  <2> QED BY <1>1, <1>5, <2>1 DEF Pops, Heads, Has
<1>8. \A x \in Pending' : x[1] \in {"next", "tune", "wait"}
  <2>1. Do("next")[1] = "next"
    BY DEF Do
  <2> QED BY <1>1, <1>6, <2>1 DEF Pops
<1>9. tuned' <= curr' /\ "fend" \notin recv'
  <2>1. tuned = curr /\ curr \in Int
    BY <1>0 DEF Heard, TypeOK, NoList
  <2>2. curr <= curr
    BY <2>1
  <2> QED BY <1>3, <1>4, <2>1, <2>2
<1>10. ~Has("tune")'
  BY <1>1 DEF Goes, Going
<1> QED BY <1>7, <1>8, <1>9, <1>10 DEF Left

LEMMA UntroubledKept ==
    ASSUME Inv, Orderly, Stepping, Regular', Untroubled, ~currTs, ~LockedForTs
    PROVE  (Untroubled \/ Doomed)'
<1>0. Agenda /\ Current /\ TypeOK
  BY OrderlyParts
<1>1. \A t \in PatSdt : t \notin evt'
  <2> SUFFICES ASSUME NEW t \in PatSdt, t \in evt'
               PROVE  FALSE
    OBVIOUS
  <2>1. t \in Single /\ t \in Tables /\ t # "nit"
    BY PatSdtTables
  <2>2. fid[t] # NoFid
    BY <2>1, EvtMoves DEF Untroubled
  <2> QED BY <1>0, <2>1, <2>2 DEF Current
<1>2. CASE ~Check
  <2>1. \A t \in PatSdt : ~Waits("done", t)'
    <3> SUFFICES ASSUME NEW t \in PatSdt, Waits("done", t)'
                 PROVE  FALSE
      OBVIOUS
    <3>1. t \in Single
      BY PatSdtTables
    <3> QED BY <1>2, <3>1, DoneMoves DEF Untroubled
  <2> QED BY <1>1, <2>1 DEF Untroubled
<1>3. CASE Check /\ \E t \in PatSdt : Waits("done", t)'
  <2>1. ~Has("status")'
    <3>1. Only({})' /\ "status" \in Tracked
      BY <1>0, <1>3, CheckRuns DEF Tracked
    <3> QED BY <3>1 DEF Only
  <2>2. ~Has("fend")'
    <3>p. /\ \A x, t : x # "fend" => Do("fend") # For(x, t)
          /\ \A x : x # "fend" => Do("fend") # Do(x)
          /\ \A i : Do("fend") # <<"check", i>>
      BY DEF Do, For
    <3>1. \A j : Do("fend") \notin LateTasks(j)
      BY <3>p DEF LateTasks, DoneTasks
    <3>2. Do("fend") # Do("complete")
      BY <3>p
    <3> QED BY <1>0, <1>3, <3>1, <3>2, CheckPops DEF Has
  <2> QED BY <1>3, <2>1, <2>2 DEF Doomed
<1>4. CASE Check /\ \A t \in PatSdt : ~Waits("done", t)'
  BY <1>1, <1>4 DEF Untroubled
<1> QED BY <1>2, <1>3, <1>4

LEMMA DoomedKept ==
    ASSUME Inv, Orderly, Stepping, Regular', Doomed, ~currTs, spc' # "crashed"
    PROVE  Doomed'
<1>0. Agenda /\ Current /\ TypeOK /\ started \in BOOLEAN
  BY OrderlyParts, InvParts
<1>1. PICK t \in PatSdt : Waits("done", t)
  BY DEF Doomed
<1>t. t \in Tables /\ t \in Single /\ t # "nit"
  BY <1>1, PatSdtTables
<1>2. ~PassStep /\ ~Quit /\ ~Unlock
  <2>1. ~NoTasks
    BY <1>1, <1>t DEF NoTasks
  <2>2. (PatDone \/ SdtDone) /\ ~currTs => spc' = "crashed"
    BY <1>0, PassRuns
  <2>3. ~Check /\ ~Complete /\ ~Wait /\ ~Woken /\ ~TimedOut /\ ~Clear /\ ~Quit /\ ~Unlock
    BY <1>0, <2>1, CheckRuns, CompleteRuns, PassRuns, QuitRuns
  <2> QED BY <2>2, <2>3 DEF PassStep
<1>3. Same \/ Stacks
  BY <1>2, StackStep
<1>4. agenda # << >>
  BY <1>1, NoRange DEF Waits, Pending
<1>5. Waits("done", t)'
  <2>1. CASE Same
    BY <1>1, <2>1 DEF Same
  <2>2. CASE Stacks /\ For("done", t) \in Rest
    BY <2>2 DEF Stacks, Waits
  <2>3. CASE ~Same /\ For("done", t) = Head(agenda)
    <3>1. Head(agenda)[1] = "done" /\ Of = t
      BY <2>3 DEF For, Of
    <3>2. PatDone \/ SdtDone \/ NitDoneInTs \/ NitMissing \/ NitFound
      BY <1>4, <2>3, <3>1, HeadNow
    <3>3. PatDone \/ SdtDone
      BY <1>t, <3>1, <3>2 DEF NitDoneInTs, NitMissing, NitFound, Freed
    <3> QED BY <1>2, <3>3 DEF PassStep
  <2> QED BY <1>0, <1>1, <1>3, <1>4, <2>1, <2>2, <2>3, HeadOnly DEF Waits
<1>6. ~Has("status")'
  <2>1. FendEvent => Has("fend")
    BY <1>0, AtDo DEF FendEvent, Calls
  <2> QED BY <2>1, GoingMoves DEF Doomed
<1>7. ASSUME Has("fend")'
      PROVE  (At("fend") /\ ~FendExpected)'
  <2>1. CASE Stacks
    <3>1. Do("fend") \in Rest
      <4>1. Do("fend")[1] \in Comers /\ Do("fend") # Do("patlist")
        BY DEF Do, Comers
      <4> QED BY <1>7, <2>1, <4>1 DEF Stacks, Has
    <3>2. Has("fend")
      BY <1>0, <1>4, <3>1, RestOf DEF Has
    <3>3. At("fend")
      BY <3>2 DEF Doomed
    <3> QED BY <1>0, <3>1, <3>3, AtDo DEF Calls
  <2>2. CASE Same
    <3>1. Has("fend")
      BY <1>7, <2>2 DEF Same
    <3>2. At("fend") /\ ~FendExpected
      BY <3>1 DEF Doomed
    <3>3. CASE FendEvent
      <4>1. Pops("fend", {})
        <5>1. Pops("fend", IF FendExpected THEN {Do("status")} ELSE {})
          BY <1>0, <3>3, TunePops
        <5> QED BY <3>2, <5>1
      <4>2. Do("fend") \notin Rest
        BY <1>0, <3>2, AtDo DEF Calls
      <4> QED BY <1>7, <4>1, <4>2 DEF Pops, Has
    <3>4. CASE UNCHANGED vars
      <4>1. UNCHANGED <<spc, agenda, curr, cnt, recv, feEvt>>
        BY <3>4 DEF vars, dataVars, scanVars, threadVars, outerVars, fendVars
      <4> QED BY <3>2, <4>1 DEF At, FendExpected
    <3> QED BY <3>2, <3>3, <3>4, FendNow
  <2> QED BY <1>3, <2>1, <2>2
<1> QED BY <1>1, <1>5, <1>6, <1>7 DEF Doomed

LEMMA LeftTunes ==
    ASSUME Inv, Orderly, Stepping, Regular', Left, NextFreq \/ Tune
    PROVE  Left'
<1>0. Heard /\ Agenda /\ TypeOK /\ Current
  BY OrderlyParts
<1>n. curr \in Int /\ tuned \in Int /\ cnt \in Int
  BY <1>0 DEF TypeOK, NoList
<1>d. Do("wait")[1] = "wait" /\ Do("next")[1] = "next" /\ Do("tune")[1] = "tune"
  BY DEF Do
<1>s. Still' => ~Has("next")' /\ ~Has("tune")'
  BY DEF Still, Going
<1>g. (Goes("next") => Has("next")' /\ ~Has("tune")') /\ (Goes("tune") => Has("tune")' /\ ~Has("next")')
  BY DEF Goes, Going
<1>1. CASE NextFreq
  <2>1. Pops("next", IF curr + 1 >= cnt THEN {} ELSE {Do("tune")}) /\ Has("next") /\ "fend" \notin recv
    BY <1>0, <1>1, TunePops, GoSteps DEF Heard
  <2>2. Has("wait")' /\ \A x \in Pending' : x[1] \in {"next", "tune", "wait"}
    <3>1. Do("wait") # <<"next", Of>>
      BY <1>d
    <3> QED BY <1>d, <2>1, <3>1 DEF Left, Pops, Heads, Has
  <2>3. tuned' = tuned /\ recv' = recv
    BY <1>1 DEF NextFreq, fendVars
  <2>4. ~Has("next")'
    BY <1>1, <1>s, <1>g, GoSteps
  <2>5. Has("tune")' => tuned' < curr'
    <3>1. CASE curr + 1 >= cnt
      BY <1>1, <1>s, <3>1, GoSteps
    <3>2. CASE ~(curr + 1 >= cnt)
      <4>1. curr' = curr + 1
        BY <1>1, <3>2 DEF NextFreq
      <4>2. tuned <= curr
        BY <2>1 DEF Left
      <4>3. tuned < curr + 1
        BY <1>n, <4>2
      <4> QED BY <2>3, <4>1, <4>3
    <3> QED BY <3>1, <3>2
  <2> QED BY <2>1, <2>2, <2>3, <2>4, <2>5 DEF Left
<1>2. CASE Tune
  <2>0. Has("tune") /\ tuned < curr /\ curr >= 0 /\ "fend" \notin recv
    BY <1>0, <1>2, GoSteps DEF Left, Heard
  <2>1. Pops("tune", {}) \/ Pops("tune", {Do("next")})
    BY <1>0, <1>2, TunePops
  <2>2. Has("wait")' /\ \A x \in Pending' : x[1] \in {"next", "tune", "wait"}
    <3>1. Do("wait") # <<"tune", Of>>
      BY <1>d
    <3> QED BY <1>d, <2>1, <3>1 DEF Left, Pops, Heads, Has
  <2>3. curr' = curr /\ feEvt' = feEvt
    BY <1>2 DEF Tune, scanVars
  <2>4. CASE Still' /\ tuned' = curr /\ recv' = recv \cup {"fend"}
    <3>1. spc' = "run"
      <4>1. "fend" \in recv' /\ recv' # recv
        BY <2>0, <2>4
      <4> QED BY <1>2, <4>1 DEF Tune, Return, Then
    <3>2. feEvt.freq # curr
      <4>1. feEvt.freq \in {NoList, tuned}
        BY <1>0, <2>0 DEF Heard
      <4> QED BY <1>n, <2>0, <4>1 DEF NoList
    <3> QED BY <1>s, <2>2, <2>3, <2>4, <3>1, <3>2 DEF Left
  <2>5. CASE Goes("next") /\ UNCHANGED <<recv, tuned>>
    <3>1. tuned' <= curr'
      BY <1>n, <2>0, <2>3, <2>5
    <3> QED BY <1>g, <2>0, <2>2, <2>5, <3>1 DEF Left
  <2> QED BY <1>2, <2>4, <2>5, GoSteps
<1> QED BY <1>1, <1>2

LEMMA LeftStays ==
    ASSUME Inv, Orderly, Stepping, Regular', Left, SameStep \/ Unsubscribe \/ Apart
    PROVE  Left'
<1>0. Agenda
  BY OrderlyParts
<1>1. Same
  BY <1>0, SameRuns, ApartRuns DEF SameStep
<1>2. UNCHANGED <<tuned, curr, recv>>
  <2>1. SameStep \/ Unsubscribe => UNCHANGED <<tuned, curr, recv>>
    BY DEF SameStep, Resume, Free, Synced, Resumed, Joined, Unsubscribe, Untouched, dataVars, scanVars, fendVars
  <2>2. Apart => UNCHANGED <<tuned, curr, recv>>
    BY DEF Apart, OutsideStep, SectionRead, SectionIgnored, SectionUndecoded, SectionCollected, FendStatus,
          FendCallback, BlindReport, BlindCallback, BlindEnds, AppStart, AppPause, Destroy, DestroyQuit,
          DestroyReturn, Terminated, dataVars, scanVars, outerVars, fendVars, vars
  <2> QED BY <2>1, <2>2
<1>3. ASSUME "fend" \in recv
      PROVE  spc' = "run" /\ feEvt' = feEvt
  <2>1. spc = "run" /\ Has("wait") /\ \A x \in Pending : x[1] \in {"next", "tune", "wait"}
    BY <1>3 DEF Left
  <2>2. ~SameStep /\ ~Unsubscribe
    <3>1. ~At("done")
      <4>1. agenda # << >>
        BY <2>1, NoRange DEF Has, Pending
      <4>2. Head(agenda) \in Pending
        BY <1>0, <4>1, HeadOnly
      <4> QED BY <2>1, <4>2 DEF At
    <3> QED BY <2>1, <3>1 DEF SameStep, Resume, Synced, Resumed, Joined, Unsubscribe
  <2>3. UNCHANGED vars
    BY <2>1, <2>2, RunsAlone
  <2> QED BY <2>1, <2>3 DEF vars, threadVars, outerVars, fendVars
<1>4. Pending' = Pending /\ \A x : Has(x)' <=> Has(x)
  BY <1>1 DEF Same
<1>5. /\ \A x \in Pending' : x[1] \in {"next", "tune", "wait"}
      /\ Has("wait")'
  BY <1>4 DEF Left
<1>6. /\ Has("next")' => tuned' <= curr'
      /\ Has("tune")' => tuned' < curr'
  BY <1>2, <1>4 DEF Left
<1>7. "fend" \in recv' => spc' = "run" /\ feEvt'.freq # curr'
  BY <1>2, <1>3 DEF Left
<1> QED BY <1>5, <1>6, <1>7 DEF Left

LEMMA HeadConcat ==
    ASSUME NEW S, NEW s \in Seq(S), NEW u \in Seq(S), s # << >>
    PROVE  s \o u \in Seq(S) /\ s \o u # << >> /\ Head(s \o u) = Head(s)
<1>1. Len(s) \in Nat /\ Len(u) \in Nat /\ Len(s) > 0
  BY EmptySeq, LenProperties
<1>2. s \o u \in Seq(S) /\ Len(s \o u) = Len(s) + Len(u)
  BY ConcatProperties
<1>3. Len(s \o u) > 0 /\ s \o u # << >>
  BY <1>1, <1>2
<1>4. (s \o u)[1] = s[1]
  BY <1>1, ConcatProperties
<1> QED BY <1>2, <1>3, <1>4

\* The event of the frontend is handled before those of the tables.
LEMMA FendFirst ==
    ASSUME started = TRUE, NEW e, "fend" \in e
    PROVE  Head(Handle(e)) = Do("fend")
<1> DEFINE s1 == If("start" \in e /\ ~started, <<Do("window"), Do("begin")>>)
           s2 == If("fend" \in e, <<Do("fend")>>)
           s3 == If("pat" \in e, Done("pat"))
           s4 == If("pmt" \in e, Done(Slots[1]))
           s5 == If("sdt" \in e, Done("sdt"))
           s6 == If("nit" \in e, Done("nit"))
           s7 == If("blind" \in e, <<Do("blind")>>)
           s8 == <<IF "quit" \in e THEN Do("quit") ELSE Do("clear")>>
           w == s1 \o s2
<1>1. Handle(e) = w \o s3 \o s4 \o s5 \o s6 \o s7 \o s8
  BY DEF Handle
<1>2. w = <<Do("fend")>>
  <2>1. s1 = << >> /\ s2 = <<Do("fend")>>
    BY DEF If
  <2>2. \A x : << >> \o <<x>> = <<x>>
    OBVIOUS
  <2> HIDE DEF s1, s2
  <2> QED BY <2>1, <2>2
<1>3. Do("fend") \in ScanTasks /\ Do("blind") \in ScanTasks /\ Do("quit") \in ScanTasks /\ Do("clear") \in ScanTasks
  BY TasksTyped DEF Calls, Finals
<1>4. \A t \in Tables : Done(t) \in Seq(ScanTasks)
  BY DoneFits DEF Fits
<1>5. /\ w \in Seq(ScanTasks) /\ w # << >> /\ Head(w) = Do("fend")
      /\ s7 \in Seq(ScanTasks) /\ s8 \in Seq(ScanTasks)
  BY <1>2, <1>3 DEF If
<1>6. /\ s3 \in Seq(ScanTasks) /\ s4 \in Seq(ScanTasks) /\ s5 \in Seq(ScanTasks) /\ s6 \in Seq(ScanTasks)
  <2>1. "pat" \in Tables /\ "sdt" \in Tables /\ "nit" \in Tables /\ Slots[1] \in Tables
    BY SlotIsTable DEF Tables
  <2>2. << >> \in Seq(ScanTasks)
    OBVIOUS
  <2>3. \A c \in BOOLEAN : \A t \in Tables : If(c, Done(t)) \in Seq(ScanTasks)
    BY <1>4, <2>2 DEF If
  <2> DEFINE c3 == "pat" \in e
             c4 == "pmt" \in e
             c5 == "sdt" \in e
             c6 == "nit" \in e
  <2>4. c3 \in BOOLEAN /\ c4 \in BOOLEAN /\ c5 \in BOOLEAN /\ c6 \in BOOLEAN
    OBVIOUS
  <2> HIDE DEF c3, c4, c5, c6
  <2>5. /\ If(c3, Done("pat")) \in Seq(ScanTasks) /\ If(c4, Done(Slots[1])) \in Seq(ScanTasks)
        /\ If(c5, Done("sdt")) \in Seq(ScanTasks) /\ If(c6, Done("nit")) \in Seq(ScanTasks)
    BY <2>1, <2>3, <2>4
  <2> QED BY <2>5 DEF c3, c4, c5, c6
<1> HIDE DEF s1, s2, s3, s4, s5, s6, s7, s8, w
<1>7. w \o s3 \in Seq(ScanTasks) /\ w \o s3 # << >> /\ Head(w \o s3) = Do("fend")
  BY <1>5, <1>6, HeadConcat
<1>8. w \o s3 \o s4 \in Seq(ScanTasks) /\ w \o s3 \o s4 # << >> /\ Head(w \o s3 \o s4) = Do("fend")
  BY <1>6, <1>7, HeadConcat
<1>9. w \o s3 \o s4 \o s5 \in Seq(ScanTasks) /\ w \o s3 \o s4 \o s5 # << >> /\ Head(w \o s3 \o s4 \o s5) = Do("fend")
  BY <1>6, <1>8, HeadConcat
<1>10. /\ w \o s3 \o s4 \o s5 \o s6 \in Seq(ScanTasks) /\ w \o s3 \o s4 \o s5 \o s6 # << >>
       /\ Head(w \o s3 \o s4 \o s5 \o s6) = Do("fend")
  BY <1>6, <1>9, HeadConcat
<1>11. /\ w \o s3 \o s4 \o s5 \o s6 \o s7 \in Seq(ScanTasks) /\ w \o s3 \o s4 \o s5 \o s6 \o s7 # << >>
       /\ Head(w \o s3 \o s4 \o s5 \o s6 \o s7) = Do("fend")
  BY <1>5, <1>10, HeadConcat
<1>12. Head(w \o s3 \o s4 \o s5 \o s6 \o s7 \o s8) = Do("fend")
  BY <1>5, <1>11, HeadConcat
<1> QED BY <1>1, <1>12

\* After the tuning the events are handled that came before: a PAT or an SDT
\* is then handled before the frontend's answer is.
LEMMA LeftHandled ==
    ASSUME Inv, Orderly, Stepping, Regular', Left, ~currTs, Wait
    PROVE  (Untroubled \/ Doomed)'
<1>0. Agenda /\ Heard /\ TypeOK /\ started \in BOOLEAN
  BY OrderlyParts, InvParts
<1>1. UNCHANGED <<evt, curr, cnt, recv, feEvt>>
  BY DEF Wait, Untouched, dataVars, scanVars, fendVars
<1>2. CASE \A t \in PatSdt : t \notin evt
  <2>1. \A t \in PatSdt : ~Waits("done", t)'
    <3> SUFFICES ASSUME NEW t \in PatSdt, Waits("done", t)'
                 PROVE  FALSE
      OBVIOUS
    <3>1. t \in Tables
      BY PatSdtTables
    <3>2. evt # {}
      BY <1>0, <3>1, PassRuns DEF NoTasks
    <3>3. t \in evt
      BY <1>0, <3>1, <3>2, PassRuns DEF HandlesNext
    <3> QED BY <1>2, <3>3
  <2> QED BY <1>1, <1>2, <2>1 DEF Untroubled
<1>3. CASE \E t \in PatSdt : t \in evt
  <2>0. PICK t \in PatSdt : t \in evt
    BY <1>3
  <2>1. started = TRUE
    <3>1. ~started => evt \subseteq {"start", "quit"}
      BY DEF Inv, NotStarted
    <3> QED BY <1>0, <2>0, <3>1 DEF PatSdt
  <2>2. Pending' = HandleTasks(evt) /\ spc' = "run" /\ HandlesNext(evt)
    BY <1>0, <2>0, EventPops, PassRuns
  <2>3. Waits("done", t)'
    <3>1. For("done", t) \in HandleTasks(evt)
      BY <2>0 DEF HandleTasks, PatSdt
    <3> QED BY <2>2, <3>1 DEF Waits
  <2>4. ~Has("status")'
    BY <2>2 DEF HandlesNext, Tracked
  <2>5. ASSUME Has("fend")'
        PROVE  (At("fend") /\ ~FendExpected)'
    <3>1. "fend" \in evt
      <4>1. /\ \A x, u : x # "fend" => Do("fend") # For(x, u)
            /\ \A x : x # "fend" => Do("fend") # Do(x)
        BY DEF Do, For
      <4>2. "fend" \notin evt => Do("fend") \notin HandleTasks(evt)
        BY <4>1 DEF HandleTasks
      <4> QED BY <2>2, <2>5, <4>2 DEF Has
    <3>2. agenda' = Handle(evt)
      BY <2>0 DEF Wait
    <3>3. Head(agenda') = Do("fend")
      BY <2>1, <3>1, <3>2, FendFirst
    <3>4. At("fend")'
      BY <2>2, <3>3 DEF At, Do
    <3>5. ~FendExpected
      BY DEF Left, FendExpected
    <3>6. ~FendExpected'
      BY <1>1, <3>5 DEF FendExpected
    <3> QED BY <3>4, <3>6
  <2> QED BY <2>0, <2>3, <2>4, <2>5 DEF Doomed
<1> QED BY <1>2, <1>3

\* While the next frequency is looked for, each step is one of that search.
LEMMA LeftMoves ==
    ASSUME Inv, Orderly, Stepping, Regular', Left
    PROVE  SameStep \/ Unsubscribe \/ Apart \/ NextFreq \/ Tune \/ Wait
<1>0. Agenda
  BY OrderlyParts
<1>1. CASE Has("next")
  BY <1>1, LeavesFirst DEF Leaves
<1>2. CASE Has("tune")
  BY <1>2, LeavesFirst DEF Leaves
<1>3. CASE ~Has("next") /\ ~Has("tune")
  <2>1. agenda # << >>
    BY NoRange DEF Left, Has, Pending
  <2>2. Head(agenda) \in Pending /\ Head(agenda) \in ScanTasks
    BY <1>0, <2>1, HeadOnly, Split DEF Agenda
  <2>3. Head(agenda)[1] \in {"next", "tune", "wait"}
    BY <2>2 DEF Left
  <2>4. Head(agenda)[2] = "none" /\ Head(agenda) = <<Head(agenda)[1], Head(agenda)[2]>>
    BY <2>2, <2>3, TaskType DEF Calls, Finals
  <2>5. Head(agenda) = Do(Head(agenda)[1])
    BY <2>4 DEF Do
  <2>6. Head(agenda)[1] = "wait"
    BY <1>3, <2>2, <2>3, <2>5 DEF Has
  <2> QED BY <2>1, <2>6, HeadNow
<1> QED BY <1>1, <1>2, <1>3

LEMMA OverdueKept ==
    ASSUME Inv, Orderly, Stepping, Regular'
    PROVE  Overdue'
<1>0. Overdue /\ Agenda /\ Asked
  BY OrderlyParts
<1> SUFFICES ASSUME ~currTs', spc' # "crashed"
             PROVE  (Untroubled \/ Doomed \/ Left)'
  BY DEF Overdue
<1>1. spc # "crashed"
  <2>1. spc = "crashed" => UNCHANGED spc
    BY CrashedApart, ApartRuns
  <2> QED BY <2>1
<1>2. CASE currTs
  <2>1. LeaveTs \/ LockedForTs
    BY <1>2, FrequencyUntouched
  <2>2. ~LockedForTs
    BY DEF LockedForTs
  <2> QED BY <1>2, <2>1, <2>2, LeftNow
<1>3. CASE ~currTs
  <2>1. Untroubled \/ Doomed \/ Left
    BY <1>0, <1>1, <1>3 DEF Overdue
  <2>2. ~LockedForTs
    BY DEF LockedForTs
  <2>3. CASE Left
    BY <1>3, <2>3, LeftMoves, LeftStays, LeftTunes, LeftHandled
  <2> QED BY <1>3, <2>1, <2>2, <2>3, UntroubledKept, DoomedKept
<1> QED BY <1>2, <1>3

-----------------------------------------------------------------------------
(* A frequency is left with its answer. *)

LEMMA CompleteAnswered ==
    ASSUME Inv, Orderly, Stepping, Regular', Complete
    PROVE  answered'
<1>0. Asked /\ Listed /\ Agenda /\ TypeOK
  BY OrderlyParts
<1>1. stage = "ts" /\ recv = {} /\ spc = "run" /\ answered' = TablesAnswered
  BY DEF Complete, At
<1>2. Pending = {<<"complete", Of>>}
  <2>1. At("complete") /\ "complete" \in Finals
    BY DEF Complete, Finals
  <2> QED BY <1>0, <2>1, LastTask
<1>3. \A x \in Pending : x[1] = "complete"
  BY <1>2
<1>4. ~Leaving /\ ~Has("pmts") /\ ~Slotting /\ \A t : ~Waits("request", t)
  <2>1. \A op, t : Do(op)[1] = op /\ For(op, t)[1] = op
    BY DEF Do, For
  <2> QED BY <1>3, <2>1 DEF Leaving, Has, Waits, Slotting
<1>5. currTs
  BY <1>0, <1>1, <1>4 DEF Asked
<1>6. \A t \in {"pat", "sdt"} : got[t] = "all" \/ t \in expired
  BY <1>0, <1>1, <1>4, <1>5 DEF Asked, Coming, PatSdt
<1>7. ~curPat /\ prog = NoList
  BY <1>0, <1>1, <1>4 DEF Listed, Slotting
<1> QED BY <1>1, <1>6, <1>7 DEF TablesAnswered

LEMMA MissingAnswered ==
    ASSUME Inv, Orderly, Stepping, Regular', NitMissing, curr >= 0
    PROVE  answered'
<1>0. NitSought /\ Agenda /\ TypeOK
  BY OrderlyParts
<1>1. At("done") /\ Of = "nit" /\ stage # "ts" /\ ~nits /\ answered' = (answered \/ NitAnswered)
  BY DEF NitMissing, Freed
<1>2. "fend" \notin recv
  <2>1. "fend" \in recv => "again" \in mishaps'
    BY DEF NitMissing, Mishap
  <2> QED BY <2>1 DEF Regular
<1>3. Waits("done", "nit")
  <2>1. Heads("done")
    BY <1>0, <1>1, HeadTask
  <2> QED BY <1>1, <2>1 DEF Heads, Waits, For
<1>4. stage \in {"start", "nit"} /\ cnt > 0
  <2>1. curr = NoList \/ curr \in 0 .. cnt - 1 \/ "unlisted" \in mishaps
    BY <1>0 DEF TypeOK
  <2>2. cnt > 0 /\ stage \in {"start", "nit", "ts", "done"}
    BY <1>0, <2>1 DEF NoList, Regular, NitMissing, TypeOK
  <2>3. curr # NoList
    BY DEF NoList
  <2> QED BY <1>0, <1>1, <2>2, <2>3 DEF NitSought
<1>5. "nit" \in expired
  BY <1>0, <1>1, <1>3, <1>4 DEF NitSought
<1> QED BY <1>1, <1>2, <1>5 DEF NitAnswered

LEMMA AnsweredKept ==
    ASSUME Inv, Orderly, Stepping, Regular'
    PROVE  Answered'
<1>0. Answered /\ Heard /\ NitSought /\ Agenda /\ TypeOK /\ Current
  BY OrderlyParts
<1>g. {"next", "tune", "trynit", "leave", "ts"} \subseteq Going
  BY DEF Going
<1> SUFFICES ASSUME curr' >= 0, Has("trynit")' \/ Has("ts")' \/ Has("leave")' \/ Has("next")'
             PROVE  answered'
  BY DEF Answered
<1>1. ~Still' /\ ~Goes("tune")
  BY <1>g DEF Still, Goes
<1>2. ~NextFreq
  BY <1>1, GoSteps
<1>3. curr' # NoList
  BY DEF NoList
<1>4. curr' = curr
  BY <1>2, <1>3, ListMoves
<1>5. CASE Complete
  BY <1>5, CompleteAnswered
<1>6. CASE NitMissing
  BY <1>4, <1>6, MissingAnswered
<1>7. ~NitFound /\ ~Begin
  <2>1. Begin => curr' = NoList
    BY DEF Begin
  <2> QED BY <1>3, <2>1, ListMoves
<1>8. CASE Tune
  BY <1>1, <1>8, GoSteps
<1>9. CASE NotLocked
  <2>1. feEvt.freq = curr
    BY <1>0, <1>9, GoSteps DEF Heard
  <2> QED BY <1>9, <2>1 DEF NotLocked
<1>10. CASE ~Complete /\ ~NitMissing /\ ~Tune /\ ~NotLocked
  <2>1. answered' = answered
    BY <1>0, <1>7, <1>10, TuningUntouched
  <2>2. ~StartBlind
    <3>1. StartBlind => stage = "start"
      BY <1>0, GoSteps DEF Current
    <3>2. stage = "start" => curr = NoList
      BY <1>0 DEF NitSought
    <3> QED BY <1>3, <1>4, <3>1, <3>2
  <2>3. Has("trynit") \/ Has("ts") \/ Has("leave") \/ Has("next")
    BY <1>7, <1>10, <2>2, GoingMoves, GoSteps
  <2> QED BY <1>0, <1>4, <2>1, <2>3 DEF Answered
<1> QED BY <1>5, <1>6, <1>8, <1>9, <1>10

LEMMA OrderlyKept ==
    ASSUME Inv, Orderly, Stepping
    PROVE  Orderly'
<1>1. Regular' => Orderly'
  BY HeardKept, NitSoughtKept, AskedKept, OverdueKept, ListedKept, AnsweredKept DEF Orderly
<1>2. ~Regular' => Orderly'
  BY DEF Orderly
<1> QED BY <1>1, <1>2

LEMMA OrderlyHolds == Init => Orderly
<1> SUFFICES ASSUME Init
             PROVE  Heard /\ NitSought /\ Asked /\ Overdue /\ Listed /\ Answered
  BY DEF Orderly
<1>1. /\ agenda = <<Do("wait")>> /\ recv = {} /\ evt = {} /\ fevt = NoList /\ feEvt = NoStatus
      /\ currTs = FALSE /\ curr = NoList /\ stage = "start" /\ nits = FALSE /\ spc = "run"
      /\ curPat = FALSE /\ prog = NoList /\ fid = [t \in Tables |-> NoFid] /\ answered = TRUE
  BY DEF Init
<1>2. Pending = {Do("wait")}
  BY <1>1 DEF Pending, Range
<1>3. /\ \A op : Has(op) => op = "wait"
      /\ \A op, t : Waits(op, t) => op = "wait"
      /\ Pending \cap Unasked = {}
  BY <1>2 DEF Has, Waits, Do, For, Unasked
<1>4. ~Has("trynit") /\ ~Has("ts") /\ ~Has("leave") /\ ~Has("next") /\ ~Has("tune") /\ ~Has("status") /\ ~Has("patlist")
  BY <1>3
<1>5. Heard
  BY <1>1, <1>4 DEF Heard, NoStatus
<1>6. NitSought
  BY <1>1, <1>3, <1>4 DEF NitSought, Seeking
<1>7. Asked
  BY <1>1, <1>3 DEF Asked
<1>8. Overdue
  <2>1. Untroubled
    BY <1>1, <1>3 DEF Untroubled
  <2> QED BY <2>1 DEF Overdue
<1>9. Listed
  <2>1. \A t \in SlotSet : fid[t] = NoFid
    BY <1>1 DEF Tables
  <2> QED BY <1>1, <1>4, <2>1 DEF Listed
<1>10. Answered
  BY <1>1 DEF Answered
<1> QED BY <1>5, <1>6, <1>7, <1>8, <1>9, <1>10

-----------------------------------------------------------------------------
(* No table that is complete is overlooked. *)

\* What is asked for in the `done' function of a table, and a filter, were there before.
LEMMA AskedBefore ==
    ASSUME Inv, Stepping, NEW t \in Single, ~PassStep, ~Quit, ~Unlock,
           fid'[t] # NoFid \/ Waits("request", t)' \/ Has("status")' \/ Has("fend")'
    PROVE  /\ fid[t] # NoFid \/ Waits("request", t) \/ Has("status") \/ Has("fend")
           /\ At("done") => fid[t] # NoFid
<1>0. Agenda /\ t \in Tables /\ t \notin SlotSet /\ "status" \in Tracked
  BY InvParts, SingleTables DEF Tracked
<1>1. fid'[t] # NoFid => fid[t] # NoFid \/ (Waits("request", t) /\ ~At("done"))
  <2>1. Request /\ Of = t => Waits("request", t) /\ ~At("done")
    BY <1>0, AtHas DEF Request, At
  <2>2. ~(RequestSlot /\ Slot = t)
    BY <1>0, SlotOf DEF RequestSlot
  <2> QED BY <1>0, <2>1, <2>2, FidMoves
<1>2. Waits("request", t)' => Waits("request", t) \/ (Has("status") /\ ~At("done"))
  <2>1. LockedForTs \/ LockedForNit => Has("status") /\ ~At("done")
    BY <1>0, AtHas DEF LockedForTs, LockedForNit, At
  <2> QED BY <1>0, <2>1, RequestMoves
<1>3. Has("status")' => Has("status") \/ (Has("fend") /\ ~At("done"))
  <2>1. FendEvent => Has("fend") /\ ~At("done")
    BY <1>0, AtDo DEF FendEvent, At, Calls
  <2> QED BY <2>1, GoingMoves
<1>4. Has("fend")' => Has("fend")
  <2>1. Do("fend")[1] \in Comers /\ Do("fend") # Do("patlist")
    BY DEF Do, Comers
  <2>2. Stacks /\ Has("fend")' => Has("fend")
    BY <1>0, <2>1, RestOf DEF Stacks, Has
  <2> QED BY <2>2, StackStep DEF Same
<1>5. At("done") => ~Waits("request", t) /\ ~Has("status") /\ ~Has("fend")
  <2>1. At("done") => Pending = {<<"done", Of>>} \cup Rest /\ \A y \in Rest : y[1] \in Events
    BY <1>0, HeadTask, BehindOf DEF Heads
  <2>2. \A x \in {"request", "status", "fend"} : x \notin Events
    BY DEF Events, Later
  <2> QED BY <2>1, <2>2 DEF Waits, Has, For, Do
<1> QED BY <1>1, <1>2, <1>3, <1>4, <1>5

\* The `done' function of a table stays on the agenda until the table has no filter.
LEMMA DoneStays ==
    ASSUME Inv, Stepping, NEW t \in Single, Waits("done", t), ~PassStep, ~Quit, ~Unlock
    PROVE  Waits("done", t)' \/ (At("done") /\ fid[t] = NoFid)
<1>1. Agenda /\ agenda # << >>
  BY InvParts, NoRange DEF Waits, Pending
<1>2. CASE Same
  BY <1>2 DEF Same
<1>3. CASE Stacks /\ For("done", t) \in Rest
  BY <1>3 DEF Stacks, Waits
<1>4. CASE ~Same /\ For("done", t) = Head(agenda)
  <2>1. Head(agenda)[1] = "done" /\ Of = t
    BY <1>4 DEF For, Of
  <2> QED BY <1>1, <1>4, <2>1, HeadNow DEF PatDone, SdtDone, NitDoneInTs, NitMissing, NitFound, Freed
<1> QED BY <1>1, <1>2, <1>3, <1>4, StackStep, HeadOnly DEF Waits

LEMMA SingleHeeded ==
    ASSUME Inv, Heeded, Stepping, NEW t \in Single, t \in sampled',
           fid'[t] # NoFid \/ Waits("request", t)' \/ Has("status")' \/ Has("fend")'
    PROVE  Waits("done", t)' \/ Ending' \/ spc' = "crashed"
<1>0. /\ Agenda /\ started \in BOOLEAN /\ t \in Tables
      /\ "clear" \in Tracked /\ "quit" \in Tracked /\ "unsub" \in Tracked
  BY InvParts, SingleTables DEF Tracked
<1>1. CASE PassBegins
  <2>1. \A e : t \in e /\ Pending' = HandleTasks(e) => Waits("done", t)'
    BY DEF Waits, HandleTasks, Single
  <2>2. sampled \subseteq evt
    BY DEF Inv, Sampled
  <2>3. Wait => sampled' = evt /\ evt # {}
    BY <2>2 DEF Wait
  <2>4. Woken => sampled' = evt
    BY DEF Woken
  <2>5. ~TimedOut /\ (Clear => sampled' = evt' /\ evt' # {})
    BY DEF TimedOut, Clear, BeginPass
  <2> QED BY <1>0, <1>1, <2>1, <2>3, <2>4, <2>5, EventPops DEF PassBegins
<1>2. CASE Ending \/ Quit
  BY <1>0, <1>2, EndKept, QuitRuns DEF EndSame, Ended, Ending
<1>3. CASE ~PassBegins /\ ~Ending /\ ~Quit
  <2>1. t \in sampled
    BY <1>3, EventsKept
  <2>2. spc = "crashed" => spc' = "crashed"
    BY CrashedApart, ApartRuns
  <2>3. spc # "crashed" => Has("clear") \/ Has("quit")
    BY <1>3, <2>1 DEF Inv, Sampled
  <2>4. Check \/ Complete => spc = "run" /\ ~Has("clear") /\ ~Has("quit")
    BY <1>0, CheckRuns, CompleteRuns DEF Only, Check, Complete, At
  <2>5. ((PatDone \/ SdtDone) /\ ~currTs) => spc' = "crashed"
    BY <1>0, PassRuns
  <2>6. ~Unlock
    BY <1>0, <1>3, PassRuns DEF Only, Ending
  <2>7. CASE ~PassStep
    BY <1>3, <2>1, <2>2, <2>6, <2>7, AskedBefore, DoneStays DEF Heeded, Single
  <2> QED BY <1>3, <2>2, <2>3, <2>4, <2>5, <2>7 DEF PassStep, PassBegins
<1> QED BY <1>1, <1>2, <1>3

LEMMA CompleteHeeded ==
    ASSUME Inv, Heeded, Stepping, NEW t \in Tables, Unhandled(t)', "lost" \notin mishaps'
    PROVE  Flag(t) \in evt'
<1>0. Agenda /\ started \in BOOLEAN /\ got \in [Tables -> {"none", "some", "all"}] /\ mishaps \subseteq mishaps'
  BY InvParts, TuningUntouched DEF TypeOK
<1>1. fid'[t] # NoFid /\ got'[t] = "all"
  BY DEF Unhandled
<1>2. ~LeaveTs /\ ~LockedForTs /\ ~(Request /\ Of = t) /\ (RequestSlot /\ Slot = t => got'[t] = got[t] /\ fid' = fid)
  BY <1>0, <1>1 DEF LeaveTs, LockedForTs, Request, RequestSlot
<1>3. fid[t] # NoFid
  BY <1>1, <1>2, FidMoves
<1>4. CASE got[t] = "all"
  <2>1. Flag(t) \in evt
    BY <1>0, <1>3, <1>4 DEF Heeded, Unhandled
  <2>2. Wait \/ Woken \/ TimedOut => evt' = evt
    BY DEF Wait, Woken, TimedOut, dataVars
  <2>3. ASSUME Clear
        PROVE  Flag(t) \notin sampled
    <3>1. spc = "run" /\ ~Ending /\ ~Waits("done", t)
      <4>1. "unsub" \in Tracked
        BY DEF Tracked
      <4> QED BY <1>0, <2>3, <4>1, PassRuns DEF Only, NoTasks, Ending
    <3>2. CASE t \in SlotSet
      BY <1>3, <1>4, <2>3, <3>2 DEF Clear, Mishap, Unhandled, Flag
    <3>3. CASE t \in Single
      BY <1>3, <3>1, <3>3, SingleTables DEF Heeded, Single
    <3> QED BY <3>2, <3>3 DEF Tables, Single
  <2>4. Clear => evt' = evt \ sampled
    BY DEF Clear
  <2> QED BY <2>1, <2>2, <2>3, <2>4, EventsKept DEF PassBegins
<1>5. CASE got[t] # "all"
  BY <1>1, <1>2, <1>5, GotMoves, SectionCollects
<1> QED BY <1>4, <1>5

LEMMA HeededKept == Inv /\ Heeded /\ Stepping => Heeded'
BY SingleHeeded, CompleteHeeded DEF Heeded, Single

-----------------------------------------------------------------------------
\* In every reachable state the scanner's thread, its filters, the blind scan
\* and the current transport stream agree with what is on the thread's agenda.
THEOREM ScanCorrect == Spec => []Inv
<1>1. Inv /\ [Next]_vars => Inv'
  BY InvKept DEF Stepping
<1> QED BY <1>1, InvHolds, PTL DEF Spec

\* The scanner keeps its types: its frequency is one of the list, or none, unless
\* the scan came to its end without a list (am_scan_all_done).
THEOREM TypeCorrect == Spec => []TypeOK
<1>1. Inv => TypeOK
  BY DEF Inv, AgendaInv
<1> QED BY <1>1, ScanCorrect, PTL

\* A section of a filter that was freed is never taken for one of another table
\* (am_scan_free_filter and am_scan_section_handler).
THEOREM SectionCorrect == Spec => []SectionIsCurrent
<1>1. Inv => SectionIsCurrent
  BY DEF Inv, Filtered, SectionIsCurrent
<1> QED BY <1>1, ScanCorrect, PTL

\* The current transport stream and the list of frequencies are there when they are
\* read, unless a table was late or the scan ended without a list, and no callback is
\* under way when the scanner is freed (am_scan_pat_done, am_scan_stop_dtv).
THEOREM FreedCorrect == Spec => []NothingFreedIsUsed
<1>1. Inv => NothingFreedIsUsed
  <2> SUFFICES ASSUME Inv
               PROVE  NothingFreedIsUsed
    OBVIOUS
  <2>1. spc = "crashed" => mishaps \cap {"late", "unlisted"} # {}
    BY DEF Inv, Current
  <2>2. ASSUME spc = "gone"
        PROVE  section = NoSection /\ fevt = NoList /\ bpc = "none"
    <3>1. agenda = << >>
      BY <2>2 DEF Inv, AgendaInv, Idling
    <3>2. Pending = {}
      BY <3>1, NoRange DEF Pending
    <3>3. Ended
      BY <2>2, <3>2 DEF Ended, Ending, Has
    <3> QED BY <2>2, <3>3 DEF Inv, Filtered, Blinded, Current
  <2> QED BY <2>1, <2>2 DEF NothingFreedIsUsed
<1> QED BY <1>1, ScanCorrect, PTL

\* Nobody waits for good for a thread that is to be joined: the end of a pause is
\* asked for with it, and the blind scan does not need the scanner's lock.
THEOREM JoinCorrect == Spec => []JoinsEnd
<1>1. Inv => JoinsEnd
  BY DEF Inv, Destroyed, Blinded, JoinsEnd
<1> QED BY <1>1, ScanCorrect, PTL

\* The scanner leaves a frequency that it tuned (am_scan_start_next_ts,
\* am_scan_try_nit) only when it has had its answer: it was not locked, or its PAT
\* and its SDT each came or had their time and every program of the PAT was asked
\* for, or, while the NIT is sought, that came or had its time.
THEOREM AnsweredCorrect == Spec => []FrequencyAnswered
<1>1. Init => Inv /\ Orderly
  BY InvHolds, OrderlyHolds
<1>2. Inv /\ Orderly /\ [Next]_vars => (Inv /\ Orderly)'
  BY InvKept, OrderlyKept DEF Stepping
<1>3. Inv /\ Orderly => FrequencyAnswered
  <2> SUFFICES ASSUME Inv, Orderly, At("next"), curr >= 0, Regular
               PROVE  answered
    BY DEF FrequencyAnswered, Regular
  <2>1. Agenda
    BY InvParts
  <2>2. Has("next")
    BY <2>1, AtDo DEF Calls
  <2> QED BY <2>2 DEF Orderly, Answered
<1> QED BY <1>1, <1>2, <1>3, PTL DEF Spec

\* A thread that sleeps has not overlooked a table that is complete: its event is
\* cleared only when the table was handled (am_scan_thread, after evt_flag is read),
\* unless it was a PMT of another slot.
THEOREM HeedCorrect == Spec => [](Asleep => NoneOverlooked)
<1>1. Init => Inv /\ Heeded
  BY InvHolds DEF Init, Heeded, Unhandled, Tables
<1>2. Inv /\ Heeded /\ [Next]_vars => (Inv /\ Heeded)'
  BY InvKept, HeededKept DEF Stepping
<1>3. Heeded => (Asleep => NoneOverlooked)
  BY DEF Heeded, Asleep, NoneOverlooked
<1> QED BY <1>1, <1>2, <1>3, PTL DEF Spec
=============================================================================
