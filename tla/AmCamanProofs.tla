--------------------------- MODULE AmCamanProofs ---------------------------
(* Proofs of the safety properties of AmCaman, for any CAs, services and     *)
(* bounds.                                                                   *)
EXTENDS AmCaman, SequenceTheorems, FiniteSetTheorems, TLAPS

-----------------------------------------------------------------------------
(* Induction, stated for sets.                                               *)

LEMMA Least ==
    ASSUME NEW T \in SUBSET Nat, T # {}
    PROVE  \E m \in T : \A k \in T : m <= k
<1> DEFINE D == {0 .. k : k \in T}
           R == StrictSubsetOrdering(Nat)
<1>1. D \subseteq FiniteSubsetsOf(Nat)
  <2>1. \A k \in T : IsFiniteSet(0 .. k) /\ 0 .. k \in SUBSET Nat
    BY FS_Interval
  <2> QED BY <2>1 DEF FiniteSubsetsOf
<1>2. IsWellFoundedOn(R, FiniteSubsetsOf(Nat))
  BY FS_StrictSubsetOrderingWellFounded
<1>3. PICK X \in D : \A Y \in D : ~ (<<Y, X>> \in R)
  <2>1. D # {}
    OBVIOUS
  <2> HIDE DEF R, D
  <2> QED BY <1>1, <1>2, <2>1, WFMin
<1>4. PICK m \in T : X = 0 .. m
  BY <1>3
<1>5. ASSUME NEW k \in T, k < m PROVE FALSE
  <2>1. 0 .. k \in D
    OBVIOUS
  <2>2. 0 .. k \subseteq 0 .. m /\ m \in 0 .. m /\ m \notin 0 .. k
    BY <1>5
  <2>3. <<0 .. k, 0 .. m>> \in R
    BY <2>2 DEF StrictSubsetOrdering
  <2> QED BY <2>1, <2>3, <1>3, <1>4
<1> QED BY <1>5

LEMMA Induct ==
    ASSUME NEW T \in SUBSET Nat, 0 \in T, \A n \in T : n + 1 \in T
    PROVE  T = Nat
<1> SUFFICES ASSUME Nat \ T # {} PROVE FALSE
  OBVIOUS
<1>1. PICK m \in Nat \ T : \A k \in Nat \ T : m <= k
  BY Least
<1>2. m # 0 /\ m - 1 \in Nat /\ m - 1 \in T
  BY <1>1
<1>3. (m - 1) + 1 \in T
  BY <1>2
<1>4. (m - 1) + 1 = m
  BY <1>1
<1> QED BY <1>1, <1>3, <1>4

\* What FlattenSeq computes on the way: the parts up to the m-th.
Flat(V, ss, f, m) ==
    /\ f = [i \in 1 .. m |-> IF i = 1 THEN ss[i] ELSE f[i - 1] \o ss[i]]
    /\ \A i \in 1 .. m : f[i] \in V[i]

LEMMA FlatOne ==
    ASSUME NEW V, NEW ss, ss[1] \in V[1]
    PROVE  \E f : Flat(V, ss, f, 1)
<1> DEFINE f == [i \in 1 .. 1 |-> ss[i]]
<1>1. f = [i \in 1 .. 1 |-> IF i = 1 THEN ss[i] ELSE f[i - 1] \o ss[i]]
  OBVIOUS
<1>2. \A i \in 1 .. 1 : f[i] \in V[i]
  OBVIOUS
<1> HIDE DEF f
<1> QED BY <1>1, <1>2 DEF Flat

LEMMA FlatMore ==
    ASSUME NEW V, NEW ss, NEW m \in Nat \ {0},
           \A s \in V[m] : s \o ss[m + 1] \in V[m + 1], NEW g, Flat(V, ss, g, m)
    PROVE  \E f : Flat(V, ss, f, m + 1)
<1> DEFINE last == g[m] \o ss[m + 1]
           f == [i \in 1 .. m + 1 |-> IF i = m + 1 THEN last ELSE g[i]]
<1>1. g[m] \in V[m] /\ last \in V[m + 1]
  BY DEF Flat
<1> HIDE DEF last
<1>2. \A i \in 1 .. m : f[i] = g[i] /\ f[i] \in V[i]
  BY DEF Flat
<1>3. f[m + 1] = last
  OBVIOUS
<1>4. ASSUME NEW i \in 1 .. m + 1
      PROVE  f[i] = (IF i = 1 THEN ss[i] ELSE f[i - 1] \o ss[i]) /\ f[i] \in V[i]
  <2>1. CASE i = m + 1
    <3>1. i # 1 /\ i - 1 = m /\ f[m] = g[m]
      BY <1>2, <2>1
    <3>2. f[i] = f[i - 1] \o ss[i]
      BY <1>3, <2>1, <3>1 DEF last
    <3> QED BY <1>1, <1>3, <2>1, <3>1, <3>2
  <2>2. CASE i # m + 1
    <3>1. i \in 1 .. m
      BY <2>2
    <3>2. g[i] = IF i = 1 THEN ss[i] ELSE g[i - 1] \o ss[i]
      BY <3>1 DEF Flat
    <3>3. i # 1 => i - 1 \in 1 .. m
      BY <3>1
    <3>4. f[i] = g[i] /\ f[i] \in V[i] /\ (i # 1 => f[i - 1] = g[i - 1])
      BY <1>2, <3>1, <3>3
    <3> QED BY <3>2, <3>4
  <2> QED BY <2>1, <2>2
<1>5. f = [i \in 1 .. m + 1 |-> f[i]]
  OBVIOUS
<1>6. f = [i \in 1 .. m + 1 |-> IF i = 1 THEN ss[i] ELSE f[i - 1] \o ss[i]]
  <2> HIDE DEF f
  <2> QED BY <1>4, <1>5
<1> HIDE DEF f
<1> QED BY <1>4, <1>6 DEF Flat

\* What is made of the parts of a sequence, with one set for each of its prefixes.
LEMMA FlattenSteps ==
    ASSUME NEW T, NEW n \in Nat, NEW ss, ss \in [1 .. n -> Seq(T)], NEW V,
           << >> \in V[0], n > 0 => ss[1] \in V[1],
           \A m \in 1 .. n - 1 : \A s \in V[m] : s \o ss[m + 1] \in V[m + 1]
    PROVE  FlattenSeq(ss) \in V[n]
<1>1. Len(ss) = n /\ (n = 0 => ss = << >>)
  <2>1. ss \in Seq(Seq(T))
    BY IsASeq
  <2> QED BY <2>1, LenProperties
<1>2. CASE n = 0
  BY <1>1, <1>2 DEF FlattenSeq
<1>3. CASE n > 0
  <2> DEFINE D == {m \in Nat : m < n => \E f : Flat(V, ss, f, m + 1)}
  <2>1. 0 \in D
    <3>1. ss[1] \in V[1]
      BY <1>3
    <3> QED BY <3>1, FlatOne
  <2>2. ASSUME NEW m \in D PROVE m + 1 \in D
    <3>1. CASE m + 1 < n
      <4>1. PICK g : Flat(V, ss, g, m + 1)
        BY <3>1
      <4>2. m + 1 \in 1 .. n - 1 /\ m + 1 \in Nat \ {0}
        BY <3>1
      <4>3. \A s \in V[m + 1] : s \o ss[(m + 1) + 1] \in V[(m + 1) + 1]
        BY <4>2
      <4>4. \E f : Flat(V, ss, f, (m + 1) + 1)
        BY <4>1, <4>2, <4>3, FlatMore
      <4> QED BY <4>4
    <3>2. CASE ~(m + 1 < n)
      BY <3>2
    <3> QED BY <3>1, <3>2
  <2>3. D = Nat
    <3>1. D \in SUBSET Nat
      OBVIOUS
    <3> HIDE DEF D
    <3> QED BY <2>1, <2>2, <3>1, Induct
  <2>4. PICK f : Flat(V, ss, f, n)
    <3>1. n - 1 \in Nat /\ n - 1 < n /\ (n - 1) + 1 = n
      BY <1>3
    <3>2. n - 1 \in D
      <4> HIDE DEF D
      <4> QED BY <2>3, <3>1
    <3>3. \E f : Flat(V, ss, f, (n - 1) + 1)
      BY <3>1, <3>2
    <3> QED BY <3>1, <3>3
  <2> DEFINE R(h) == h = [i \in 1 .. n |-> IF i = 1 THEN ss[i] ELSE h[i - 1] \o ss[i]]
             fl == CHOOSE h : R(h)
  <2>5. FlattenSeq(ss) = fl[n]
    BY <1>1, <1>3 DEF FlattenSeq
  <2>6. R(f)
    BY <2>4 DEF Flat
  <2>7. R(fl)
    <3> HIDE DEF R
    <3> QED BY <2>6
  <2> SUFFICES fl[n] \in V[n]
    BY <2>5
  <2> HIDE DEF fl
  <2>8. \A i \in 1 .. n : fl[i] = IF i = 1 THEN ss[i] ELSE fl[i - 1] \o ss[i]
    BY <2>7
  <2> HIDE DEF R
  <2> DEFINE E == {m \in Nat : m < n => fl[m + 1] \in V[m + 1]}
  <2>9. 0 \in E
    <3>1. ss[1] \in V[1] /\ 1 \in 1 .. n
      BY <1>3
    <3> QED BY <2>8, <3>1
  <2>10. ASSUME NEW m \in E PROVE m + 1 \in E
    <3>1. CASE m + 1 < n
      <4>1. (m + 1) + 1 \in 1 .. n /\ (m + 1) + 1 # 1 /\ ((m + 1) + 1) - 1 = m + 1
        BY <3>1
      <4>2. fl[(m + 1) + 1] = fl[m + 1] \o ss[(m + 1) + 1]
        BY <2>8, <4>1
      <4>3. fl[m + 1] \in V[m + 1] /\ m + 1 \in 1 .. n - 1
        BY <3>1, <4>1
      <4>4. fl[m + 1] \o ss[(m + 1) + 1] \in V[(m + 1) + 1]
        BY <4>3
      <4>5. m + 1 \in Nat
        OBVIOUS
      <4>6. fl[(m + 1) + 1] \in V[(m + 1) + 1]
        BY <4>2, <4>4
      <4> HIDE DEF fl
      <4> QED BY <4>5, <4>6
    <3>2. CASE ~(m + 1 < n)
      BY <3>2
    <3> QED BY <3>1, <3>2
  <2>11. E = Nat
    <3>1. E \in SUBSET Nat
      OBVIOUS
    <3> HIDE DEF E
    <3> QED BY <2>9, <2>10, <3>1, Induct
  <2>12. n - 1 \in Nat /\ n - 1 < n /\ (n - 1) + 1 = n
    BY <1>3
  <2>13. n - 1 \in E
    <3> HIDE DEF E
    <3> QED BY <2>11, <2>12
  <2> QED BY <2>12, <2>13
<1> QED BY <1>2, <1>3

\* ... when every concatenation of two members of a set is a member, ...
LEMMA FlattenIn ==
    ASSUME NEW T, NEW W \in SUBSET Seq(T), << >> \in W, \A s, u \in W : s \o u \in W,
           NEW n \in Nat, NEW ss, ss \in [1 .. n -> W]
    PROVE  FlattenSeq(ss) \in W
<1> DEFINE V == [m \in 0 .. n |-> W]
<1>1. ss \in [1 .. n -> Seq(T)]
  OBVIOUS
<1>2. << >> \in V[0] /\ (n > 0 => ss[1] \in V[1])
  OBVIOUS
<1>3. \A m \in 1 .. n - 1 : \A s \in V[m] : s \o ss[m + 1] \in V[m + 1]
  OBVIOUS
<1>4. FlattenSeq(ss) \in V[n]
  <2> HIDE DEF V
  <2> QED BY <1>1, <1>2, <1>3, FlattenSteps
<1> QED BY <1>4

\* ... and it has the members of all the parts.
LEMMA FlattenHas ==
    ASSUME NEW T, NEW n \in Nat, NEW ss, ss \in [1 .. n -> Seq(T)], NEW k \in 1 .. n
    PROVE  Range(ss[k]) \subseteq Range(FlattenSeq(ss))
<1> DEFINE V == [m \in 0 .. n |-> {s \in Seq(T) : k <= m => Range(ss[k]) \subseteq Range(s)}]
<1>1. << >> \in V[0] /\ (n > 0 => ss[1] \in V[1])
  OBVIOUS
<1>2. ASSUME NEW m \in 1 .. n - 1, NEW s \in V[m]
      PROVE  s \o ss[m + 1] \in V[m + 1]
  <2>1. s \in Seq(T) /\ ss[m + 1] \in Seq(T) /\ (k <= m => Range(ss[k]) \subseteq Range(s))
    OBVIOUS
  <2>2. s \o ss[m + 1] \in Seq(T) /\ Range(s \o ss[m + 1]) = Range(s) \cup Range(ss[m + 1])
    BY <2>1, ConcatProperties, RangeConcatenation
  <2>3. k <= m + 1 => k <= m \/ k = m + 1
    OBVIOUS
  <2>4. k <= m + 1 => Range(ss[k]) \subseteq Range(s \o ss[m + 1])
    BY <2>1, <2>2, <2>3
  <2>5. m + 1 \in 0 .. n
    OBVIOUS
  <2>6. V[m + 1] = {u \in Seq(T) : k <= m + 1 => Range(ss[k]) \subseteq Range(u)}
    BY <2>5
  <2> HIDE DEF V
  <2> QED BY <2>2, <2>4, <2>6
<1>3. FlattenSeq(ss) \in V[n]
  <2> HIDE DEF V
  <2> QED BY <1>1, <1>2, FlattenSteps
<1> QED BY <1>3

-----------------------------------------------------------------------------
(* The agenda, as the set of the tasks that are on it.                       *)

Rest == Range(Tail(agenda))
InOrderSeq(s) == \A i, j \in 1 .. Len(s) : i < j => Before(s[i], s[j])

\* A task and what it is about.
LEMMA TaskType ==
    ASSUME NEW x \in AgendaTasks
    PROVE  /\ x = <<x[1], x[2]>>
           /\ x[1] \in {"stop", "first", "again", "runfirst", "runagain", "timeout", "new",
                        "monitor"} => x[2] \in Tables
           /\ x[1] = "handled" => x[2] \in Tables \cup {"ts"}
           /\ x[1] = "from" => x[2] \in 1 .. 4
           /\ x[1] \in {"sync", "closets", "collect", "give", "noservice", "pause", "resume",
                        "quit"} => x[2] = "none"
           /\ x[1] \in CaOps => x[2] \in Cas
           /\ x[1] = "arrange" => x[2] \in Systems
           /\ x[1] \in {"unmatch", "match"} => x[2] = <<x[2][1], x[2][2]>> /\ x[2][1] \in Cas
                                                /\ x[2][2] \in Systems
           /\ x[1] = "service" => x[2] = <<x[2][1], x[2][2]>> /\ x[2][1] \in Services
                                  /\ x[2][2] \in Cas \cup {NoCa}
  BY DEF AgendaTasks, CaOps

\* The first task and the others.
LEMMA Split ==
    ASSUME agenda \in Seq(AgendaTasks), agenda # << >>
    PROVE  /\ Head(agenda) \in AgendaTasks /\ Tail(agenda) \in Seq(AgendaTasks)
           /\ Len(agenda) \in Nat \ {0} /\ Len(Tail(agenda)) = Len(agenda) - 1
           /\ Head(agenda) = agenda[1]
           /\ \A i \in 1 .. Len(agenda) - 1 : Tail(agenda)[i] = agenda[i + 1]
           /\ Pending = {Head(agenda)} \cup Rest
           /\ Rest \subseteq AgendaTasks
<1>1. /\ Head(agenda) \in AgendaTasks /\ Tail(agenda) \in Seq(AgendaTasks)
      /\ Len(agenda) \in Nat \ {0} /\ Len(Tail(agenda)) = Len(agenda) - 1
      /\ Head(agenda) = agenda[1]
      /\ \A i \in 1 .. Len(agenda) - 1 : Tail(agenda)[i] = agenda[i + 1]
  OBVIOUS
<1>2. /\ Pending = {agenda[i] : i \in 1 .. Len(agenda)}
      /\ Rest = {Tail(agenda)[i] : i \in 1 .. Len(Tail(agenda))}
      /\ Rest \subseteq AgendaTasks
  BY <1>1, RangeEquality, RangeOfSeq DEF Pending, Rest
<1>3. ASSUME NEW i \in 1 .. Len(agenda)
      PROVE  agenda[i] \in {Head(agenda)} \cup Rest
  <2>1. CASE i = 1
    BY <1>1, <2>1
  <2>2. CASE i # 1
    <3>1. i - 1 \in 1 .. Len(Tail(agenda)) /\ i - 1 \in 1 .. Len(agenda) - 1 /\ (i - 1) + 1 = i
      BY <1>1, <2>2
    <3>2. Tail(agenda)[i - 1] = agenda[i]
      BY <1>1, <3>1
    <3> QED BY <1>2, <3>1, <3>2
  <2> QED BY <2>1, <2>2
<1>4. ASSUME NEW i \in 1 .. Len(Tail(agenda))
      PROVE  Tail(agenda)[i] \in Pending
  <2>1. i \in 1 .. Len(agenda) - 1 /\ i + 1 \in 1 .. Len(agenda)
    BY <1>1
  <2> QED BY <1>1, <1>2, <2>1
<1>5. Head(agenda) \in Pending
  BY <1>1, <1>2
<1> QED BY <1>1, <1>2, <1>3, <1>4, <1>5

\* The order of two tasks.
LEMMA SplitOrder ==
    ASSUME agenda \in Seq(AgendaTasks), agenda # << >>, Ordered
    PROVE  /\ InOrderSeq(Tail(agenda))
           /\ \A y \in Rest : Before(Head(agenda), y)
<1>1. \A i \in 1 .. Len(Tail(agenda)) :
          i + 1 \in 1 .. Len(agenda) /\ Tail(agenda)[i] = agenda[i + 1]
  BY Split
<1>2. Rest = {Tail(agenda)[i] : i \in 1 .. Len(Tail(agenda))}
  BY Split, RangeEquality DEF Rest
<1>3. 1 \in 1 .. Len(agenda) /\ Head(agenda) = agenda[1]
  BY Split
<1>4. InOrderSeq(Tail(agenda))
  BY <1>1, Split DEF Ordered, InOrderSeq
<1>5. \A i \in 1 .. Len(Tail(agenda)) : Before(Head(agenda), Tail(agenda)[i])
  BY <1>1, <1>3, Split DEF Ordered
<1> QED BY <1>2, <1>4, <1>5

LEMMA Together ==
    ASSUME agenda \in Seq(AgendaTasks), Ordered, NEW x \in Pending, NEW y \in Pending, x # y
    PROVE  Before(x, y) \/ Before(y, x)
<1>1. Pending = {agenda[i] : i \in 1 .. Len(agenda)}
  BY RangeEquality DEF Pending
<1>2. PICK i \in 1 .. Len(agenda), j \in 1 .. Len(agenda) : agenda[i] = x /\ agenda[j] = y
  BY <1>1
<1>3. i < j \/ j < i
  BY <1>2
<1> QED BY <1>2, <1>3 DEF Ordered

LEMMA ConcatOrder ==
    ASSUME NEW s \in Seq(AgendaTasks), NEW u \in Seq(AgendaTasks), InOrderSeq(s), InOrderSeq(u),
           \A x \in Range(s) : \A y \in Range(u) : Before(x, y)
    PROVE  InOrderSeq(s \o u)
<1>1. /\ Len(s) \in Nat /\ Len(u) \in Nat /\ Len(s \o u) = Len(s) + Len(u)
      /\ \A i \in 1 .. Len(s) : (s \o u)[i] = s[i] /\ s[i] \in Range(s)
      /\ Range(u) = {u[i] : i \in 1 .. Len(u)}
  BY ConcatProperties, RangeEquality
<1>2. ASSUME NEW i \in 1 .. Len(s \o u), i > Len(s)
      PROVE  i - Len(s) \in 1 .. Len(u) /\ (s \o u)[i] = u[i - Len(s)] /\ u[i - Len(s)] \in Range(u)
  BY <1>1, <1>2, ConcatProperties
<1>3. ASSUME NEW i \in 1 .. Len(s \o u), NEW j \in 1 .. Len(s \o u), i < j
      PROVE  Before((s \o u)[i], (s \o u)[j])
  <2>1. CASE j <= Len(s)
    BY <1>1, <1>3, <2>1 DEF InOrderSeq
  <2>2. CASE i > Len(s)
    <3>1. j > Len(s) /\ i - Len(s) < j - Len(s)
      BY <1>1, <1>3, <2>2
    <3> QED BY <1>2, <2>2, <3>1 DEF InOrderSeq
  <2>3. CASE i <= Len(s) /\ j > Len(s)
    <3>1. i \in 1 .. Len(s)
      BY <1>1, <2>3
    <3> QED BY <1>1, <1>2, <2>3, <3>1
  <2> QED BY <1>1, <2>1, <2>2, <2>3
<1> QED BY <1>3 DEF InOrderSeq

\* Tasks that may be put before those of R.
Good(s, A, R) ==
    /\ s \in Seq(AgendaTasks) /\ InOrderSeq(s)
    /\ \A x \in Range(s) : x[1] \in A /\ \A y \in R : Before(x, y)
Precede(X, Y) == \A x \in X, y \in Y : Before(x, y)
OpsNow == {op \in RunOps \cup AppOps \cup {"timeout"} : Allowed(op)}

LEMMA GoodNone ==
    ASSUME NEW A, NEW R
    PROVE  Good(<< >>, A, R) /\ Range(<< >>) = {}
<1>1. << >> \in Seq(AgendaTasks) /\ Len(<< >>) = 0
  OBVIOUS
<1>2. Range(<< >>) = {}
  BY DEF Range
<1> QED BY <1>1, <1>2 DEF Good, InOrderSeq

LEMMA GoodOne ==
    ASSUME NEW A, NEW R, NEW x \in AgendaTasks, x[1] \in A, \A y \in R : Before(x, y)
    PROVE  Good(<<x>>, A, R) /\ Range(<<x>>) = {x}
<1>1. <<x>> \in Seq(AgendaTasks) /\ Len(<<x>>) = 1 /\ <<x>>[1] = x
  OBVIOUS
<1>2. Range(<<x>>) = {x}
  BY DEF Range
<1> QED BY <1>1, <1>2 DEF Good, InOrderSeq

LEMMA GoodConcat ==
    ASSUME NEW A, NEW R, NEW s, NEW u, Good(s, A, R), Good(u, A, R),
           Precede(Range(s), Range(u))
    PROVE  Good(s \o u, A, R)
<1>1. s \in Seq(AgendaTasks) /\ u \in Seq(AgendaTasks) /\ InOrderSeq(s) /\ InOrderSeq(u)
  BY DEF Good
<1>2. s \o u \in Seq(AgendaTasks) /\ Range(s \o u) = Range(s) \cup Range(u)
  BY <1>1, ConcatProperties, RangeConcatenation
<1>3. InOrderSeq(s \o u)
  BY <1>1, ConcatOrder DEF Precede
<1> QED BY <1>2, <1>3 DEF Good

LEMMA GoodRange ==
    ASSUME NEW A, NEW R, NEW s, NEW u, Good(s, A, R), Good(u, A, R)
    PROVE  Range(s \o u) = Range(s) \cup Range(u)
  BY RangeConcatenation DEF Good

LEMMA GoodTwo ==
    ASSUME NEW A, NEW R, NEW x \in AgendaTasks, NEW z \in AgendaTasks, x[1] \in A, z[1] \in A,
           \A y \in R : Before(x, y) /\ Before(z, y), Before(x, z)
    PROVE  Good(<<x, z>>, A, R) /\ Range(<<x, z>>) = {x, z}
<1>1. <<x, z>> = <<x>> \o <<z>>
  <2> DEFINE s == <<x>> \o <<z>>
  <2>1. s \in Seq(AgendaTasks) /\ Len(s) = 2 /\ s[1] = x /\ s[2] = z
    OBVIOUS
  <2>2. <<x, z>> \in Seq(AgendaTasks) /\ Len(<<x, z>>) = 2
    OBVIOUS
  <2> HIDE DEF s
  <2>3. <<x, z>> = s
    BY <2>1, <2>2
  <2> QED BY <2>3 DEF s
<1>2. Good(<<x>>, A, R) /\ Range(<<x>>) = {x} /\ Good(<<z>>, A, R) /\ Range(<<z>>) = {z}
  BY GoodOne
<1>3. Precede(Range(<<x>>), Range(<<z>>))
  BY <1>2 DEF Precede
<1> DEFINE s == <<x>>
           u == <<z>>
<1>4. /\ Good(s, A, R) /\ Good(u, A, R) /\ Precede(Range(s), Range(u))
      /\ Range(s) = {x} /\ Range(u) = {z} /\ <<x, z>> = s \o u
  BY <1>1, <1>2, <1>3
<1> HIDE DEF s, u
<1>5. Good(s \o u, A, R)
  BY <1>4, GoodConcat
<1>6. Range(s \o u) = Range(s) \cup Range(u)
  BY <1>4, GoodRange
<1> QED BY <1>4, <1>5, <1>6

LEMMA GoodThree ==
    ASSUME NEW A, NEW R, NEW x \in AgendaTasks, NEW v \in AgendaTasks, NEW z \in AgendaTasks,
           x[1] \in A, v[1] \in A, z[1] \in A,
           \A y \in R : Before(x, y) /\ Before(v, y) /\ Before(z, y),
           Before(x, v), Before(x, z), Before(v, z)
    PROVE  Good(<<x, v, z>>, A, R) /\ Range(<<x, v, z>>) = {x, v, z}
<1>1. <<x, v, z>> = <<x, v>> \o <<z>>
  <2> DEFINE s == <<x, v>> \o <<z>>
  <2>1. s \in Seq(AgendaTasks) /\ Len(s) = 3 /\ s[1] = x /\ s[2] = v /\ s[3] = z
    OBVIOUS
  <2>2. <<x, v, z>> \in Seq(AgendaTasks) /\ Len(<<x, v, z>>) = 3
    OBVIOUS
  <2> HIDE DEF s
  <2>3. <<x, v, z>> = s
    BY <2>1, <2>2
  <2> QED BY <2>3 DEF s
<1> DEFINE s == <<x, v>>
           u == <<z>>
<1>2. Good(s, A, R) /\ Range(s) = {x, v}
  BY GoodTwo
<1>3. Good(u, A, R) /\ Range(u) = {z}
  BY GoodOne
<1>4. <<x, v, z>> = s \o u
  BY <1>1
<1> HIDE DEF s, u
<1>5. Precede(Range(s), Range(u))
  BY <1>2, <1>3 DEF Precede
<1>6. Good(s \o u, A, R)
  BY <1>2, <1>3, <1>5, GoodConcat
<1>7. Range(s \o u) = Range(s) \cup Range(u)
  BY <1>2, <1>3, GoodRange
<1> QED BY <1>2, <1>3, <1>4, <1>6, <1>7

\* What a step leaves on the agenda.
Steps(tasks) ==
    /\ agenda' \in Seq(AgendaTasks) /\ Owned' /\ Ordered'
    /\ Pending' = Range(tasks) \cup Rest
    /\ lock' \in {Nobody, "mon", "app"} /\ mpc' \in {"top", "lock", "late", "wait", "run", "gone"}
    /\ apc' \in {"idle", "run", "join", "remove", "over"}
    /\ mpc' = "run" => mpc = "run"
    /\ mpc' = "wait" => mpc \in {"wait", "late"}
    /\ mpc' = "gone" <=> mpc = "gone"
    /\ apc' \in {"join", "over", "remove"} <=> apc \in {"join", "over", "remove"}

LEMMA ThenAgenda ==
    ASSUME AgendaInv, agenda # << >>, NEW tasks, Then(tasks), UNCHANGED quit,
           Good(tasks, OpsNow, Rest)
    PROVE  Steps(tasks)
<1>1. /\ agenda \in Seq(AgendaTasks) /\ Ordered /\ Owned
      /\ mpc \in {"top", "lock", "late", "wait", "run", "gone"}
      /\ apc \in {"idle", "run", "join", "remove", "over"} /\ lock \in {Nobody, "mon", "app"}
  BY DEF AgendaInv, TypeOK
<1>2. Tail(agenda) \in Seq(AgendaTasks) /\ Pending = {Head(agenda)} \cup Rest
  BY <1>1, Split
<1>3. InOrderSeq(Tail(agenda))
  BY <1>1, SplitOrder
<1>4. Good(Tail(agenda), OpsNow, {})
  <2>1. \A x \in Pending : Allowed(x[1])
    BY <1>1 DEF Owned
  <2>2. \A x \in Rest : x[1] \in OpsNow
    <3>1. \A x \in Rest : Allowed(x[1]) /\ x \in AgendaTasks
      BY <2>1, <1>1, <1>2, Split
    <3>2. \A x \in AgendaTasks : x[1] \in RunOps \cup AppOps \cup {"timeout"}
      BY DEF AgendaTasks, RunOps, AppOps, RemoveOps, CaOps
    <3> QED BY <3>1, <3>2 DEF OpsNow
  <2> QED BY <1>2, <1>3, <2>2 DEF Good, Rest
<1>5. /\ agenda' = tasks \o Tail(agenda)
      /\ IF agenda' # << >> THEN UNCHANGED <<lock, mpc, apc>>
         ELSE /\ lock' = Nobody
              /\ mpc' = IF lock = "mon" THEN (IF mpc = "late" THEN "wait" ELSE "top") ELSE mpc
              /\ apc' = IF apc = "remove" THEN "over" ELSE IF lock = "app" THEN "idle" ELSE apc
  BY DEF Then
<1>6. Good(agenda', OpsNow, {}) /\ Range(agenda') = Range(tasks) \cup Rest
  <2>1. Good(tasks, OpsNow, {}) /\ \A x \in Range(tasks) : \A y \in Rest : Before(x, y)
    BY DEF Good
  <2>2. Good(tasks \o Tail(agenda), OpsNow, {})
        /\ Range(tasks \o Tail(agenda)) = Range(tasks) \cup Range(Tail(agenda))
    <3>1. Precede(Range(tasks), Range(Tail(agenda)))
      BY <2>1 DEF Rest, Precede
    <3> HIDE DEF Rest
    <3> DEFINE u == Tail(agenda)
               N == {}
    <3>2. Good(tasks, OpsNow, N) /\ Good(u, OpsNow, N)
          /\ Precede(Range(tasks), Range(u))
      BY <1>4, <2>1, <3>1
    <3> HIDE DEF u, N
    <3>3. Good(tasks \o u, OpsNow, N) /\ Range(tasks \o u) = Range(tasks) \cup Range(u)
      BY <3>2, GoodConcat, GoodRange
    <3> QED BY <3>3 DEF u, N
  <2> QED BY <1>5, <2>2 DEF Rest
<1>7. agenda' \in Seq(AgendaTasks) /\ Ordered'
  BY <1>6 DEF Good, InOrderSeq, Ordered
<1>8. Pending' = Range(tasks) \cup Rest
  BY <1>6 DEF Pending
<1>9. \A x \in Pending' : x[1] \in OpsNow
  BY <1>6 DEF Good, Pending
<1>10. agenda' = << >> => Pending' = {}
  BY GoodNone DEF Pending
<1>11. /\ ~(lock = Nobody /\ apc # "remove") /\ (lock = "mon" <=> mpc \in {"run", "late"})
       /\ (lock = "app" <=> apc = "run") /\ (apc \in {"join", "remove", "over"} => quit)
       /\ (apc \in {"remove", "over"} => mpc = "gone") 
  BY <1>1 DEF Owned
<1>12. Owned'
  <2>1. CASE agenda' # << >>
    <3>1. lock' = lock /\ mpc' = mpc /\ apc' = apc /\ quit' = quit
      BY <1>5, <2>1
    <3>2. \A x \in Pending' : Allowed(x[1])'
      BY <1>9, <3>1 DEF OpsNow, Allowed
    <3> QED BY <1>11, <2>1, <3>1, <3>2 DEF Owned
  <2>2. CASE agenda' = << >>
    <3>1. /\ lock' = Nobody /\ quit' = quit
          /\ mpc' = IF lock = "mon" THEN (IF mpc = "late" THEN "wait" ELSE "top") ELSE mpc
          /\ apc' = IF apc = "remove" THEN "over" ELSE IF lock = "app" THEN "idle" ELSE apc
      BY <1>5, <2>2
    <3>2. /\ (lock' = "mon" <=> mpc' \in {"run", "late"})
          /\ (lock' = "app" <=> apc' = "run") /\ (apc' \in {"join", "remove", "over"} => quit')
          /\ (apc' \in {"remove", "over"} => mpc' = "gone") /\ lock' = Nobody /\ apc' # "remove"
      BY <1>1, <1>11, <3>1 DEF Nobody
    <3> QED BY <1>10, <2>2, <3>2 DEF Owned
  <2> QED BY <2>1, <2>2
<1>13. /\ lock' \in {Nobody, "mon", "app"} /\ mpc' \in {"top", "lock", "late", "wait", "run", "gone"}
       /\ apc' \in {"idle", "run", "join", "remove", "over"}
       /\ mpc' = "run" => mpc = "run"
       /\ mpc' = "wait" => mpc \in {"wait", "late"}
       /\ mpc' = "gone" <=> mpc = "gone"
       /\ apc' \in {"join", "over", "remove"} <=> apc \in {"join", "over", "remove"}
  BY <1>1, <1>5, <1>11 DEF Nobody
<1> QED BY <1>7, <1>8, <1>12, <1>13 DEF Steps

\* The task at the head, and what is behind it.
Heads(op) ==
    /\ agenda # << >> /\ Head(agenda) = <<op, Of>> /\ <<op, Of>> \in AgendaTasks
    /\ Allowed(op) /\ op \in OpsNow
    /\ Pending = {<<op, Of>>} \cup Rest /\ Rest \subseteq AgendaTasks
    /\ \A y \in Rest : Before(<<op, Of>>, y)

LEMMA HeadTask ==
    ASSUME AgendaInv, NEW op, At(op)
    PROVE  Heads(op)
<1>1. agenda \in Seq(AgendaTasks) /\ Ordered /\ Owned /\ agenda # << >> /\ Head(agenda)[1] = op
  BY DEF AgendaInv, TypeOK, At
<1>2. /\ Head(agenda) \in AgendaTasks /\ Pending = {Head(agenda)} \cup Rest
      /\ Rest \subseteq AgendaTasks
  BY <1>1, Split
<1>3. Head(agenda) = <<op, Of>>
  BY <1>1, <1>2, TaskType DEF Of
<1>4. \A y \in Rest : Before(Head(agenda), y)
  BY <1>1, SplitOrder
<1>5. Allowed(op)
  BY <1>1, <1>2 DEF Owned
<1>6. \A x \in AgendaTasks : x[1] \in RunOps \cup AppOps \cup {"timeout"}
  BY DEF AgendaTasks, RunOps, AppOps, RemoveOps, CaOps
<1>7. op \in OpsNow
  BY <1>1, <1>2, <1>5, <1>6 DEF OpsNow
<1> QED BY <1>1, <1>2, <1>3, <1>4, <1>5, <1>7 DEF Heads

\* A step that replaces it by the tasks of a set.
Moves ==
    /\ mpc' = "run" => mpc = "run"
    /\ mpc' = "wait" => mpc \in {"wait", "late"}
    /\ mpc' = "gone" <=> mpc = "gone"
    /\ apc' \in {"join", "over", "remove"} <=> apc \in {"join", "over", "remove"}
After ==
    /\ agenda' \in Seq(AgendaTasks) /\ Owned' /\ Ordered'
    /\ lock' \in {Nobody, "mon", "app"} /\ mpc' \in {"top", "lock", "late", "wait", "run", "gone"}
    /\ apc' \in {"idle", "run", "join", "remove", "over"}
Pops(op, N) == Heads(op) /\ Pending' = N \cup Rest /\ Moves

LEMMA Popped ==
    ASSUME AgendaInv, NEW op, At(op), UNCHANGED quit, NEW tasks, Then(tasks),
           Good(tasks, OpsNow, Rest)
    PROVE  After /\ Pops(op, Range(tasks))
<1>1. Heads(op)
  BY HeadTask
<1>2. Steps(tasks)
  BY <1>1, ThenAgenda DEF Heads
<1> QED BY <1>1, <1>2 DEF After, Pops, Moves, Steps

LEMMA Returned ==
    ASSUME AgendaInv, NEW op, At(op), UNCHANGED quit, Return
    PROVE  After /\ Pops(op, {})
<1>1. Good(<< >>, OpsNow, Rest) /\ Range(<< >>) = {}
  BY GoodNone
<1>2. Then(<< >>)
  BY DEF Return
<1>3. After /\ Pops(op, Range(<< >>))
  BY <1>1, <1>2, Popped
<1> QED BY <1>1, <1>3

\* A task that may be put where the head was.
Instead(op) ==
    CASE op \in {"stop", "timeout"} -> {"sync"}
      [] op = "first" -> {"sync", "runfirst"}
      [] op = "again" -> {"sync", "runagain"}
      [] op = "from" -> {"new", "from", "again"}
      [] op = "new" -> {"stop", "closets", "first", "handled", "monitor", "enter", "start", "arrange", "give"}
      [] op = "arrange" -> {"enter", "unmatch", "match", "collect"}
      [] op = "unmatch" -> {"enter", "stoppmt"}
      [] op = "match" -> {"enter", "open"}
      [] op = "give" -> {"enter", "start"}
      [] OTHER -> {}

LEMMA Replaced ==
    ASSUME NEW op, NEW x, Heads(op), x[1] \in Instead(op), x[1] \in {"first", "runfirst"} /\ op # "new" => x[2] = Of
    PROVE  x[1] \in OpsNow /\ \A y \in Rest : Before(x, y)
<1>1. x[1] \in OpsNow
  <2>1. op \in RunOps \cup AppOps \cup {"timeout"} /\ Allowed(op)
    BY DEF Heads, OpsNow
  <2>2. Allowed(x[1]) /\ x[1] \in RunOps \cup AppOps \cup {"timeout"}
    BY <2>1 DEF Allowed, Instead, RunOps, AppOps, RemoveOps
  <2> QED BY <2>2 DEF OpsNow
<1>2. ASSUME NEW y \in Rest PROVE Before(x, y)
  <2>1. Before(<<op, Of>>, y) /\ y \in AgendaTasks
    BY DEF Heads
  <2>2. y[1] \in Behind(op)
    BY <2>1 DEF Before
  <2> QED BY <2>1, <2>2 DEF Before, Behind, Instead, RunOps, AppOps, RemoveOps
<1> QED BY <1>1, <1>2

LEMMA GoodIf ==
    ASSUME NEW A, NEW R, NEW s, NEW cond \in BOOLEAN, cond => Good(s, A, R)
    PROVE  Good(If(cond, s), A, R) /\ Range(If(cond, s)) = IF cond THEN Range(s) ELSE {}
<1>1. CASE cond
  <2>1. If(cond, s) = s
    BY <1>1 DEF If
  <2> QED BY <1>1, <2>1
<1>2. CASE ~cond
  <2>1. If(cond, s) = << >>
    BY <1>2 DEF If
  <2>2. Good(<< >>, A, R) /\ Range(<< >>) = {}
    BY GoodNone
  <2> QED BY <1>2, <2>1, <2>2
<1> QED BY <1>1, <1>2

\* Tasks that may come in any order, for the CAs or tables of a sequence.
LEMMA GoodFlat ==
    ASSUME NEW A, NEW R, NEW T \in SUBSET AgendaTasks, Precede(T, T), Precede(T, R),
           \A x \in T : x[1] \in A, NEW n \in Nat, NEW ss \in [1 .. n -> Seq(T)]
    PROVE  Good(FlattenSeq(ss), A, R) /\ Range(FlattenSeq(ss)) \subseteq T
<1> DEFINE fl == FlattenSeq(ss)
<1>1. fl \in Seq(T)
  <2>1. Seq(T) \in SUBSET Seq(T) /\ << >> \in Seq(T) /\ \A s, u \in Seq(T) : s \o u \in Seq(T)
    BY ConcatProperties
  <2> QED BY <2>1, FlattenIn
<1> HIDE DEF fl
<1>2. Range(fl) \subseteq T /\ fl \in Seq(AgendaTasks)
  BY <1>1, RangeOfSeq
<1>3. InOrderSeq(fl)
  BY <1>1 DEF InOrderSeq, Precede
<1>4. Good(fl, A, R)
  BY <1>2, <1>3 DEF Good, Precede
<1> QED BY <1>2, <1>4 DEF fl

\* A call of a CA.
LEMMA CallTasks ==
    ASSUME NEW c \in Cas, NEW x \in AgendaTasks, NEW T, x \in T, <<"enter", Ci>> \in T
    PROVE  /\ Calling(c, x) \in Seq(T)
           /\ Range(Calling(c, x)) = IF Registered(c) THEN (IF c = Ci THEN {<<"enter", Ci>>, x} ELSE {x})
                                     ELSE {}
<1>1. CASE ~Registered(c)
  <2>1. Calling(c, x) = << >>
    BY <1>1 DEF Calling, If
  <2> QED BY <1>1, <2>1, GoodNone
<1>2. CASE Registered(c) /\ c # Ci
  <2>1. Calling(c, x) = << >> \o <<x>>
    BY <1>2 DEF Calling, If
  <2>2. << >> \o <<x>> = <<x>>
    BY <<x>> \in Seq(T), ConcatEmptySeq
  <2>3. Range(<<x>>) = {x}
    BY DEF Range
  <2> QED BY <1>2, <2>1, <2>2, <2>3
<1>3. CASE Registered(c) /\ c = Ci
  <2>1. Calling(c, x) = <<<<"enter", Ci>>>> \o <<x>>
    BY <1>3 DEF Calling, If, For
  <2>2. <<<<"enter", Ci>>>> \o <<x>> \in Seq(T)
    OBVIOUS
  <2>3. Range(<<<<"enter", Ci>>>>) = {<<"enter", Ci>>} /\ Range(<<x>>) = {x}
    BY DEF Range
  <2>4. <<<<"enter", Ci>>>> \in Seq(T) /\ <<x>> \in Seq(T)
    OBVIOUS
  <2>5. Range(<<<<"enter", Ci>>>> \o <<x>>) = {<<"enter", Ci>>} \cup {x}
    <3> DEFINE e == <<<<"enter", Ci>>>>
               u == <<x>>
    <3>1. e \in Seq(T) /\ u \in Seq(T) /\ Range(e) = {<<"enter", Ci>>} /\ Range(u) = {x}
      BY <2>3, <2>4
    <3> HIDE DEF e, u
    <3>2. Range(e \o u) = {<<"enter", Ci>>} \cup {x}
      BY <3>1, RangeConcatenation
    <3> QED BY <3>2 DEF e, u
  <2> QED BY <1>3, <2>1, <2>2, <2>5
<1> QED BY <1>1, <1>2, <1>3

\* What the steps leave on the agenda that put nothing there.
LEMMA SyncedPops == AgendaInv /\ Synced => After /\ Pops("sync", {})
  BY Returned DEF Synced, manVars

LEMMA CloseTablesPops == AgendaInv /\ CloseTables => After /\ Pops("closets", {})
  BY Returned DEF CloseTables, manVars

LEMMA MonitorTablePops == AgendaInv /\ MonitorTable => After /\ Pops("monitor", {})
  BY Returned DEF MonitorTable, manVars

LEMMA HandledPops == AgendaInv /\ Handled => After /\ Pops("handled", {})
  BY Returned DEF Handled, manVars

LEMMA EnterPops == AgendaInv /\ Enter => After /\ Pops("enter", {})
  BY Returned DEF Enter, manVars

LEMMA CollectPops == AgendaInv /\ Collect => After /\ Pops("collect", {})
  BY Returned DEF Collect, manVars

LEMMA StartPmtPops == AgendaInv /\ StartPmt => After /\ Pops("start", {})
  BY Returned DEF StartPmt, manVars

LEMMA StopPmtPops == AgendaInv /\ StopPmt => After /\ Pops("stoppmt", {})
  BY Returned DEF StopPmt, manVars

LEMMA OpenCiPops == AgendaInv /\ OpenCi => After /\ Pops("open", {})
  BY Returned DEF OpenCi, manVars

LEMMA RegisterPops == AgendaInv /\ Register => After /\ Pops("register", {})
  BY Returned DEF Register, manVars

LEMMA DisablePops == AgendaInv /\ Disable => After /\ Pops("disable", {})
  BY Returned DEF Disable, manVars

LEMMA UncallPops == AgendaInv /\ Uncall => After /\ Pops("uncall", {})
  BY Returned DEF Uncall, manVars

LEMMA StopCiPops == AgendaInv /\ StopCi => After /\ Pops("stopci", {})
  BY Returned DEF StopCi, manVars

LEMMA CloseCaPops == AgendaInv /\ CloseCa => After /\ Pops("closed", {})
  BY Returned DEF CloseCa, manVars

LEMMA ReceivePops == AgendaInv /\ Receive => After /\ Pops("receive", {})
  BY Returned DEF Receive, manVars

LEMMA UnlistPops == AgendaInv /\ Unlist => After /\ Pops("unlist", {})
  BY Returned DEF Unlist, manVars

LEMMA DestroyPops == AgendaInv /\ Destroy => After /\ Pops("destroy", {})
  BY Returned DEF Destroy, manVars

LEMMA SetServicePops == AgendaInv /\ SetService => After /\ Pops("service", {})
  BY Returned DEF SetService, manVars

LEMMA NoMoreServicePops == AgendaInv /\ NoMoreService => After /\ Pops("noservice", {})
  BY Returned DEF NoMoreService, manVars

LEMMA ListCaPops == AgendaInv /\ ListCa => After /\ Pops("list", {})
  BY Returned DEF ListCa, manVars

LEMMA TakeMsgPops == AgendaInv /\ TakeMsg => After /\ Pops("getmsg", {})
  BY Returned DEF TakeMsg, manVars

LEMMA RunTablePops ==
    ASSUME AgendaInv, RunTable
    PROVE  After /\ \E op \in {"runfirst", "runagain"} : At(op) /\ Pops(op, {})
<1>1. CASE At("runfirst")
  BY <1>1, Returned DEF RunTable, manVars
<1>2. CASE At("runagain")
  BY <1>2, Returned DEF RunTable, manVars
<1> QED BY <1>1, <1>2 DEF RunTable

LEMMA SetPausePops ==
    ASSUME AgendaInv, SetPause
    PROVE  After /\ \E op \in {"pause", "resume"} : Pops(op, {})
<1>1. CASE At("pause")
  BY <1>1, Returned DEF SetPause
<1>2. CASE At("resume")
  BY <1>2, Returned DEF SetPause
<1> QED BY <1>1, <1>2 DEF SetPause

\* ... and those that do.
SyncTask == IF dmx.at # "idle" THEN {<<"sync", "none">>} ELSE {}

LEMMA GoodSync ==
    ASSUME NEW op \in {"stop", "timeout", "first", "again"}, Heads(op)
    PROVE  Good(Sync, OpsNow, Rest) /\ Range(Sync) = SyncTask
<1> DEFINE x == <<"sync", "none">>
<1>1. x[1] \in Instead(op) /\ x[1] \notin {"first", "runfirst"} /\ x \in AgendaTasks
  BY DEF Instead, AgendaTasks
<1> HIDE DEF x
<1>2. x[1] \in OpsNow /\ \A y \in Rest : Before(x, y)
  BY <1>1, Replaced
<1>3. Good(<<x>>, OpsNow, Rest) /\ Range(<<x>>) = {x}
  BY <1>1, <1>2, GoodOne
<1> DEFINE b == dmx.at # "idle"
           s == <<x>>
<1>4. b \in BOOLEAN /\ Good(s, OpsNow, Rest) /\ Range(s) = {x}
  BY <1>3
<1> HIDE DEF b, s
<1>5. Good(If(b, s), OpsNow, Rest) /\ Range(If(b, s)) = IF b THEN {x} ELSE {}
  BY <1>4, GoodIf
<1> QED BY <1>5 DEF b, s, x, Sync, SyncTask, Do

LEMMA StopTablePops ==
    ASSUME AgendaInv, StopTable
    PROVE  After /\ Pops("stop", IF table[Of].open THEN SyncTask ELSE {})
<1> DEFINE b == table[Of].open
<1>1. Heads("stop") /\ At("stop")
  BY HeadTask DEF StopTable
<1>2. b \in BOOLEAN
  BY <1>1, TaskType DEF AgendaInv, TypeOK, Heads
<1>3. Good(Sync, OpsNow, Rest) /\ Range(Sync) = SyncTask
  BY <1>1, GoodSync
<1>4. Then(If(b, Sync)) /\ UNCHANGED quit
  BY DEF StopTable, manVars
<1> HIDE DEF b
<1>5. Good(If(b, Sync), OpsNow, Rest) /\ Range(If(b, Sync)) = IF b THEN SyncTask ELSE {}
  BY <1>2, <1>3, GoodIf
<1>6. After /\ Pops("stop", Range(If(b, Sync)))
  BY <1>1, <1>4, <1>5, Popped
<1> QED BY <1>5, <1>6 DEF b

LEMMA TimeOutPops ==
    ASSUME AgendaInv, TimeOut
    PROVE  After /\ Pops("timeout", IF table[Of].run THEN SyncTask ELSE {})
<1> DEFINE b == table[Of].run
<1>1. Heads("timeout") /\ At("timeout")
  BY HeadTask DEF TimeOut
<1>2. b \in BOOLEAN
  BY <1>1, TaskType DEF AgendaInv, TypeOK, Heads
<1>3. Good(Sync, OpsNow, Rest) /\ Range(Sync) = SyncTask
  BY <1>1, GoodSync
<1>4. Then(If(b, Sync)) /\ UNCHANGED quit
  BY DEF TimeOut, manVars
<1> HIDE DEF b
<1>5. Good(If(b, Sync), OpsNow, Rest) /\ Range(If(b, Sync)) = IF b THEN SyncTask ELSE {}
  BY <1>2, <1>3, GoodIf
<1>6. After /\ Pops("timeout", Range(If(b, Sync)))
  BY <1>1, <1>4, <1>5, Popped
<1> QED BY <1>5, <1>6 DEF b

RunOp(op) == IF op = "first" THEN "runfirst" ELSE "runagain"

LEMMA StartTablePops ==
    ASSUME AgendaInv, StartTable
    PROVE  After /\ \E op \in {"first", "again"} :
                       At(op) /\ Pops(op, (IF table[Of].open THEN SyncTask ELSE {})
                                          \cup {<<RunOp(op), Of>>})
<1>1. PICK op \in {"first", "again"} : At(op)
  BY DEF StartTable
<1> DEFINE b == table[Of].open
           x == <<RunOp(op), Of>>
<1>2. Heads(op)
  BY <1>1, HeadTask
<1>3. Of \in Tables
  BY <1>2, TaskType DEF Heads
<1>4. b \in BOOLEAN
  BY <1>3 DEF AgendaInv, TypeOK
<1>5. x[1] \in Instead(op) /\ x[2] = Of /\ x \in AgendaTasks
  BY <1>3 DEF Instead, AgendaTasks, RunOp
<1>6. Good(Sync, OpsNow, Rest) /\ Range(Sync) = SyncTask
  BY <1>2, GoodSync
<1>7. Precede(SyncTask, {x})
  BY DEF Precede, SyncTask, Before, Behind, RunOps, AppOps, RunOp
<1>8. Then(If(b, Sync) \o <<x>>) /\ UNCHANGED quit
  BY <1>1 DEF StartTable, At, For, RunOp
<1> HIDE DEF b, x
<1>9. Good(If(b, Sync), OpsNow, Rest) /\ Range(If(b, Sync)) = IF b THEN SyncTask ELSE {}
  BY <1>4, <1>6, GoodIf
<1>10. Good(<<x>>, OpsNow, Rest) /\ Range(<<x>>) = {x}
  <2>1. x[1] \in OpsNow /\ \A y \in Rest : Before(x, y)
    BY <1>2, <1>5, Replaced
  <2> QED BY <1>5, <2>1, GoodOne
<1>11. Precede(Range(If(b, Sync)), Range(<<x>>))
  BY <1>7, <1>9, <1>10 DEF Precede
<1> DEFINE s == If(b, Sync)
           u == <<x>>
<1>12. Good(s, OpsNow, Rest) /\ Good(u, OpsNow, Rest) /\ Precede(Range(s), Range(u))
  BY <1>9, <1>10, <1>11
<1>13. Range(s) = (IF b THEN SyncTask ELSE {}) /\ Range(u) = {x} /\ Then(s \o u)
  BY <1>8, <1>9, <1>10
<1> HIDE DEF s, u
<1>14. Good(s \o u, OpsNow, Rest)
  BY <1>12, GoodConcat
<1>15. Range(s \o u) = Range(s) \cup Range(u)
  BY <1>12, GoodRange
<1>16. After /\ Pops(op, Range(s \o u))
  BY <1>1, <1>8, <1>13, <1>14, Popped
<1>17. After /\ Pops(op, (IF b THEN SyncTask ELSE {}) \cup {x})
  BY <1>13, <1>15, <1>16
<1> QED BY <1>1, <1>17 DEF b, x

LEMMA LookPops ==
    ASSUME AgendaInv, Look
    PROVE  After /\ \E N : /\ Pops("from", N)
                           /\ \/ \E t \in Tables, k \in 1 .. 4 :
                                    Evt("new", t) \in tsevt /\ N = {<<"new", t>>, <<"from", k>>}
                              \/ \A x \in N : \E t \in Tables :
                                    x = <<"again", t>> /\ Evt("start", t) \in tsevt
<1>1. Heads("from") /\ At("from") /\ UNCHANGED quit
  BY HeadTask DEF Look, manVars
<1>2. Of \in 1 .. 4
  BY <1>1, TaskType DEF Heads
<1> DEFINE new == {i \in Of .. 3 : Evt("new", NewSeq[i]) \in tsevt}
<1>3. CASE new # {}
  <2>1. Min(new) \in new
    <3>1. new \in SUBSET Nat
      BY <1>2
    <3>2. \E m \in new : \A k \in new : m <= k
      <4> HIDE DEF new
      <4> QED BY <1>3, <3>1, Least
    <3> HIDE DEF new
    <3> QED BY <3>2 DEF Min
  <2> DEFINE m == Min(new)
             x == <<"new", NewSeq[m]>>
             z == <<"from", m + 1>>
  <2>2. m \in 1 .. 3 /\ Evt("new", NewSeq[m]) \in tsevt
    <3> HIDE DEF m
    <3> QED BY <1>2, <2>1 DEF m
  <2>3. Then(<<x, z>>)
    BY <1>3 DEF Look, For
  <2> HIDE DEF m
  <2>4. NewSeq[m] \in Tables /\ m + 1 \in 1 .. 4
    BY <2>2 DEF NewSeq, Tables
  <2>5. x \in AgendaTasks /\ z \in AgendaTasks /\ x[1] = "new" /\ z[1] = "from" /\ Before(x, z)
    BY <2>4 DEF AgendaTasks, Before, Behind, RemoveOps
  <2>6. x[1] \in Instead("from") /\ z[1] \in Instead("from")
    BY <2>5 DEF Instead
  <2> HIDE DEF x, z
  <2>7. x[1] \in OpsNow /\ \A y \in Rest : Before(x, y)
    BY <1>1, <2>5, <2>6, Replaced
  <2>8. z[1] \in OpsNow /\ \A y \in Rest : Before(z, y)
    BY <1>1, <2>5, <2>6, Replaced
  <2>9. Good(<<x, z>>, OpsNow, Rest) /\ Range(<<x, z>>) = {x, z}
    BY <2>5, <2>7, <2>8, GoodTwo
  <2>10. After /\ Pops("from", Range(<<x, z>>))
    BY <1>1, <2>3, <2>9, Popped
  <2>11. After /\ Pops("from", {x, z})
    BY <2>9, <2>10
  <2> QED BY <2>2, <2>4, <2>11 DEF x, z
<1>4. CASE new = {}
  <2> DEFINE S == {t \in Tables : Evt("start", t) \in tsevt}
             ss == [i \in 1 .. Len(TableSeq) |-> If(TableSeq[i] \in S, <<For("again", TableSeq[i])>>)]
             T == {<<"again", t>> : t \in S}
  <2>1. Then(FlattenSeq(ss))
    BY <1>4 DEF Look, Each
  <2>2. ss \in [1 .. 3 -> Seq(T)]
    <3>1. Len(TableSeq) = 3
      BY DEF TableSeq
    <3>2. ASSUME NEW i \in 1 .. 3
          PROVE  If(TableSeq[i] \in S, <<For("again", TableSeq[i])>>) \in Seq(T)
      <4>1. CASE TableSeq[i] \in S
        <5>1. <<"again", TableSeq[i]>> \in T
          BY <4>1
        <5> HIDE DEF T, S
        <5> QED BY <4>1, <5>1 DEF If, For
      <4>2. CASE TableSeq[i] \notin S
        BY <4>2 DEF If
      <4> QED BY <4>1, <4>2
    <3> HIDE DEF S, T
    <3> QED BY <3>1, <3>2
  <2>3. T \in SUBSET AgendaTasks
    BY DEF AgendaTasks
  <2>4. \A x \in T : x[1] = "again" /\ x[1] \in Instead("from")
    BY DEF Instead
  <2>5. Precede(T, T)
    BY <2>4 DEF Precede, Before, Behind, RemoveOps
  <2>6. \A x \in T : x[1] \in OpsNow /\ \A y \in Rest : Before(x, y)
    <3> HIDE DEF T
    <3> QED BY <1>1, <2>4, Replaced
  <2>7. Precede(T, Rest)
    BY <2>6 DEF Precede
  <2> HIDE DEF ss
  <2>8. Good(FlattenSeq(ss), OpsNow, Rest) /\ Range(FlattenSeq(ss)) \subseteq T
    <3> DEFINE n == 3
    <3>1. n \in Nat /\ ss \in [1 .. n -> Seq(T)] /\ \A x \in T : x[1] \in OpsNow
      BY <2>2, <2>6
    <3> HIDE DEF T, n
    <3> QED BY <2>3, <2>5, <2>7, <3>1, GoodFlat
  <2>9. After /\ Pops("from", Range(FlattenSeq(ss)))
    BY <1>1, <2>1, <2>8, Popped
  <2> QED BY <2>8, <2>9
<1> QED BY <1>3, <1>4

\* What may come behind which task.
LEMMA BehindOf ==
    /\ Behind("stop") = {"stop", "closets", "first", "handled", "from", "quit"}
    /\ Behind("closets") = {"first", "handled", "from", "quit"}
    /\ Behind("first") = {"first", "handled", "monitor", "from"}
    /\ Behind("runfirst") = {"first", "handled", "monitor", "from"}
    /\ \A op \in {"new", "handled", "monitor"} : Behind(op) = {"from"}
    /\ \A op \in {"again", "runagain"} : Behind(op) = {"again"}
    /\ Behind("timeout") = {"timeout"}
    /\ \A op \in {"arrange", "collect"} : Behind(op) = {"give", "monitor", "from"}
    /\ Behind("give") = {"monitor", "from"}
    /\ \A op \in {"unmatch", "match"} :
          Behind(op) = {"enter", "unmatch", "match", "collect", "give", "monitor", "from"}
    /\ Behind("start") = {"enter", "start", "monitor", "from"}
    /\ Behind("stoppmt") = {"enter", "unmatch", "match", "collect", "give", "monitor", "from",
                            "stoppmt", "service", "noservice"}
    /\ Behind("open") = {"enter", "unmatch", "match", "collect", "give", "monitor", "from",
                         "register"}
    /\ \A op \in RemoveOps \ {"enter"} : Behind(op) = RemoveOps
    /\ Behind("enter") = (RunOps \cup AppOps) \ {"sync", "closets", "stop"}
    /\ Behind("sync") = (RunOps \cup AppOps \cup {"timeout"}) \ {"sync"}
    /\ \A op \in {"from", "register", "list", "receive", "getmsg", "pause", "resume", "service",
                  "noservice", "quit"} : Behind(op) = {}
<1>1. Behind("stop") = {"stop", "closets", "first", "handled", "from", "quit"}
  BY DEF Behind, RemoveOps
<1>2. Behind("closets") = {"first", "handled", "from", "quit"}
  BY DEF Behind, RemoveOps
<1>3. Behind("first") = {"first", "handled", "monitor", "from"}
  BY DEF Behind, RemoveOps
<1>4. Behind("runfirst") = {"first", "handled", "monitor", "from"}
  BY DEF Behind, RemoveOps
<1>5. \A op \in {"new", "handled", "monitor"} : Behind(op) = {"from"}
  BY DEF Behind, RemoveOps
<1>6. \A op \in {"again", "runagain"} : Behind(op) = {"again"}
  BY DEF Behind, RemoveOps
<1>7. Behind("timeout") = {"timeout"}
  BY DEF Behind, RemoveOps
<1>8. \A op \in {"arrange", "collect"} : Behind(op) = {"give", "monitor", "from"}
  BY DEF Behind, RemoveOps
<1>9. Behind("give") = {"monitor", "from"}
  BY DEF Behind, RemoveOps
<1>10. \A op \in {"unmatch", "match"} : Behind(op) = {"enter", "unmatch", "match", "collect", "give", "monitor", "from"}
  BY DEF Behind, RemoveOps
<1>11. Behind("start") = {"enter", "start", "monitor", "from"}
  BY DEF Behind, RemoveOps
<1>12. Behind("stoppmt") = {"enter", "unmatch", "match", "collect", "give", "monitor", "from", "stoppmt", "service", "noservice"}
  BY DEF Behind, RemoveOps
<1>13. Behind("open") = {"enter", "unmatch", "match", "collect", "give", "monitor", "from", "register"}
  BY DEF Behind, RemoveOps
<1>14. \A op \in RemoveOps \ {"enter"} : Behind(op) = RemoveOps
  BY DEF Behind, RemoveOps
<1>15. Behind("enter") = (RunOps \cup AppOps) \ {"sync", "closets", "stop"}
  BY DEF Behind, RemoveOps
<1>16. Behind("sync") = (RunOps \cup AppOps \cup {"timeout"}) \ {"sync"}
  BY DEF Behind, RemoveOps
<1>17. \A op \in {"from", "register", "list", "receive", "getmsg", "pause", "resume", "service", "noservice", "quit"} : Behind(op) = {}
  BY DEF Behind, RemoveOps
<1> QED BY <1>1, <1>2, <1>3, <1>4, <1>5, <1>6, <1>7, <1>8, <1>9, <1>10, <1>11, <1>12, <1>13, <1>14, <1>15, <1>16, <1>17

LEMMA BeforeIs ==
    ASSUME NEW x, NEW y, x[1] \notin {"first", "runfirst", "closed", "destroy"}
    PROVE  Before(x, y) <=> y[1] \in Behind(x[1])
  BY DEF Before

\* close_ts and on_new_ts.
CloseTasks == {<<"stop", "pmt">>, <<"stop", "pat">>, <<"stop", "cat">>, <<"closets", "none">>}
NewTsTasks(t) == CloseTasks \cup {<<"first", "pat">>, <<"first", "cat">>, <<"handled", t>>}

LEMMA GoodCloseTs ==
    ASSUME NEW A, NEW R, {"stop", "closets"} \subseteq A,
           \A y \in R : y[1] \in {"first", "handled", "from", "quit"}
    PROVE  Good(CloseTs, A, R) /\ Range(CloseTs) = CloseTasks
<1> DEFINE a == <<"stop", "pmt">>
           b == <<"stop", "pat">>
           c == <<"stop", "cat">>
           d == <<"closets", "none">>
<1>1. /\ {a, b, c, d} \subseteq AgendaTasks /\ {a[1], b[1], c[1], d[1]} \subseteq A
      /\ Precede({a, b, c, d}, R) /\ Precede({a, b, c}, {a, b, c, d})
  <2>1. a \in AgendaTasks /\ b \in AgendaTasks /\ c \in AgendaTasks /\ d \in AgendaTasks
    BY DEF AgendaTasks, Tables
  <2>2. \A x \in {a, b, c, d}, y \in R : Before(x, y)
    <3>1. \A x \in {a, b, c, d} : x[1] \in {"stop", "closets"}
      OBVIOUS
    <3> HIDE DEF a, b, c, d
    <3> QED BY <3>1, BeforeIs, BehindOf
  <2>3. \A x \in {a, b, c}, y \in {a, b, c, d} : Before(x, y)
    <3>1. /\ \A x \in {a, b, c, d} : x[1] \in {"stop", "closets"}
          /\ \A x \in {a, b, c} : x[1] = "stop"
      OBVIOUS
    <3> HIDE DEF a, b, c, d
    <3> QED BY <3>1, BeforeIs, BehindOf
  <2> QED BY <2>1, <2>2, <2>3 DEF Precede
<1>2. CloseTs = <<a, b, c, d>> /\ CloseTasks = {a, b, c, d}
  BY DEF CloseTs, CloseTasks, For, Do
<1> HIDE DEF a, b, c, d
<1> DEFINE s == <<a, b>>
           u == <<c, d>>
<1>3. <<a, b, c, d>> = s \o u
  <2>1. s \in Seq({a, b, c, d}) /\ u \in Seq({a, b, c, d}) /\ Len(s) = 2 /\ Len(u) = 2
        /\ s[1] = a /\ s[2] = b /\ u[1] = c /\ u[2] = d
    OBVIOUS
  <2> HIDE DEF s, u
  <2> DEFINE w == s \o u
  <2>2. w \in Seq({a, b, c, d}) /\ Len(w) = 2 + 2
        /\ \A i \in 1 .. 2 + 2 : w[i] = IF i <= 2 THEN s[i] ELSE u[i - 2]
    <3>1. w \in Seq({a, b, c, d}) /\ Len(w) = Len(s) + Len(u)
          /\ \A i \in 1 .. Len(s) + Len(u) : w[i] = IF i <= Len(s) THEN s[i] ELSE u[i - Len(s)]
      <4> DEFINE T == {a, b, c, d}
      <4>1. s \in Seq(T) /\ u \in Seq(T)
        BY <2>1
      <4> HIDE DEF T
      <4>2. w \in Seq(T) /\ Len(w) = Len(s) + Len(u)
        BY <4>1, ConcatProperties
      <4>3. \A i \in 1 .. Len(s) + Len(u) : w[i] = IF i <= Len(s) THEN s[i] ELSE u[i - Len(s)]
        BY <4>1, ConcatProperties
      <4> QED BY <4>2, <4>3 DEF T
    <3> HIDE DEF w
    <3> QED BY <2>1, <3>1
  <2>3. w \in Seq({a, b, c, d}) /\ Len(w) = 4 /\ w[1] = a /\ w[2] = b /\ w[3] = c /\ w[4] = d
    <3> HIDE DEF w
    <3> QED BY <2>1, <2>2
  <2> HIDE DEF w
  <2>4. w = <<a, b, c, d>>
    BY <2>3
  <2> QED BY <2>4 DEF w
<1>4. Good(s, A, R) /\ Range(s) = {a, b}
  BY <1>1, GoodTwo DEF Precede
<1>5. Good(u, A, R) /\ Range(u) = {c, d}
  BY <1>1, GoodTwo DEF Precede
<1>6. Precede(Range(s), Range(u))
  BY <1>1, <1>4, <1>5 DEF Precede
<1> HIDE DEF s, u
<1>7. Good(s \o u, A, R)
  BY <1>4, <1>5, <1>6, GoodConcat
<1>8. Range(s \o u) = Range(s) \cup Range(u)
  BY <1>4, <1>5, GoodRange
<1> QED BY <1>2, <1>3, <1>4, <1>5, <1>7, <1>8

LEMMA GoodOnNewTs ==
    ASSUME NEW A, NEW R, {"stop", "closets", "first", "handled"} \subseteq A,
           \A y \in R : y[1] = "from", NEW t \in Tables \cup {"ts"}
    PROVE  /\ Good(OnNewTs \o <<For("handled", t)>>, A, R)
           /\ Range(OnNewTs \o <<For("handled", t)>>) = NewTsTasks(t)
<1> DEFINE a == <<"first", "pat">>
           b == <<"first", "cat">>
           c == <<"handled", t>>
           s == CloseTs
           u == <<a, b>>
           w == <<c>>
<1>1. /\ {a, b, c} \subseteq AgendaTasks /\ {a[1], b[1], c[1]} \subseteq A
      /\ Precede({a, b, c}, R) /\ Precede(CloseTasks, {a, b, c})
      /\ Before(a, b) /\ Before(a, c) /\ Before(b, c)
  <2>1. a \in AgendaTasks /\ b \in AgendaTasks /\ c \in AgendaTasks
    BY DEF AgendaTasks, Tables
  <2>2. \A y \in R : Before(a, y) /\ Before(b, y) /\ Before(c, y)
    BY BehindOf DEF Before
  <2>3. \A x \in CloseTasks, y \in {a, b, c} : Before(x, y)
    <3>1. /\ \A x \in CloseTasks : x[1] \in {"stop", "closets"}
          /\ \A y \in {a, b, c} : y[1] \in {"first", "handled"}
      BY DEF CloseTasks
    <3> HIDE DEF a, b, c
    <3> QED BY <3>1, BeforeIs, BehindOf
  <2>4. Before(a, b) /\ Before(a, c) /\ Before(b, c)
    BY BehindOf DEF Before
  <2> QED BY <2>1, <2>2, <2>3, <2>4 DEF Precede
<1>2. OnNewTs \o <<For("handled", t)>> = (s \o u) \o w
  BY DEF OnNewTs, For
<1>3. NewTsTasks(t) = CloseTasks \cup {a, b, c}
  BY DEF NewTsTasks
<1> HIDE DEF a, b, c
<1>4. Good(s, A, R) /\ Range(s) = CloseTasks
  <2>1. \A y \in R : y[1] \in {"first", "handled", "from", "quit"}
    OBVIOUS
  <2> QED BY <2>1, GoodCloseTs
<1>5. Good(u, A, R) /\ Range(u) = {a, b}
  BY <1>1, GoodTwo DEF Precede
<1>6. Good(w, A, R) /\ Range(w) = {c}
  BY <1>1, GoodOne DEF Precede
<1> HIDE DEF s, u, w
<1>7. Precede(Range(s), Range(u))
  BY <1>1, <1>4, <1>5 DEF Precede
<1>8. Good(s \o u, A, R)
  BY <1>4, <1>5, <1>7, GoodConcat
<1>9. Range(s \o u) = Range(s) \cup Range(u)
  BY <1>4, <1>5, GoodRange
<1>10. Precede(Range(s \o u), Range(w))
  BY <1>1, <1>4, <1>5, <1>6, <1>9 DEF Precede
<1>11. Good((s \o u) \o w, A, R)
  BY <1>6, <1>8, <1>10, GoodConcat
<1>12. Range((s \o u) \o w) = Range(s \o u) \cup Range(w)
  BY <1>6, <1>8, GoodRange
<1> QED BY <1>2, <1>3, <1>4, <1>5, <1>6, <1>9, <1>11, <1>12

LEMMA Greatest ==
    ASSUME NEW S \in SUBSET Versions, S # {}
    PROVE  Max(S) \in S
<1>1. MaxChanges \in Nat
  BY BoundsAssumption
<1> DEFINE U == {MaxChanges - k : k \in S}
<1>2. U \in SUBSET Nat /\ U # {}
  <2>1. \A k \in S : k \in Int /\ 0 <= k /\ k <= MaxChanges
    BY <1>1 DEF Versions
  <2>2. \A k \in S : MaxChanges - k \in Nat
    BY <1>1, <2>1
  <2> QED BY <2>2
<1>3. PICK m \in U : \A k \in U : m <= k
  <2> HIDE DEF U
  <2> QED BY <1>2, Least
<1>4. PICK x \in S : m = MaxChanges - x
  BY <1>3
<1>5. \A y \in S : x >= y
  <2>1. SUFFICES ASSUME NEW y \in S PROVE x >= y
    OBVIOUS
  <2>2. MaxChanges - y \in U
    OBVIOUS
  <2> QED BY <1>1, <1>3, <1>4, <2>2 DEF Versions
<1> QED BY <1>5 DEF Max

\* What is done with a table received for the first time.
FirstTime(M) ==
    \/ /\ M = {}
       /\ ~(Of = "pat" /\ table[Of].got # {} /\ service # NoService)
    \/ /\ table[Of].got # {} /\ Of = "pat" /\ service # NoService
       /\ M = {<<"first", "pmt">>}
    \/ /\ table[Of].got # {} /\ Of = "pmt" /\ Registered(force)
       /\ M \subseteq {<<"enter", Ci>>, <<"start", force>>}
    \/ /\ table[Of].got # {} /\ Of # "pat" /\ force = NoCa
       /\ \E x \in Systems : M = {<<"arrange", x>>}
                                 \cup (IF Of = "pmt" THEN {<<"give", "none">>} ELSE {})

LEMMA FirstTimeTasks ==
    ASSUME AgendaInv, Heads("new")
    PROVE  \E M : /\ FirstTime(M)
                  /\ Good(If(table[Of].got # {}, OnNewTable(Of)), OpsNow, Rest)
                  /\ Range(If(table[Of].got # {}, OnNewTable(Of))) = M
<1> DEFINE s == If(table[Of].got # {}, OnNewTable(Of))
<1> SUFFICES \E M : FirstTime(M) /\ Good(s, OpsNow, Rest) /\ Range(s) = M
  OBVIOUS
<1>1. Of \in Tables /\ table[Of].got \in SUBSET Versions /\ force \in Cas \cup {NoCa}
  BY TaskType DEF AgendaInv, TypeOK, Heads
<1>2. \A x \in AgendaTasks : x[1] \in Instead("new") =>
          x[1] \in OpsNow /\ \A y \in Rest : Before(x, y)
  BY Replaced
<1>3. Instead("new") = {"stop", "closets", "first", "handled", "monitor", "enter", "start",
                        "arrange", "give"}
  BY DEF Instead
<1>4. CASE s = << >> /\ ~(Of = "pat" /\ table[Of].got # {} /\ service # NoService)
  <2>1. Good(s, OpsNow, Rest) /\ Range(s) = {}
    BY <1>4, GoodNone
  <2> QED BY <1>4, <2>1 DEF FirstTime
<1>5. CASE table[Of].got = {}
  BY <1>4, <1>5 DEF If
<1>6. CASE table[Of].got # {} /\ Of = "pat"
  <2>1. s = If(service # NoService, <<For("first", "pmt")>>)
    BY <1>6 DEF OnNewTable, If
  <2>2. CASE service # NoService
    <3> DEFINE x == <<"first", "pmt">>
    <3>1. s = <<x>>
      BY <2>1, <2>2 DEF If, For
    <3>2. x \in AgendaTasks /\ x[1] \in Instead("new")
      BY <1>3 DEF AgendaTasks, Tables
    <3>3. FirstTime({x})
      BY <1>6, <2>2 DEF FirstTime
    <3> HIDE DEF x, s
    <3>4. Good(s, OpsNow, Rest) /\ Range(s) = {x}
      BY <1>2, <3>1, <3>2, GoodOne
    <3> QED BY <3>3, <3>4
  <2>3. CASE service = NoService
    BY <1>4, <2>1, <2>3 DEF If
  <2> QED BY <2>2, <2>3
<1>7. CASE table[Of].got # {} /\ Of # "pat" /\ force # NoCa
  <2>1. s = If(Of = "pmt", CaCall("start", force))
    BY <1>7 DEF OnNewTable, If
  <2>2. CASE Of = "pmt" /\ Registered(force)
    <3> DEFINE x == <<"start", force>>
               e == <<"enter", Ci>>
    <3>1. s = Calling(force, x)
      BY <2>1, <2>2 DEF If, For, CaCall
    <3>2. force \in Cas
      BY <1>1, <1>7
    <3>3. {e, x} \subseteq AgendaTasks /\ e[1] = "enter" /\ x[1] = "start"
      BY <3>2, CaAssumption DEF AgendaTasks, CaOps
    <3>4. FirstTime({e, x}) /\ FirstTime({x})
      BY <1>7, <2>2 DEF FirstTime
    <3>5. s \in Seq({e, x}) /\ Range(s) = IF force = Ci THEN {e, x} ELSE {x}
      <4> DEFINE T == {e, x}
                 c == force
      <4>1. e = <<"enter", Ci>> /\ e \in T /\ x \in T /\ x \in AgendaTasks /\ c \in Cas
        BY <3>2, <3>3
      <4>2. Registered(c) /\ s = Calling(c, x)
        BY <2>2, <3>1
      <4> HIDE DEF e, x, T, c, s
      <4>3. s \in Seq(T)
        BY <4>1, <4>2, CallTasks
      <4>4. Range(s) = IF c = Ci THEN {e, x} ELSE {x}
        BY <4>1, <4>2, CallTasks
      <4> QED BY <4>3, <4>4 DEF T, c
    <3>6. Precede({e, x}, {e, x})
      <4>1. Behind("start") = {"enter", "start", "monitor", "from"}
            /\ {"enter", "start"} \subseteq Behind("enter")
        BY BehindOf DEF RunOps
      <4> QED BY <3>3, <4>1, BeforeIs DEF Precede
    <3> HIDE DEF x, e, s
    <3>7. \A y \in {e, x} : y[1] \in OpsNow /\ \A z \in Rest : Before(y, z)
      BY <1>2, <1>3, <3>3
    <3>8. s \in Seq(AgendaTasks)
      BY <3>3, <3>5
    <3>9. InOrderSeq(s)
      BY <3>5, <3>6 DEF InOrderSeq, Precede
    <3>10. Good(s, OpsNow, Rest)
      <4>1. Range(s) \subseteq {e, x}
        BY <3>5
      <4> QED BY <3>7, <3>8, <3>9, <4>1 DEF Good
    <3> QED BY <3>4, <3>5, <3>10
  <2>3. CASE ~(Of = "pmt" /\ Registered(force))
    <3>1. s = << >>
      BY <2>1, <2>3 DEF CaCall, Calling, If
    <3> QED BY <1>4, <1>7, <3>1
  <2> QED BY <2>2, <2>3
<1>8. CASE table[Of].got # {} /\ Of # "pat" /\ force = NoCa
  <2> DEFINE id == Ids[Of][Max(table[Of].got)]
             x == <<"arrange", id>>
             g == <<"give", "none">>
             u == If(Of = "pmt", <<g>>)
  <2>1. s = <<x>> \o u
    BY <1>8 DEF OnNewTable, If, For, Do
  <2>2. id \in Systems
    BY <1>1, <1>8, Greatest DEF Systems, Tables
  <2>3. {x, g} \subseteq AgendaTasks /\ x[1] = "arrange" /\ g[1] = "give"
    BY <2>2 DEF AgendaTasks
  <2>4. FirstTime({x} \cup (IF Of = "pmt" THEN {g} ELSE {}))
    BY <1>8, <2>2 DEF FirstTime
  <2>5. Before(x, g)
    BY <2>3, BeforeIs, BehindOf
  <2> HIDE DEF id, x, g
  <2>6. \A y \in {x, g} : y[1] \in OpsNow /\ \A z \in Rest : Before(y, z)
    BY <1>2, <1>3, <2>3
  <2>7. Good(<<x>>, OpsNow, Rest) /\ Range(<<x>>) = {x}
    BY <2>3, <2>6, GoodOne
  <2>8. Good(u, OpsNow, Rest) /\ Range(u) = IF Of = "pmt" THEN {g} ELSE {}
    <3>1. Good(<<g>>, OpsNow, Rest) /\ Range(<<g>>) = {g}
      BY <2>3, <2>6, GoodOne
    <3>2. CASE Of = "pmt"
      BY <3>1, <3>2 DEF If
    <3>3. CASE Of # "pmt"
      BY <3>3, GoodNone DEF If
    <3> QED BY <3>2, <3>3
  <2> DEFINE v == <<x>>
  <2>9. Good(v, OpsNow, Rest) /\ Range(v) = {x} /\ s = v \o u
    BY <2>1, <2>7
  <2> HIDE DEF u, v, s
  <2>10. Precede(Range(v), Range(u))
    BY <2>5, <2>8, <2>9 DEF Precede
  <2>11. Good(s, OpsNow, Rest)
    BY <2>8, <2>9, <2>10, GoodConcat
  <2>12. Range(s) = Range(v) \cup Range(u)
    BY <2>8, <2>9, GoodRange
  <2> QED BY <2>4, <2>8, <2>9, <2>11, <2>12
<1> QED BY <1>5, <1>6, <1>7, <1>8

LEMMA NewTablePops ==
    ASSUME AgendaInv, NewTable
    PROVE  After /\ \E N :
               /\ Pops("new", N)
               /\ \/ table[Of].monitor /\ Changed(Of) /\ N = NewTsTasks(Of)
                  \/ table[Of].monitor /\ ~Changed(Of) /\ N = {<<"monitor", Of>>}
                  \/ ~table[Of].monitor /\ \E M : FirstTime(M) /\ N = M \cup {<<"monitor", Of>>}
<1>1. Heads("new") /\ At("new") /\ UNCHANGED quit
  BY HeadTask DEF NewTable, manVars
<1>2. Of \in Tables
  BY <1>1, TaskType DEF Heads
<1>3. \A x \in AgendaTasks : x[1] \in Instead("new") =>
          x[1] \in OpsNow /\ \A y \in Rest : Before(x, y)
  BY <1>1, Replaced
<1>4. Instead("new") = {"stop", "closets", "first", "handled", "monitor", "enter", "start",
                        "arrange", "give"}
  BY DEF Instead
<1> DEFINE m == <<"monitor", Of>>
           w == <<m>>
<1>5. m \in AgendaTasks /\ m[1] = "monitor"
  BY <1>2 DEF AgendaTasks
<1>6. Good(w, OpsNow, Rest) /\ Range(w) = {m}
  <2> HIDE DEF m
  <2> QED BY <1>3, <1>4, <1>5, GoodOne
<1>7. CASE table[Of].monitor /\ Changed(Of)
  <2> DEFINE s == OnNewTs \o <<For("handled", Of)>>
  <2>1. Then(s)
    BY <1>7 DEF NewTable
  <2>2. {"stop", "closets", "first", "handled"} \subseteq OpsNow
    <3>1. Allowed("new") /\ "new" \in OpsNow
      BY <1>1 DEF Heads
    <3> QED BY <3>1 DEF OpsNow, Allowed, RunOps, AppOps, RemoveOps
  <2>3. \A y \in Rest : y[1] = "from"
    <3>1. \A y \in Rest : Before(<<"new", Of>>, y)
      BY <1>1 DEF Heads
    <3> QED BY <3>1, BeforeIs, BehindOf
  <2>4. Good(s, OpsNow, Rest) /\ Range(s) = NewTsTasks(Of)
    BY <1>2, <2>2, <2>3, GoodOnNewTs
  <2> HIDE DEF s
  <2>5. After /\ Pops("new", Range(s))
    BY <1>1, <2>1, <2>4, Popped
  <2> QED BY <1>7, <2>4, <2>5
<1>8. CASE table[Of].monitor /\ ~Changed(Of)
  <2>1. Then(w)
    BY <1>8 DEF NewTable, For
  <2> HIDE DEF w
  <2>2. After /\ Pops("new", Range(w))
    BY <1>1, <1>6, <2>1, Popped
  <2> QED BY <1>6, <1>8, <2>2
<1>9. CASE ~table[Of].monitor
  <2> DEFINE s == If(table[Of].got # {}, OnNewTable(Of))
  <2>1. Then(s \o w)
    BY <1>9 DEF NewTable, For
  <2>2. PICK M : FirstTime(M) /\ Good(s, OpsNow, Rest) /\ Range(s) = M
    BY <1>1, FirstTimeTasks
  <2>3. Precede(M, {m})
    <3>1. \A x \in M : x[1] \in {"first", "enter", "start", "arrange", "give"} /\ (x[1] = "first" => x[2] = "pmt")
      BY <2>2 DEF FirstTime
    <3>2. ASSUME NEW x \in M PROVE Before(x, m)
      <4>1. "monitor" \in Behind(x[1])
        BY <3>1, BehindOf DEF RunOps
      <4> QED BY <3>1, <4>1, <1>5 DEF Before
    <3> QED BY <3>2 DEF Precede
  <2> HIDE DEF s, w, m
  <2>4. Good(s \o w, OpsNow, Rest)
    BY <1>6, <2>2, <2>3, GoodConcat
  <2>5. Range(s \o w) = M \cup {m}
    BY <1>6, <2>2, GoodRange
  <2>6. After /\ Pops("new", Range(s \o w))
    BY <1>1, <2>1, <2>4, Popped
  <2>7. After /\ Pops("new", M \cup {m})
    BY <2>5, <2>6
  <2> QED BY <1>9, <2>2, <2>7 DEF m
<1>10. table[Of].monitor \in BOOLEAN
  BY <1>2 DEF AgendaInv, TypeOK
<1> QED BY <1>7, <1>8, <1>9, <1>10

\* Calls of the CAs that are in a list.
LEMMA EachCall ==
    ASSUME NEW A, NEW R, NEW T \in SUBSET AgendaTasks, Precede(T, T), Precede(T, R),
           \A x \in T : x[1] \in A, NEW ss \in [1 .. Len(CaSeq) -> Seq(T)]
    PROVE  Good(FlattenSeq(ss), A, R) /\ Range(FlattenSeq(ss)) \subseteq T
<1> DEFINE n == Len(CaSeq)
<1>1. n \in Nat /\ ss \in [1 .. n -> Seq(T)]
  BY CaAssumption
<1> HIDE DEF n
<1>2. Good(FlattenSeq(ss), A, R)
  BY <1>1, GoodFlat
<1>3. Range(FlattenSeq(ss)) \subseteq T
  BY <1>1, GoodFlat
<1> QED BY <1>2, <1>3

\* What match_ca_auto asks the CAs.
ArrangeTasks(id) ==
    {<<"enter", Ci>>} \cup {<<"unmatch", <<c, id>>>> : c \in In("ts")}
    \cup {<<"match", <<c, id>>>> : c \in In("man")}

LEMMA ArrangePops ==
    ASSUME AgendaInv, Arrange
    PROVE  After /\ \E N : Pops("arrange", N) /\ N \subseteq ArrangeTasks(Of) \cup {<<"collect", "none">>}
<1>1. Heads("arrange") /\ At("arrange") /\ UNCHANGED quit
  BY HeadTask DEF Arrange, manVars
<1> DEFINE T == ArrangeTasks(Of)
           g == <<"collect", "none">>
           S == In("man") \ AutoDisabled
           us == [i \in 1 .. Len(CaSeq) |-> If(CaSeq[i] \in In("ts"),
                                               Calling(CaSeq[i], For("unmatch", <<CaSeq[i], Of>>)))]
           ms == [i \in 1 .. Len(CaSeq) |-> If(CaSeq[i] \in S,
                                               Calling(CaSeq[i], For("match", <<CaSeq[i], Of>>)))]
<1>2. Then((FlattenSeq(us) \o FlattenSeq(ms)) \o <<g>>)
  BY DEF Arrange, Each, Do
<1>3. Of \in Systems
  BY <1>1, TaskType DEF Heads
<1>4. \A c \in Cas : {<<"unmatch", <<c, Of>>>>, <<"match", <<c, Of>>>>} \subseteq AgendaTasks
  BY <1>3 DEF AgendaTasks
<1>5. <<"enter", Ci>> \in AgendaTasks /\ g \in AgendaTasks
  BY CaAssumption DEF AgendaTasks, CaOps
<1>6. T \in SUBSET AgendaTasks /\ \A x \in T : x[1] \in {"enter", "unmatch", "match"}
  <2>1. In("ts") \subseteq Cas /\ In("man") \subseteq Cas
    BY DEF In
  <2>2. ASSUME NEW x \in T
        PROVE  x \in AgendaTasks /\ x[1] \in {"enter", "unmatch", "match"}
    <3>1. \/ x = <<"enter", Ci>>
          \/ \E c \in In("ts") : x = <<"unmatch", <<c, Of>>>>
          \/ \E c \in In("man") : x = <<"match", <<c, Of>>>>
      BY DEF ArrangeTasks
    <3>2. ASSUME NEW c \in Cas
          PROVE  /\ <<"unmatch", <<c, Of>>>> \in AgendaTasks /\ <<"match", <<c, Of>>>> \in AgendaTasks
                 /\ <<"unmatch", <<c, Of>>>>[1] = "unmatch" /\ <<"match", <<c, Of>>>>[1] = "match"
      BY <1>4
    <3>3. CASE x = <<"enter", Ci>>
      BY <1>5, <3>3
    <3>4. CASE \E c \in In("ts") : x = <<"unmatch", <<c, Of>>>>
      <4>1. PICK c \in Cas : x = <<"unmatch", <<c, Of>>>>
        BY <2>1, <3>4
      <4> QED BY <3>2, <4>1
    <3>5. CASE \E c \in In("man") : x = <<"match", <<c, Of>>>>
      <4>1. PICK c \in Cas : x = <<"match", <<c, Of>>>>
        BY <2>1, <3>5
      <4> QED BY <3>2, <4>1
    <3> QED BY <3>1, <3>3, <3>4, <3>5
  <2> HIDE DEF T
  <2> QED BY <2>2
<1>7. \A i \in 1 .. Len(CaSeq) : CaSeq[i] \in Cas
  BY DEF Cas
<1>8. us \in [1 .. Len(CaSeq) -> Seq(T)]
  <2>1. ASSUME NEW i \in 1 .. Len(CaSeq)
        PROVE  If(CaSeq[i] \in In("ts"), Calling(CaSeq[i], For("unmatch", <<CaSeq[i], Of>>))) \in Seq(T)
    <3> DEFINE c == CaSeq[i]
               x == <<"unmatch", <<c, Of>>>>
    <3>1. CASE c \in In("ts")
      <4>1. c \in Cas /\ x \in AgendaTasks /\ x \in T /\ <<"enter", Ci>> \in T
        BY <1>4, <1>7, <3>1 DEF ArrangeTasks
      <4> HIDE DEF c, x, T
      <4>2. Calling(c, x) \in Seq(T)
        BY <4>1, CallTasks
      <4> QED BY <3>1, <4>2 DEF If, For, c, x
    <3>2. CASE c \notin In("ts")
      BY <3>2 DEF If
    <3> QED BY <3>1, <3>2
  <2> HIDE DEF T
  <2> QED BY <2>1
<1>9. ms \in [1 .. Len(CaSeq) -> Seq(T)]
  <2>1. ASSUME NEW i \in 1 .. Len(CaSeq)
        PROVE  If(CaSeq[i] \in S, Calling(CaSeq[i], For("match", <<CaSeq[i], Of>>))) \in Seq(T)
    <3> DEFINE c == CaSeq[i]
               x == <<"match", <<c, Of>>>>
    <3>1. CASE c \in S
      <4>1. c \in Cas /\ x \in AgendaTasks /\ x \in T /\ <<"enter", Ci>> \in T
        BY <1>4, <1>7, <3>1 DEF ArrangeTasks
      <4> HIDE DEF c, x, T, S
      <4>2. Calling(c, x) \in Seq(T)
        BY <4>1, CallTasks
      <4> QED BY <3>1, <4>2 DEF If, For, c, x
    <3>2. CASE c \notin S
      BY <3>2 DEF If
    <3> QED BY <3>1, <3>2
  <2> HIDE DEF T, S
  <2> QED BY <2>1
<1>10. Precede(T, T) /\ Precede(T, {g})
  <2>1. \A op \in {"enter", "unmatch", "match"} :
            {"enter", "unmatch", "match", "collect"} \subseteq Behind(op)
    BY BehindOf DEF RunOps
  <2>2. g[1] = "collect"
    OBVIOUS
  <2> HIDE DEF T, g
  <2> QED BY <1>6, <2>1, <2>2, BeforeIs DEF Precede
<1>11. \A x \in T \cup {g} : x[1] \in OpsNow /\ \A y \in Rest : Before(x, y)
  <2>1. \A x \in T \cup {g} : x[1] \in Instead("arrange") /\ x[1] \notin {"first", "runfirst"}
    BY <1>6 DEF Instead
  <2> HIDE DEF T, g
  <2> QED BY <1>1, <2>1, Replaced
<1>12. Precede(T, Rest)
  BY <1>11 DEF Precede
<1> HIDE DEF T, S, us, ms, g
<1>13. Good(FlattenSeq(us), OpsNow, Rest) /\ Range(FlattenSeq(us)) \subseteq T
  BY <1>6, <1>8, <1>10, <1>11, <1>12, EachCall
<1>14. Good(FlattenSeq(ms), OpsNow, Rest) /\ Range(FlattenSeq(ms)) \subseteq T
  BY <1>6, <1>9, <1>10, <1>11, <1>12, EachCall
<1> DEFINE a == FlattenSeq(us)
           b == FlattenSeq(ms)
           w == <<g>>
<1>15. Good(w, OpsNow, Rest) /\ Range(w) = {g}
  BY <1>5, <1>11, GoodOne
<1> HIDE DEF a, b, w
<1>16. Good(a, OpsNow, Rest) /\ Range(a) \subseteq T /\ Good(b, OpsNow, Rest) /\ Range(b) \subseteq T
       /\ Then((a \o b) \o w)
  BY <1>2, <1>13, <1>14 DEF a, b, w
<1>17. Precede(Range(a), Range(b))
  BY <1>10, <1>16 DEF Precede
<1>18. Good(a \o b, OpsNow, Rest)
  BY <1>16, <1>17, GoodConcat
<1>19. Range(a \o b) = Range(a) \cup Range(b)
  BY <1>16, GoodRange
<1>20. Precede(Range(a \o b), Range(w))
  BY <1>10, <1>15, <1>16, <1>19 DEF Precede
<1>21. Good((a \o b) \o w, OpsNow, Rest)
  BY <1>15, <1>18, <1>20, GoodConcat
<1>22. Range((a \o b) \o w) = Range(a \o b) \cup Range(w)
  BY <1>15, <1>18, GoodRange
<1>23. After /\ Pops("arrange", Range((a \o b) \o w))
  BY <1>1, <1>16, <1>21, Popped
<1>24. Range((a \o b) \o w) \subseteq T \cup {g}
  BY <1>15, <1>16, <1>19, <1>22
<1> QED BY <1>23, <1>24 DEF T, g

\* One call of a CA in place of the head.
LEMMA CallPops ==
    ASSUME AgendaInv, NEW op, At(op), UNCHANGED quit, NEW c \in Cas, NEW new \in CaOps,
           {"enter", new} \subseteq Instead(op), Then(CaCall(new, c)),
           new \in Behind("enter")
    PROVE  After /\ \E N : /\ Pops(op, N) /\ N \subseteq {<<"enter", Ci>>, <<new, c>>}
                           /\ Registered(c) => <<new, c>> \in N
<1> DEFINE x == <<new, c>>
           e == <<"enter", Ci>>
           T == {e, x}
           s == Calling(c, x)
<1>1. Then(s)
  BY DEF CaCall, For
<1>2. T \subseteq AgendaTasks
  BY CaAssumption DEF AgendaTasks, CaOps
<1>3. \A y \in T : y[1] \in OpsNow /\ \A z \in Rest : Before(y, z)
  <2>1. \A y \in T : y[1] \in Instead(op) /\ y[1] \notin {"first", "runfirst"}
    BY DEF CaOps
  <2>2. Heads(op)
    BY HeadTask
  <2> HIDE DEF T
  <2> QED BY <2>1, <2>2, Replaced
<1>4. Range(s) = IF Registered(c) THEN (IF c = Ci THEN {<<"enter", Ci>>, x} ELSE {x}) ELSE {}
  <2>1. x \in AgendaTasks /\ x \in T /\ <<"enter", Ci>> \in T
    BY <1>2
  <2> HIDE DEF x, T
  <2> QED BY <2>1, CallTasks
<1>5. Before(e, x) /\ e \in AgendaTasks /\ x \in AgendaTasks /\ e \in T /\ x \in T
  BY <1>2, BeforeIs
<1>6. s \in {<< >>, << >> \o <<x>>, <<e>> \o <<x>>}
  BY DEF Calling, If, For
<1>7. << >> \o <<x>> = <<x>>
  BY <1>5, ConcatEmptySeq, <<x>> \in Seq(AgendaTasks)
<1> HIDE DEF s, T, x, e
<1>8. Good(s, OpsNow, Rest)
  <2> DEFINE u == <<x>>
             w == <<e>>
  <2>1. Good(u, OpsNow, Rest) /\ Range(u) = {x} /\ Good(w, OpsNow, Rest) /\ Range(w) = {e}
    BY <1>3, <1>5, GoodOne
  <2>2. s = << >> \/ s = u \/ s = w \o u
    BY <1>6, <1>7
  <2> HIDE DEF u, w
  <2>3. Precede(Range(w), Range(u))
    BY <1>5, <2>1 DEF Precede
  <2>4. Good(w \o u, OpsNow, Rest)
    BY <2>1, <2>3, GoodConcat
  <2> QED BY <2>1, <2>2, <2>4, GoodNone
<1>9. After /\ Pops(op, Range(s))
  BY <1>1, <1>8, Popped
<1>10. (Registered(c) => x \in Range(s)) /\ Range(s) \subseteq {e, x}
  BY <1>4 DEF e
<1> QED BY <1>9, <1>10 DEF x, e

LEMMA UnmatchPops ==
    ASSUME AgendaInv, Unmatch
    PROVE  After /\ \E N : /\ Pops("unmatch", N)
                           /\ \/ N = {} /\ UNCHANGED listed
                              \/ /\ listed' = [listed EXCEPT ![Of[1]] = "tmp"]
                                 /\ N \subseteq {<<"enter", Ci>>, <<"stoppmt", Of[1]>>}
                                 /\ Registered(Of[1]) => <<"stoppmt", Of[1]>> \in N
<1>1. Heads("unmatch") /\ At("unmatch") /\ UNCHANGED quit
  BY HeadTask DEF Unmatch, manVars
<1>2. Of[1] \in Cas
  BY <1>1, TaskType DEF Heads
<1>3. CASE Return /\ UNCHANGED <<listed, bound>>
  BY <1>1, <1>3, Returned
<1>4. CASE listed' = [listed EXCEPT ![Of[1]] = "tmp"] /\ Then(CaCall("stoppmt", Of[1]))
  <2>1. {"enter", "stoppmt"} \subseteq Instead("unmatch") /\ "stoppmt" \in CaOps
    BY DEF Instead, CaOps
  <2>2. "stoppmt" \in Behind("enter")
    BY BehindOf DEF RunOps
  <2> DEFINE c == Of[1]
  <2>3. c \in Cas /\ Then(CaCall("stoppmt", c))
    BY <1>2, <1>4
  <2> HIDE DEF c
  <2>4. After /\ \E N : /\ Pops("unmatch", N) /\ N \subseteq {<<"enter", Ci>>, <<"stoppmt", c>>}
                        /\ Registered(c) => <<"stoppmt", c>> \in N
    BY <1>1, <2>1, <2>2, <2>3, CallPops
  <2> QED BY <1>4, <2>4 DEF c
<1> QED BY <1>3, <1>4 DEF Unmatch

LEMMA MatchPops ==
    ASSUME AgendaInv, Match
    PROVE  After /\ \E N : /\ Pops("match", N)
                           /\ \/ N = {} /\ ~Matches(Of[1], Of[2])
                              \/ Matches(Of[1], Of[2]) /\ N \subseteq {<<"enter", Ci>>, <<"open", Of[1]>>}
<1>1. Heads("match") /\ At("match") /\ UNCHANGED quit
  BY HeadTask DEF Match, manVars
<1>2. Of[1] \in Cas
  BY <1>1, TaskType DEF Heads
<1>3. CASE ~Matches(Of[1], Of[2])
  <2>1. Return
    BY <1>3 DEF Match, If, Return
  <2> QED BY <1>1, <1>3, <2>1, Returned
<1>4. CASE Matches(Of[1], Of[2])
  <2>1. {"enter", "open"} \subseteq Instead("match") /\ "open" \in CaOps
    BY DEF Instead, CaOps
  <2> DEFINE c == Of[1]
  <2>2. Then(CaCall("open", c))
    BY <1>4 DEF Match, If
  <2>3. c \in Cas
    BY <1>2
  <2> HIDE DEF c
  <2>4. "open" \in Behind("enter")
    BY BehindOf DEF RunOps
  <2>5. After /\ \E N : Pops("match", N) /\ N \subseteq {<<"enter", Ci>>, <<"open", c>>}
    BY <1>1, <2>1, <2>2, <2>3, <2>4, CallPops
  <2> QED BY <1>4, <2>5 DEF c
<1> QED BY <1>3, <1>4

LEMMA GivePops ==
    ASSUME AgendaInv, Give
    PROVE  After /\ \E N : /\ Pops("give", N)
                           /\ \/ N = {}
                              \/ ~disabled /\ N \subseteq {<<"enter", Ci>>} \cup {<<"start", c>> : c \in In("ts")}
<1>1. Heads("give") /\ At("give") /\ UNCHANGED quit
  BY HeadTask DEF Give, manVars
<1>2. CASE disabled
  <2>1. Return
    BY <1>2 DEF Give, If, Return
  <2> QED BY <1>1, <2>1, Returned
<1>3. CASE ~disabled
  <2> DEFINE T == {<<"enter", Ci>>} \cup {<<"start", c>> : c \in In("ts")}
             ss == [i \in 1 .. Len(CaSeq) |-> If(CaSeq[i] \in In("ts"), CaCall("start", CaSeq[i]))]
  <2>1. Then(FlattenSeq(ss))
    BY <1>3 DEF Give, Each, If
  <2>2. \A c \in Cas : <<"start", c>> \in AgendaTasks
    BY DEF AgendaTasks, CaOps
  <2>3. <<"enter", Ci>> \in AgendaTasks /\ In("ts") \subseteq Cas
    BY CaAssumption DEF AgendaTasks, CaOps, In
  <2>4. T \in SUBSET AgendaTasks /\ \A x \in T : x[1] \in {"enter", "start"}
    BY <2>2, <2>3
  <2>5. ss \in [1 .. Len(CaSeq) -> Seq(T)]
    <3>1. ASSUME NEW i \in 1 .. Len(CaSeq)
          PROVE  If(CaSeq[i] \in In("ts"), CaCall("start", CaSeq[i])) \in Seq(T)
      <4> DEFINE c == CaSeq[i]
                 x == <<"start", c>>
      <4>1. CASE c \in In("ts")
        <5>1. c \in Cas /\ x \in AgendaTasks /\ x \in T /\ <<"enter", Ci>> \in T
          BY <2>2, <2>3, <4>1
        <5> HIDE DEF c, x, T
        <5>2. Calling(c, x) \in Seq(T)
          BY <5>1, CallTasks
        <5> QED BY <4>1, <5>2 DEF If, For, CaCall, c, x
      <4>2. CASE c \notin In("ts")
        BY <4>2 DEF If
      <4> QED BY <4>1, <4>2
    <3> HIDE DEF T
    <3> QED BY <3>1
  <2>6. Precede(T, T)
    <3>1. \A op \in {"enter", "start"} : {"enter", "start"} \subseteq Behind(op)
      BY BehindOf DEF RunOps
    <3> HIDE DEF T
    <3> QED BY <2>4, <3>1, BeforeIs DEF Precede
  <2>7. \A x \in T : x[1] \in OpsNow /\ \A y \in Rest : Before(x, y)
    <3>1. \A x \in T : x[1] \in Instead("give") /\ x[1] \notin {"first", "runfirst"}
      BY <2>4 DEF Instead
    <3> HIDE DEF T
    <3> QED BY <1>1, <3>1, Replaced
  <2>8. Precede(T, Rest)
    BY <2>7 DEF Precede
  <2> HIDE DEF T, ss
  <2>9. Good(FlattenSeq(ss), OpsNow, Rest) /\ Range(FlattenSeq(ss)) \subseteq T
    BY <2>4, <2>5, <2>6, <2>7, <2>8, EachCall
  <2>10. After /\ Pops("give", Range(FlattenSeq(ss)))
    BY <1>1, <2>1, <2>9, Popped
  <2> QED BY <1>3, <2>9, <2>10 DEF T
<1>4. disabled \in BOOLEAN
  BY DEF AgendaInv, TypeOK
<1> QED BY <1>2, <1>3, <1>4

-----------------------------------------------------------------------------
(* Calls, and what else begins with an empty agenda.                         *)

\* ca_close.
ClosingTasks(c) ==
    {<<"disable", c>>, <<"closed", c>>}
    \cup (IF c = Ci THEN {<<"enter", c>>, <<"uncall", c>>, <<"stopci", c>>} ELSE {})

LEMMA RemoveBehind ==
    \A op \in RemoveOps : RemoveOps \subseteq Behind(op)
<1>1. RemoveOps \subseteq Behind("enter")
  BY BehindOf DEF RunOps, AppOps, RemoveOps
<1> QED BY <1>1, BehindOf

LEMMA CaTask ==
    ASSUME NEW c \in Cas, NEW op \in CaOps
    PROVE  <<op, c>> \in AgendaTasks
  BY DEF AgendaTasks

LEMMA ClosingGood ==
    ASSUME NEW c \in Cas, Registered(c)
    PROVE  /\ Good(Closing(c), RemoveOps, {})
           /\ Range(Closing(c)) \subseteq ClosingTasks(c)
           /\ <<"closed", c>> \in Range(Closing(c))
<1> DEFINE e == <<"enter", c>>
           d == <<"disable", c>>
           n == <<"uncall", c>>
           p == <<"stopci", c>>
           z == <<"closed", c>>
<1>1. {e, d, n, p, z} \subseteq AgendaTasks
  <2>1. {"enter", "disable", "uncall", "stopci", "closed"} \subseteq CaOps
    BY DEF CaOps
  <2> QED BY <2>1, CaTask
<1>2. \A x \in {e, d, n, p} : \A y \in {e, d, n, p, z} : Before(x, y)
  <2>1. \A x \in {e, d, n, p} : x[1] \in RemoveOps /\ x[1] \notin {"first", "runfirst", "closed", "destroy"}
    BY DEF RemoveOps
  <2>2. \A y \in {e, d, n, p, z} : y[1] \in RemoveOps
    BY DEF RemoveOps
  <2> HIDE DEF e, d, n, p, z
  <2> QED BY <2>1, <2>2, RemoveBehind, BeforeIs
<1>3. \A x \in {e, d, n, p, z} : x[1] \in RemoveOps
  BY DEF RemoveOps
<1>4. Closing(c) = (CaCall("disable", c) \o If(c = Ci, <<e, n, p>>)) \o <<z>>
  BY DEF Closing, For
<1>5. CASE c # Ci
  <2>1. /\ Calling(c, d) = << >> \o <<d>> /\ << >> \o <<d>> = <<d>> /\ <<d>> \o << >> = <<d>>
    BY <1>1, <1>5, ConcatEmptySeq, <<d>> \in Seq(AgendaTasks) DEF Calling, If
  <2>2. Closing(c) = <<d>> \o <<z>>
    BY <1>4, <1>5, <2>1 DEF CaCall, If, For
  <2> HIDE DEF d, z
  <2> DEFINE u == <<d>>
             w == <<z>>
  <2>3. Good(u, RemoveOps, {}) /\ Range(u) = {d} /\ Good(w, RemoveOps, {}) /\ Range(w) = {z}
    BY <1>1, <1>3, GoodOne
  <2> HIDE DEF u, w
  <2>4. Precede(Range(u), Range(w))
    BY <1>2, <2>3 DEF Precede
  <2>5. Good(u \o w, RemoveOps, {})
    BY <2>3, <2>4, GoodConcat
  <2>6. Range(u \o w) = Range(u) \cup Range(w)
    BY <2>3, GoodRange
  <2>7. Closing(c) = u \o w
    BY <2>2 DEF u, w
  <2>8. Range(Closing(c)) = {d, z}
    BY <2>3, <2>6, <2>7
  <2> QED BY <2>5, <2>7, <2>8 DEF ClosingTasks, d, z
<1>6. CASE c = Ci
  <2> DEFINE u == <<e>>
             v == <<d>>
             q == <<e, n, p>>
             w == <<z>>
  <2>1. Closing(c) = ((u \o v) \o q) \o w
    <3>1. Calling(c, d) = <<e>> \o <<d>>
      BY <1>6 DEF Calling, If, For
    <3> QED BY <1>4, <1>6, <3>1 DEF CaCall, If, For
  <2> HIDE DEF e, d, n, p, z
  <2>2. Good(u, RemoveOps, {}) /\ Range(u) = {e}
    BY <1>1, <1>3, GoodOne
  <2>3. Good(v, RemoveOps, {}) /\ Range(v) = {d}
    BY <1>1, <1>3, GoodOne
  <2>4. Good(q, RemoveOps, {}) /\ Range(q) = {e, n, p}
    BY <1>1, <1>2, <1>3, GoodThree
  <2>5. Good(w, RemoveOps, {}) /\ Range(w) = {z}
    BY <1>1, <1>3, GoodOne
  <2> HIDE DEF u, v, q, w
  <2>6. Precede(Range(u), Range(v))
    BY <1>2, <2>2, <2>3 DEF Precede
  <2>7. Good(u \o v, RemoveOps, {})
    BY <2>2, <2>3, <2>6, GoodConcat
  <2>8. Range(u \o v) = {e, d}
    BY <2>2, <2>3, GoodRange
  <2>9. Precede(Range(u \o v), Range(q))
    BY <1>2, <2>4, <2>8 DEF Precede
  <2>10. Good((u \o v) \o q, RemoveOps, {})
    BY <2>4, <2>7, <2>9, GoodConcat
  <2>11. Range((u \o v) \o q) = {e, d, n, p}
    BY <2>4, <2>7, <2>8, GoodRange
  <2>12. Precede(Range((u \o v) \o q), Range(w))
    BY <1>2, <2>5, <2>11 DEF Precede
  <2>13. Good(((u \o v) \o q) \o w, RemoveOps, {})
    BY <2>5, <2>10, <2>12, GoodConcat
  <2>14. Range(((u \o v) \o q) \o w) = {e, d, n, p, z}
    BY <2>5, <2>10, <2>11, GoodRange
  <2>15. Good(Closing(c), RemoveOps, {}) /\ Range(Closing(c)) = {e, d, n, p, z}
    BY <2>1, <2>13, <2>14
  <2> QED BY <1>6, <2>15 DEF ClosingTasks, e, d, n, p, z
<1> QED BY <1>5, <1>6

\* What do_rm_ca does with the CAs of a set.
Removals(s, C) ==
    /\ Good(s, RemoveOps, {})
    /\ \A x \in Range(s) : x[2] \in C /\ (x[1] \in {"uncall", "stopci"} => x[2] = Ci)
    /\ \A c \in Cas :
          /\ <<"unlist", c>> \in Range(s) => <<"destroy", c>> \in Range(s)
          /\ {<<"disable", c>>, <<"uncall", c>>, <<"stopci", c>>} \cap Range(s) # {}
                => <<"closed", c>> \in Range(s)
          /\ <<"destroy", c>> \in Range(s) =>
                <<"unlist", c>> \in Range(s) /\ (status[c] => <<"closed", c>> \in Range(s))

LEMMA GoodRemoval ==
    ASSUME NEW x \in AgendaTasks, x[1] \in RemoveOps
    PROVE  Good(<<x>>, RemoveOps, {}) /\ Range(<<x>>) = {x}
<1> DEFINE R == {}
<1>1. \A y \in R : Before(x, y)
  OBVIOUS
<1> HIDE DEF R
<1>2. Good(<<x>>, RemoveOps, R) /\ Range(<<x>>) = {x}
  BY <1>1, GoodOne
<1> QED BY <1>2 DEF R

LEMMA RemovingOne ==
    ASSUME NEW c \in Cas, Registered(c), status[c] \in BOOLEAN
    PROVE  Removals(Removing(c), {c}) /\ <<"unlist", c>> \in Range(Removing(c))
<1> DEFINE a == <<"unlist", c>>
           z == <<"destroy", c>>
           s == If(status[c], Closing(c))
           u == <<a>>
           w == <<z>>
<1>1. Removing(c) = (u \o s) \o w
  BY DEF Removing, For
<1>2. a \in AgendaTasks /\ z \in AgendaTasks /\ a[1] = "unlist" /\ z[1] = "destroy"
      /\ a[2] = c /\ z[2] = c
  <2>1. {"unlist", "destroy"} \subseteq CaOps
    BY DEF CaOps
  <2> QED BY <2>1, CaTask
<1>3. {"unlist", "destroy", "disable", "uncall", "stopci", "closed", "enter"} = RemoveOps
  BY DEF RemoveOps
<1>4. /\ Good(s, RemoveOps, {}) /\ Range(s) \subseteq ClosingTasks(c)
      /\ status[c] => <<"closed", c>> \in Range(s)
      /\ ~status[c] => Range(s) = {}
  <2>1. CASE status[c]
    BY <2>1, ClosingGood DEF If
  <2>2. CASE ~status[c]
    BY <2>2, GoodNone DEF If
  <2> QED BY <2>1, <2>2
<1>5. \A x \in ClosingTasks(c) : /\ x[1] \in {"disable", "uncall", "stopci", "closed", "enter"}
                                 /\ x[2] = c /\ (x[1] \in {"uncall", "stopci"} => c = Ci)
  BY DEF ClosingTasks
<1> HIDE DEF a, z
<1>6. Good(u, RemoveOps, {}) /\ Range(u) = {a} /\ Good(w, RemoveOps, {}) /\ Range(w) = {z}
  <2>1. \A x \in {a, z} : x \in AgendaTasks /\ x[1] \in RemoveOps
    BY <1>2 DEF RemoveOps
  <2>2. ASSUME NEW x \in {a, z} PROVE Good(<<x>>, RemoveOps, {}) /\ Range(<<x>>) = {x}
    BY <2>1, GoodRemoval
  <2>3. Good(u, RemoveOps, {}) /\ Range(u) = {a}
    BY <2>2
  <2>4. Good(w, RemoveOps, {}) /\ Range(w) = {z}
    BY <2>2
  <2> QED BY <2>3, <2>4
<1> HIDE DEF u, w, s
<1>7. Precede(Range(u), Range(s))
  BY <1>2, <1>3, <1>4, <1>5, <1>6, RemoveBehind, BeforeIs DEF Precede
<1>8. Good(u \o s, RemoveOps, {})
  BY <1>4, <1>6, <1>7, GoodConcat
<1>9. Range(u \o s) = {a} \cup Range(s)
  BY <1>4, <1>6, GoodRange
<1>10. Precede(Range(u \o s), Range(w))
  <2>1. ASSUME NEW x \in Range(u \o s) PROVE Before(x, z)
    <3>1. x[1] \in RemoveOps \ {"destroy"}
      BY <1>2, <1>3, <1>4, <1>5, <1>9
    <3>2. z[1] \in Behind(x[1])
      BY <1>2, <1>3, <3>1, RemoveBehind
    <3> QED BY <1>2, <1>3, <3>1, <3>2 DEF Before
  <2> QED BY <1>6, <2>1 DEF Precede
<1>11. Good((u \o s) \o w, RemoveOps, {})
  BY <1>6, <1>8, <1>10, GoodConcat
<1>12. Range((u \o s) \o w) = {a} \cup Range(s) \cup {z}
  BY <1>6, <1>8, <1>9, GoodRange
<1> DEFINE r == Range(Removing(c))
<1>13. r = {a} \cup Range(s) \cup {z} /\ Good(Removing(c), RemoveOps, {})
  BY <1>1, <1>11, <1>12
<1> HIDE DEF r
<1>14. \A x \in r : x[2] \in {c} /\ (x[1] \in {"uncall", "stopci"} => x[2] = Ci)
  BY <1>2, <1>4, <1>5, <1>13
<1>15. ASSUME NEW d \in Cas
       PROVE  /\ <<"unlist", d>> \in r => <<"destroy", d>> \in r
              /\ {<<"disable", d>>, <<"uncall", d>>, <<"stopci", d>>} \cap r # {}
                    => <<"closed", d>> \in r
              /\ <<"destroy", d>> \in r =>
                    <<"unlist", d>> \in r /\ (status[d] => <<"closed", d>> \in r)
  <2>1. CASE d = c
    <3>1. <<"unlist", d>> \in r /\ <<"destroy", d>> \in r /\ (status[c] => <<"closed", d>> \in r)
      BY <1>4, <1>13, <2>1 DEF a, z
    <3>2. ~status[c] => {<<"disable", d>>, <<"uncall", d>>, <<"stopci", d>>} \cap r = {}
      BY <1>4, <1>13, <2>1 DEF a, z
    <3> QED BY <2>1, <3>1, <3>2
  <2>2. CASE d # c
    <3>1. \A op : <<op, d>> \notin r
      BY <1>14, <2>2
    <3> QED BY <3>1
  <2> QED BY <2>1, <2>2
<1>16. <<"unlist", c>> \in r
  BY <1>13 DEF a
<1> QED BY <1>13, <1>14, <1>15, <1>16 DEF Removals, r

LEMMA RemovingNone ==
    ASSUME NEW C
    PROVE  Removals(<< >>, C)
<1> DEFINE R == {}
<1> HIDE DEF R
<1>1. Good(<< >>, RemoveOps, R) /\ Range(<< >>) = {}
  BY GoodNone
<1> QED BY <1>1 DEF Removals, R

LEMMA RemovingMore ==
    ASSUME NEW s, NEW u, NEW C, NEW D, Removals(s, C), Removals(u, D), C \cap D = {}
    PROVE  Removals(s \o u, C \cup D)
<1> DEFINE r == Range(s \o u)
           R == {}
<1>1. Good(s, RemoveOps, R) /\ Good(u, RemoveOps, R)
  BY DEF Removals
<1> HIDE DEF R
<1>2. r = Range(s) \cup Range(u)
  BY <1>1, GoodRange
<1>3. Precede(Range(s), Range(u))
  <2>1. ASSUME NEW x \in Range(s), NEW y \in Range(u) PROVE Before(x, y)
    <3>1. x[1] \in RemoveOps /\ y[1] \in RemoveOps
      BY <1>1 DEF Good
    <3>2. y[1] \in Behind(x[1]) /\ x[1] \notin {"first", "runfirst"}
      BY <3>1, RemoveBehind DEF RemoveOps
    <3>3. x[2] # y[2]
      BY DEF Removals
    <3> QED BY <3>2, <3>3 DEF Before
  <2> QED BY <2>1 DEF Precede
<1>4. Good(s \o u, RemoveOps, R)
  BY <1>1, <1>3, GoodConcat
<1> HIDE DEF r
<1>5. \A x \in r : x[2] \in C \cup D /\ (x[1] \in {"uncall", "stopci"} => x[2] = Ci)
  BY <1>2 DEF Removals
<1>6. ASSUME NEW c \in Cas
      PROVE  /\ <<"unlist", c>> \in r => <<"destroy", c>> \in r
             /\ {<<"disable", c>>, <<"uncall", c>>, <<"stopci", c>>} \cap r # {}
                   => <<"closed", c>> \in r
             /\ <<"destroy", c>> \in r =>
                   <<"unlist", c>> \in r /\ (status[c] => <<"closed", c>> \in r)
  BY <1>2 DEF Removals
<1> QED BY <1>4, <1>5, <1>6 DEF Removals, r, R

LEMMA RemovingEach ==
    ASSUME NEW S \in SUBSET Cas, \A c \in S : Registered(c) /\ status[c] \in BOOLEAN
    PROVE  Removals(Each(CaSeq, S, Removing), S)
<1> DEFINE n == Len(CaSeq)
           ss == [i \in 1 .. n |-> If(CaSeq[i] \in S, Removing(CaSeq[i]))]
           Upto(m) == {CaSeq[i] : i \in 1 .. m} \cap S
           V == [m \in 0 .. n |-> {s \in Seq(AgendaTasks) : Removals(s, Upto(m))}]
<1>1. n \in Nat /\ \A i \in 1 .. n : CaSeq[i] \in Cas
  BY CaAssumption DEF Cas
<1>2. \A i, j \in 1 .. n : CaSeq[i] = CaSeq[j] => i = j
  BY CaAssumption
<1>3. \A s, C : Removals(s, C) => s \in Seq(AgendaTasks)
  BY DEF Removals, Good
<1>4. ASSUME NEW i \in 1 .. n PROVE Removals(ss[i], {CaSeq[i]} \cap S)
  <2>1. CASE CaSeq[i] \in S
    <3> DEFINE c == CaSeq[i]
    <3>1. c \in Cas /\ Registered(c) /\ status[c] \in BOOLEAN /\ {c} \cap S = {c}
      BY <2>1
    <3>2. ss[i] = Removing(c)
      BY <2>1 DEF If
    <3> HIDE DEF c, ss
    <3>3. Removals(Removing(c), {c})
      BY <3>1, RemovingOne
    <3> QED BY <3>1, <3>2, <3>3 DEF c
  <2>2. CASE CaSeq[i] \notin S
    <3>1. ss[i] = << >>
      BY <2>2 DEF If
    <3> HIDE DEF ss
    <3> QED BY <3>1, RemovingNone
  <2> QED BY <2>1, <2>2
<1>5. ss \in [1 .. n -> Seq(AgendaTasks)]
  <2>1. \A i \in 1 .. n : ss[i] \in Seq(AgendaTasks)
    BY <1>3, <1>4
  <2> QED BY <2>1
<1>6. << >> \in V[0]
  BY <1>1, RemovingNone
<1>7. n > 0 => ss[1] \in V[1]
  <2>1. CASE n > 0
    <3>1. 1 \in 1 .. n /\ Upto(1) = {CaSeq[1]} \cap S /\ 1 \in 0 .. n
      BY <1>1, <2>1
    <3>2. Removals(ss[1], {CaSeq[1]} \cap S)
      BY <1>4, <3>1
    <3>3. V[1] = {s \in Seq(AgendaTasks) : Removals(s, Upto(1))}
      BY <3>1
    <3> HIDE DEF ss, V
    <3> QED BY <1>5, <3>1, <3>2, <3>3
  <2> QED BY <2>1
<1>8. ASSUME NEW m \in 1 .. n - 1, NEW s \in V[m]
      PROVE  s \o ss[m + 1] \in V[m + 1]
  <2>1. m \in 0 .. n /\ m + 1 \in 0 .. n /\ m + 1 \in 1 .. n
    BY <1>1
  <2>2. Removals(s, Upto(m)) /\ Removals(ss[m + 1], {CaSeq[m + 1]} \cap S)
    <3>1. V[m] = {u \in Seq(AgendaTasks) : Removals(u, Upto(m))}
      BY <2>1
    <3> HIDE DEF V, ss, Upto
    <3> QED BY <1>4, <2>1, <3>1
  <2>3. Upto(m) \cap ({CaSeq[m + 1]} \cap S) = {}
    BY <1>1, <1>2, <2>1
  <2>4. Upto(m + 1) = Upto(m) \cup ({CaSeq[m + 1]} \cap S)
    <3>1. \A i \in 1 .. m + 1 : i \in 1 .. m \/ i = m + 1
      OBVIOUS
    <3> QED BY <3>1
  <2>5. V[m + 1] = {u \in Seq(AgendaTasks) : Removals(u, Upto(m + 1))}
    BY <2>1
  <2> HIDE DEF V, ss, Upto
  <2>6. Removals(s \o ss[m + 1], Upto(m) \cup ({CaSeq[m + 1]} \cap S))
    BY <2>2, <2>3, RemovingMore
  <2> QED BY <1>3, <2>4, <2>5, <2>6
<1>9. FlattenSeq(ss) \in V[n]
  <2> HIDE DEF V, ss, n
  <2> QED BY <1>1, <1>5, <1>6, <1>7, <1>8, FlattenSteps
<1>10. Removals(FlattenSeq(ss), Upto(n))
  <2> HIDE DEF ss, Upto
  <2> QED BY <1>1, <1>9
<1>11. Each(CaSeq, S, Removing) = FlattenSeq(ss)
  BY DEF Each
<1> HIDE DEF ss
<1>12. \A x \in Range(FlattenSeq(ss)) : x[2] \in S
  BY <1>10 DEF Removals
<1> QED BY <1>10, <1>11, <1>12 DEF Removals

\* The agenda is empty, and gets the tasks of a set.
Idle == lock = Nobody /\ apc # "remove" /\ agenda = << >> /\ Pending = {} /\ mpc \notin {"run", "late"}
Starts(N) == Idle /\ Pending' = N

LEMMA IdleIs ==
    ASSUME AgendaInv, lock = Nobody, apc # "remove"
    PROVE  Idle
<1>1. agenda = << >> /\ mpc \notin {"run", "late"}
  BY DEF AgendaInv, Owned, Nobody
<1> QED BY <1>1, GoodNone DEF Idle, Pending

\* A call of the application.
LEMMA CallStarts ==
    ASSUME AgendaInv, NEW tasks, AnyCall(tasks), tasks # << >>, Good(tasks, AppOps, {})
    PROVE  After /\ Starts(Range(tasks)) /\ apc = "idle" /\ apc' = "run" /\ mpc' = mpc
<1>1. /\ apc = "idle" /\ lock = Nobody /\ apc' = "run" /\ lock' = "app" /\ agenda' = tasks
      /\ mpc' = mpc /\ quit' = quit
  BY DEF AnyCall, manVars
<1>2. Idle
  BY <1>1, IdleIs
<1>3. mpc \in {"top", "lock", "late", "wait", "run", "gone"}
  BY DEF AgendaInv, TypeOK
<1>4. agenda' \in Seq(AgendaTasks) /\ Ordered' /\ \A x \in Range(tasks) : x[1] \in AppOps
  BY <1>1 DEF Good, InOrderSeq, Ordered
<1>5. Pending' = Range(tasks)
  BY <1>1 DEF Pending
<1>6. Owned'
  <2>1. \A x \in Pending' : Allowed(x[1])'
    BY <1>1, <1>2, <1>4, <1>5 DEF Allowed, Idle
  <2> QED BY <1>1, <1>2, <2>1 DEF Owned, Idle, Nobody
<1> QED BY <1>1, <1>2, <1>3, <1>4, <1>5, <1>6 DEF After, Starts

LEMMA GoodApp ==
    ASSUME NEW x \in AgendaTasks, x[1] \in AppOps
    PROVE  Good(<<x>>, AppOps, {}) /\ Range(<<x>>) = {x} /\ <<x>> # << >>
<1> DEFINE R == {}
<1>1. (\A y \in R : Before(x, y)) /\ <<x>> # << >>
  OBVIOUS
<1> HIDE DEF R
<1>2. Good(<<x>>, AppOps, R) /\ Range(<<x>>) = {x}
  BY <1>1, GoodOne
<1> QED BY <1>1, <1>2 DEF R

LEMMA GoodMore ==
    ASSUME NEW A, NEW B, A \subseteq B, NEW s, Good(s, A, {})
    PROVE  Good(s, B, {})
  BY DEF Good

\* Those with one task.
LEMMA OneCallStarts ==
    ASSUME AgendaInv, NEW x \in AgendaTasks, x[1] \in AppOps, AnyCall(<<x>>)
    PROVE  After /\ Starts({x}) /\ apc = "idle" /\ apc' = "run" /\ mpc' = mpc
<1> DEFINE s == <<x>>
<1>1. Good(s, AppOps, {}) /\ Range(s) = {x} /\ s # << >> /\ AnyCall(s)
  BY GoodApp
<1> HIDE DEF s
<1>2. After /\ Starts(Range(s)) /\ apc = "idle" /\ apc' = "run" /\ mpc' = mpc
  BY <1>1, CallStarts
<1> QED BY <1>1, <1>2

LEMMA RegisterCAStarts ==
    ASSUME AgendaInv, NEW c \in Cas, RegisterCA(c)
    PROVE  After /\ Starts({<<"list", c>>}) /\ apc = "idle" /\ apc' = "run" /\ mpc' = mpc
<1>1. <<"list", c>> \in AgendaTasks /\ "list" \in AppOps
  BY CaTask DEF CaOps, AppOps
<1> QED BY <1>1, OneCallStarts DEF RegisterCA, AppCall, For

LEMMA PutMsgStarts ==
    ASSUME AgendaInv, NEW c \in Cas, PutMsg(c)
    PROVE  After /\ Starts({<<"receive", c>>}) /\ apc = "idle" /\ apc' = "run" /\ mpc' = mpc
<1>1. <<"receive", c>> \in AgendaTasks /\ "receive" \in AppOps
  BY CaTask DEF CaOps, AppOps
<1> QED BY <1>1, OneCallStarts DEF PutMsg, For

LEMMA GetMsgStarts ==
    ASSUME AgendaInv, NEW c \in Cas, GetMsg(c)
    PROVE  After /\ Starts({<<"getmsg", c>>}) /\ apc = "idle" /\ apc' = "run" /\ mpc' = mpc
<1>1. <<"getmsg", c>> \in AgendaTasks /\ "getmsg" \in AppOps
  BY CaTask DEF CaOps, AppOps
<1> QED BY <1>1, OneCallStarts DEF GetMsg, For

LEMMA PauseStarts ==
    ASSUME AgendaInv, Pause \/ Resume
    PROVE  /\ After /\ apc = "idle" /\ apc' = "run" /\ mpc' = mpc
           /\ \E op \in {"pause", "resume"} : Starts({<<op, "none">>})
<1>1. \A op \in {"pause", "resume"} : <<op, "none">> \in AgendaTasks /\ op \in AppOps
  BY DEF AgendaTasks, AppOps
<1>2. CASE Pause
  <2>1. AnyCall(<<<<"pause", "none">>>>)
    BY <1>2 DEF Pause, AppCall, Do
  <2> QED BY <1>1, <2>1, OneCallStarts
<1>3. CASE Resume
  <2>1. AnyCall(<<<<"resume", "none">>>>)
    BY <1>3 DEF Resume, AppCall, Do
  <2> QED BY <1>1, <2>1, OneCallStarts
<1> QED BY <1>2, <1>3

LEMMA CloseCAStarts ==
    ASSUME AgendaInv, NEW c \in Cas, CloseCA(c)
    PROVE  /\ After /\ apc = "idle" /\ apc' = "run" /\ mpc' = mpc
           /\ \E N : Starts(N) /\ N \subseteq ClosingTasks(c) /\ <<"closed", c>> \in N
<1> DEFINE s == Closing(c)
<1>1. Good(s, RemoveOps, {}) /\ Range(s) \subseteq ClosingTasks(c) /\ <<"closed", c>> \in Range(s)
  BY ClosingGood DEF CloseCA
<1>2. RemoveOps \subseteq AppOps
  BY DEF AppOps
<1>3. Good(s, AppOps, {})
  BY <1>1, <1>2, GoodMore
<1>4. AnyCall(s)
  BY DEF CloseCA, AppCall
<1> HIDE DEF s
<1>5. s # << >>
  BY <1>1, GoodNone
<1>6. After /\ Starts(Range(s)) /\ apc = "idle" /\ apc' = "run" /\ mpc' = mpc
  BY <1>3, <1>4, <1>5, CallStarts
<1> QED BY <1>1, <1>6

LEMMA UnregisterCAStarts ==
    ASSUME AgendaInv, NEW c \in Cas, UnregisterCA(c)
    PROVE  /\ After /\ apc = "idle" /\ apc' = "run" /\ mpc' = mpc
           /\ \E s : Starts(Range(s)) /\ Removals(s, {c})
<1> DEFINE s == Removing(c)
<1>1. Removals(s, {c}) /\ <<"unlist", c>> \in Range(s)
  <2>1. Registered(c) /\ status[c] \in BOOLEAN
    BY DEF UnregisterCA, AgendaInv, TypeOK
  <2> QED BY <2>1, RemovingOne
<1>2. RemoveOps \subseteq AppOps
  BY DEF AppOps
<1>3. s # << >>
  <2> HIDE DEF s
  <2> QED BY <1>1, GoodNone
<1>4. AnyCall(s)
  BY DEF UnregisterCA, AppCall
<1> HIDE DEF s
<1>5. Good(s, AppOps, {})
  <2>1. Good(s, RemoveOps, {})
    BY <1>1 DEF Removals
  <2> QED BY <1>2, <2>1, GoodMore
<1>6. After /\ Starts(Range(s)) /\ apc = "idle" /\ apc' = "run" /\ mpc' = mpc
  BY <1>3, <1>4, <1>5, CallStarts
<1> QED BY <1>1, <1>6

LEMMA OpenCAStarts ==
    ASSUME AgendaInv, NEW c \in Cas, OpenCA(c)
    PROVE  /\ After /\ apc = "idle" /\ apc' = "run" /\ mpc' = mpc
           /\ \E N : /\ Starts(N) /\ N \subseteq {<<"enter", Ci>>, <<"open", c>>, <<"register", c>>}
                     /\ <<"open", c>> \in N /\ <<"register", c>> \in N
<1> DEFINE e == <<"enter", Ci>>
           o == <<"open", c>>
           p == <<"register", c>>
<1>1. Ci \in Cas /\ Registered(c)
  BY CaAssumption DEF OpenCA
<1>2. {e, o, p} \subseteq AgendaTasks
  <2>1. {"enter", "open", "register"} \subseteq CaOps
    BY DEF CaOps
  <2> QED BY <1>1, <2>1, CaTask
<1>3. \A x \in {e, o, p} : x[1] \in AppOps
  BY DEF AppOps, RemoveOps
<1>4. Before(e, o) /\ Before(e, p) /\ Before(o, e) /\ Before(o, p)
  BY BehindOf, BeforeIs DEF AppOps
<1>5. CASE c # Ci
  <2> DEFINE s == Opening(c)
             v == <<o>>
             w == <<p>>
             R == {}
  <2>1. s = v \o w
    <3>1. << >> \o <<o>> = <<o>> /\ << >> \o <<p>> = <<p>>
      BY <1>2, ConcatEmptySeq, <<o>> \in Seq(AgendaTasks), <<p>> \in Seq(AgendaTasks)
    <3>2. Calling(c, o) = <<o>> /\ Calling(c, p) = <<p>>
      BY <1>1, <1>5, <3>1 DEF Calling, If
    <3> QED BY <3>2 DEF Opening, CaCall, For
  <2>2. \A x \in {e, o, p} : \A y \in R : Before(x, y)
    OBVIOUS
  <2>3. AnyCall(s)
    BY DEF OpenCA, AppCall
  <2> HIDE DEF e, o, p, R
  <2>4. Good(v, AppOps, R) /\ Range(v) = {o}
    BY <1>2, <1>3, <2>2, GoodOne
  <2>5. Good(w, AppOps, R) /\ Range(w) = {p}
    BY <1>2, <1>3, <2>2, GoodOne
  <2> HIDE DEF s, v, w
  <2>6. Precede(Range(v), Range(w))
    BY <1>4, <2>4, <2>5 DEF Precede
  <2>7. Good(s, AppOps, R)
    BY <2>1, <2>4, <2>5, <2>6, GoodConcat
  <2>8. Range(s) = {o, p}
    BY <2>1, <2>4, <2>5, GoodRange
  <2>9. s # << >>
    BY <2>8, GoodNone
  <2>10. After /\ Starts(Range(s)) /\ apc = "idle" /\ apc' = "run" /\ mpc' = mpc
    BY <2>3, <2>7, <2>9, CallStarts DEF R
  <2> QED BY <2>8, <2>10 DEF e, o, p
<1>6. CASE c = Ci
  <2> DEFINE s == Opening(c)
             u == <<e>>
             v == <<o>>
             w == <<p>>
             R == {}
  <2>1. s = (u \o v) \o (u \o w)
    BY <1>1, <1>6 DEF Opening, CaCall, Calling, If, For
  <2>2. \A x \in {e, o, p} : \A y \in R : Before(x, y)
    OBVIOUS
  <2>3. AnyCall(s)
    BY DEF OpenCA, AppCall
  <2> HIDE DEF e, o, p, R
  <2>4. Good(u, AppOps, R) /\ Range(u) = {e}
    BY <1>2, <1>3, <2>2, GoodOne
  <2>5. Good(v, AppOps, R) /\ Range(v) = {o}
    BY <1>2, <1>3, <2>2, GoodOne
  <2>6. Good(w, AppOps, R) /\ Range(w) = {p}
    BY <1>2, <1>3, <2>2, GoodOne
  <2> HIDE DEF s, u, v, w
  <2>7. Precede(Range(u), Range(v)) /\ Precede(Range(u), Range(w))
    BY <1>4, <2>4, <2>5, <2>6 DEF Precede
  <2>8. Good(u \o v, AppOps, R)
    BY <2>4, <2>5, <2>7, GoodConcat
  <2>9. Range(u \o v) = {e, o}
    BY <2>4, <2>5, GoodRange
  <2>10. Good(u \o w, AppOps, R)
    BY <2>4, <2>6, <2>7, GoodConcat
  <2>11. Range(u \o w) = {e, p}
    BY <2>4, <2>6, GoodRange
  <2>12. Precede(Range(u \o v), Range(u \o w))
    <3>1. Before(e, e)
      BY BehindOf, BeforeIs DEF AppOps, RemoveOps, e
    <3> QED BY <1>4, <2>9, <2>11, <3>1 DEF Precede
  <2>13. Good(s, AppOps, R)
    BY <2>1, <2>8, <2>10, <2>12, GoodConcat
  <2>14. Range(s) = {e, o, p}
    BY <2>1, <2>8, <2>9, <2>10, <2>11, GoodRange
  <2>15. s # << >>
    BY <2>14, GoodNone
  <2>16. After /\ Starts(Range(s)) /\ apc = "idle" /\ apc' = "run" /\ mpc' = mpc
    BY <2>3, <2>13, <2>15, CallStarts DEF R
  <2> QED BY <2>14, <2>16 DEF e, o, p
<1> QED BY <1>5, <1>6

\* A call of a CA, and what else is good behind it.
LEMMA CaCallGood ==
    ASSUME NEW c \in Cas \cup {NoCa}, NEW op \in CaOps, op \in AppOps, op \in Behind("enter")
    PROVE  /\ Good(CaCall(op, c), AppOps, {})
           /\ Range(CaCall(op, c)) \subseteq {<<"enter", Ci>>, <<op, c>>}
           /\ Registered(c) => <<op, c>> \in Range(CaCall(op, c))
<1> DEFINE e == <<"enter", Ci>>
           x == <<op, c>>
           R == {}
<1>1. CASE ~Registered(c)
  <2>1. CaCall(op, c) = << >>
    BY <1>1 DEF CaCall, Calling, If
  <2> HIDE DEF R
  <2>2. Good(<< >>, AppOps, R) /\ Range(<< >>) = {}
    BY GoodNone
  <2> QED BY <1>1, <2>1, <2>2 DEF R
<1>2. CASE Registered(c)
  <2>1. c \in Cas /\ Ci \in Cas
    BY <1>2, CaAssumption DEF Registered
  <2>2. e \in AgendaTasks /\ x \in AgendaTasks
    BY <2>1, CaTask DEF CaOps
  <2>3. e[1] \in AppOps /\ x[1] \in AppOps /\ Before(e, x)
    BY BeforeIs DEF AppOps, RemoveOps
  <2>4. CaCall(op, c) = IF c = Ci THEN <<e>> \o <<x>> ELSE << >> \o <<x>>
    BY <1>2 DEF CaCall, Calling, If, For
  <2>5. << >> \o <<x>> = <<x>>
    BY <2>2, ConcatEmptySeq, <<x>> \in Seq(AgendaTasks)
  <2>6. \A y \in R : Before(e, y) /\ Before(x, y)
    OBVIOUS
  <2> DEFINE u == <<e>>
             w == <<x>>
  <2> HIDE DEF e, x, R
  <2>7. Good(u, AppOps, R) /\ Range(u) = {e}
    BY <2>2, <2>3, <2>6, GoodOne
  <2>8. Good(w, AppOps, R) /\ Range(w) = {x}
    BY <2>2, <2>3, <2>6, GoodOne
  <2>9. CaCall(op, c) = IF c = Ci THEN u \o w ELSE w
    BY <2>4, <2>5
  <2> HIDE DEF u, w
  <2>10. Precede(Range(u), Range(w))
    BY <2>3, <2>7, <2>8 DEF Precede
  <2>11. Good(u \o w, AppOps, R)
    BY <2>7, <2>8, <2>10, GoodConcat
  <2>12. Range(u \o w) = {e, x}
    BY <2>7, <2>8, GoodRange
  <2> QED BY <2>7, <2>8, <2>9, <2>11, <2>12 DEF e, x, R
<1>3. Registered(c) \in BOOLEAN
  BY DEF Registered
<1> QED BY <1>1, <1>2, <1>3

LEMMA StopCAStarts ==
    ASSUME AgendaInv, NEW c \in Cas, StopCA(c)
    PROVE  /\ After /\ apc = "idle" /\ apc' = "run" /\ mpc' = mpc
           /\ \E N : Starts(N) /\ N \subseteq {<<"enter", Ci>>, <<"stoppmt", c>>}
<1> DEFINE s == CaCall("stoppmt", c)
<1>1. "stoppmt" \in CaOps /\ "stoppmt" \in AppOps /\ "stoppmt" \in Behind("enter")
  BY BehindOf DEF CaOps, AppOps
<1>2. /\ Good(s, AppOps, {}) /\ Range(s) \subseteq {<<"enter", Ci>>, <<"stoppmt", c>>}
      /\ Registered(c) => <<"stoppmt", c>> \in Range(s)
  BY <1>1, CaCallGood
<1>3. Registered(c) /\ AnyCall(s)
  BY DEF StopCA, AppCall
<1> HIDE DEF s
<1>4. s # << >>
  BY <1>2, <1>3, GoodNone
<1>5. After /\ Starts(Range(s)) /\ apc = "idle" /\ apc' = "run" /\ mpc' = mpc
  BY <1>2, <1>3, <1>4, CallStarts
<1> QED BY <1>2, <1>5

LEMMA StartServiceStarts ==
    ASSUME AgendaInv, NEW i \in Services, NEW c \in Cas \cup {NoCa}, StartService(i, c)
    PROVE  /\ After /\ apc = "idle" /\ apc' = "run" /\ mpc' = mpc
           /\ \E N : /\ Starts(N) /\ <<"service", <<i, c>>>> \in N
                     /\ N \subseteq {<<"enter", Ci>>, <<"stoppmt", force>>, <<"service", <<i, c>>>>}
                     /\ force # c /\ Registered(force) => <<"stoppmt", force>> \in N
<1> DEFINE b == force # c
           k == CaCall("stoppmt", force)
           x == <<"service", <<i, c>>>>
           u == If(b, k)
           w == <<x>>
           s == u \o w
<1>1. "stoppmt" \in CaOps /\ "stoppmt" \in AppOps /\ "stoppmt" \in Behind("enter")
  BY BehindOf DEF CaOps, AppOps
<1>2. force \in Cas \cup {NoCa}
  BY DEF AgendaInv, TypeOK
<1>3. /\ Good(k, AppOps, {}) /\ Range(k) \subseteq {<<"enter", Ci>>, <<"stoppmt", force>>}
      /\ Registered(force) => <<"stoppmt", force>> \in Range(k)
  BY <1>1, <1>2, CaCallGood
<1>4. /\ Good(u, AppOps, {}) /\ Range(u) \subseteq {<<"enter", Ci>>, <<"stoppmt", force>>}
      /\ b /\ Registered(force) => <<"stoppmt", force>> \in Range(u)
  <2> HIDE DEF k, b
  <2>1. CASE b
    BY <1>3, <2>1 DEF If
  <2>2. CASE ~b
    BY <2>2, GoodNone DEF If
  <2> QED BY <2>1, <2>2
<1>5. x \in AgendaTasks /\ x[1] = "service" /\ x[1] \in AppOps
  BY DEF AgendaTasks, AppOps
<1>6. AnyCall(s)
  BY DEF StartService, AppCall, For
<1>7. Precede({<<"enter", Ci>>, <<"stoppmt", force>>}, {x})
  <2>1. "service" \in Behind("enter") /\ "service" \in Behind("stoppmt")
    BY BehindOf DEF AppOps
  <2> HIDE DEF x
  <2> QED BY <1>5, <2>1, BeforeIs DEF Precede
<1> HIDE DEF x
<1>8. Good(w, AppOps, {}) /\ Range(w) = {x}
  BY <1>5, GoodApp
<1> HIDE DEF u, w
<1>9. Precede(Range(u), Range(w))
  BY <1>4, <1>7, <1>8 DEF Precede
<1>10. Good(s, AppOps, {})
  <2> DEFINE R == {}
  <2>1. Good(u, AppOps, R) /\ Good(w, AppOps, R)
    BY <1>4, <1>8
  <2> HIDE DEF R
  <2>2. Good(u \o w, AppOps, R)
    BY <1>9, <2>1, GoodConcat
  <2> QED BY <2>2 DEF R
<1>11. Range(s) = Range(u) \cup {x}
  <2>1. Range(u \o w) = Range(u) \cup Range(w)
    BY <1>4, <1>8, GoodRange
  <2> QED BY <1>8, <2>1
<1> HIDE DEF s
<1>12. s # << >>
  BY <1>11, GoodNone
<1>13. After /\ Starts(Range(s)) /\ apc = "idle" /\ apc' = "run" /\ mpc' = mpc
  BY <1>6, <1>10, <1>12, CallStarts
<1> QED BY <1>4, <1>11, <1>13 DEF b, x

LEMMA StopServiceStarts ==
    ASSUME AgendaInv, StopService
    PROVE  /\ After /\ apc = "idle" /\ apc' = "run" /\ mpc' = mpc
           /\ \E N : /\ Starts(N) /\ <<"noservice", "none">> \in N
                     /\ N \subseteq {<<"enter", Ci>>, <<"noservice", "none">>}
                                    \cup {<<"stoppmt", c>> : c \in Cas \cup {NoCa}}
                     /\ Registered(force) => <<"stoppmt", force>> \in N
                     /\ force = NoCa => \A c \in In("ts") : <<"stoppmt", c>> \in N
<1> DEFINE x == <<"noservice", "none">>
           S == {<<"enter", Ci>>} \cup {<<"stoppmt", c>> : c \in Cas \cup {NoCa}}
           u == IF force # NoCa THEN CaCall("stoppmt", force)
                ELSE Each(CaSeq, In("ts"), LAMBDA c : CaCall("stoppmt", c))
           w == <<x>>
           s == u \o w
<1>1. "stoppmt" \in CaOps /\ "stoppmt" \in AppOps /\ "stoppmt" \in Behind("enter")
  BY BehindOf DEF CaOps, AppOps
<1>2. force \in Cas \cup {NoCa}
  BY DEF AgendaInv, TypeOK
<1>3. /\ Good(u, AppOps, {}) /\ Range(u) \subseteq S
      /\ Registered(force) => <<"stoppmt", force>> \in Range(u)
      /\ force = NoCa => \A c \in In("ts") : <<"stoppmt", c>> \in Range(u)
  <2>1. CASE force # NoCa
    BY <1>1, <1>2, <2>1, CaCallGood
  <2>2. CASE force = NoCa
    <3> DEFINE T == {<<"enter", Ci>>} \cup {<<"stoppmt", c>> : c \in Cas}
               ss == [i \in 1 .. Len(CaSeq) |-> If(CaSeq[i] \in In("ts"), CaCall("stoppmt", CaSeq[i]))]
               R == {}
    <3>1. u = FlattenSeq(ss)
      BY <2>2 DEF Each
    <3>2. \A c \in Cas : <<"stoppmt", c>> \in AgendaTasks
      BY <1>1, CaTask
    <3>3. <<"enter", Ci>> \in AgendaTasks /\ In("ts") \subseteq Cas
      BY CaAssumption DEF AgendaTasks, CaOps, In
    <3>4. T \in SUBSET AgendaTasks /\ \A y \in T : y[1] \in {"enter", "stoppmt"}
      BY <3>2, <3>3
    <3>5. ASSUME NEW i \in 1 .. Len(CaSeq)
          PROVE  /\ If(CaSeq[i] \in In("ts"), CaCall("stoppmt", CaSeq[i])) \in Seq(T)
                 /\ CaSeq[i] \in In("ts") =>
                       <<"stoppmt", CaSeq[i]>> \in Range(If(CaSeq[i] \in In("ts"), CaCall("stoppmt", CaSeq[i])))
      <4> DEFINE c == CaSeq[i]
                 y == <<"stoppmt", c>>
      <4>1. CASE c \in In("ts")
        <5>1. /\ c \in Cas /\ y \in AgendaTasks /\ y \in T /\ <<"enter", Ci>> \in T /\ Registered(c)
          BY <3>2, <3>3, <4>1, CaAssumption DEF In, Registered
        <5>2. If(c \in In("ts"), CaCall("stoppmt", c)) = Calling(c, y)
          BY <4>1 DEF If, CaCall, For
        <5> HIDE DEF c, y, T
        <5>3. Calling(c, y) \in Seq(T)
          BY <5>1, CallTasks
        <5>4. y \in Range(Calling(c, y))
          <6>1. Range(Calling(c, y)) = IF Registered(c) THEN (IF c = Ci THEN {<<"enter", Ci>>, y} ELSE {y})
                                       ELSE {}
            BY <5>1, CallTasks
          <6> QED BY <5>1, <6>1
        <5> QED BY <5>2, <5>3, <5>4 DEF c, y
      <4>2. CASE c \notin In("ts")
        BY <4>2 DEF If
      <4> QED BY <4>1, <4>2
    <3>6. ss \in [1 .. Len(CaSeq) -> Seq(T)]
      <4> HIDE DEF T
      <4> QED BY <3>5
    <3>7. Precede(T, T) /\ Precede(T, R) /\ \A y \in T : y[1] \in AppOps
      <4>1. \A op \in {"enter", "stoppmt"} : {"enter", "stoppmt"} \subseteq Behind(op) /\ op \in AppOps
        BY BehindOf DEF AppOps, RemoveOps
      <4> HIDE DEF T
      <4> QED BY <3>4, <4>1, BeforeIs DEF Precede
    <3>8. \A i \in 1 .. Len(CaSeq) : CaSeq[i] \in In("ts") => <<"stoppmt", CaSeq[i]>> \in Range(ss[i])
      BY <3>5
    <3> HIDE DEF R, T, ss
    <3>9. Good(FlattenSeq(ss), AppOps, R) /\ Range(FlattenSeq(ss)) \subseteq T
      BY <3>4, <3>6, <3>7, EachCall
    <3>10. \A c \in In("ts") : <<"stoppmt", c>> \in Range(FlattenSeq(ss))
      <4>1. SUFFICES ASSUME NEW c \in In("ts") PROVE <<"stoppmt", c>> \in Range(FlattenSeq(ss))
        OBVIOUS
      <4>2. PICK i \in 1 .. Len(CaSeq) : CaSeq[i] = c
        BY <3>3 DEF Cas
      <4> DEFINE n == Len(CaSeq)
      <4>3. n \in Nat /\ i \in 1 .. n /\ ss \in [1 .. n -> Seq(T)]
        BY <3>6, <4>2, CaAssumption
      <4> HIDE DEF n
      <4>4. Range(ss[i]) \subseteq Range(FlattenSeq(ss))
        BY <4>3, FlattenHas
      <4> QED BY <3>8, <4>2, <4>4
    <3> QED BY <2>2, <3>1, <3>9, <3>10 DEF R, T, Registered
  <2> QED BY <2>1, <2>2
<1>4. x \in AgendaTasks /\ x[1] = "noservice" /\ x[1] \in AppOps
  BY DEF AgendaTasks, AppOps
<1>5. AnyCall(s)
  BY DEF StopService, AppCall, Do
<1>6. Precede(S, {x})
  <2>1. "noservice" \in Behind("enter") /\ "noservice" \in Behind("stoppmt")
    BY BehindOf DEF AppOps
  <2>2. \A y \in S : y[1] \in {"enter", "stoppmt"}
    OBVIOUS
  <2> HIDE DEF x, S
  <2> QED BY <1>4, <2>1, <2>2, BeforeIs DEF Precede
<1> HIDE DEF x
<1>7. Good(w, AppOps, {}) /\ Range(w) = {x}
  BY <1>4, GoodApp
<1> HIDE DEF u, w, S
<1>8. Precede(Range(u), Range(w))
  BY <1>3, <1>6, <1>7 DEF Precede
<1>9. Good(s, AppOps, {})
  <2> DEFINE R == {}
  <2>1. Good(u, AppOps, R) /\ Good(w, AppOps, R)
    BY <1>3, <1>7
  <2> HIDE DEF R
  <2>2. Good(u \o w, AppOps, R)
    BY <1>8, <2>1, GoodConcat
  <2> QED BY <2>2 DEF R
<1>10. Range(s) = Range(u) \cup {x}
  <2>1. Range(u \o w) = Range(u) \cup Range(w)
    BY <1>3, <1>7, GoodRange
  <2> QED BY <1>7, <2>1
<1> HIDE DEF s
<1>11. s # << >>
  BY <1>10, GoodNone
<1>12. After /\ Starts(Range(s)) /\ apc = "idle" /\ apc' = "run" /\ mpc' = mpc
  BY <1>5, <1>9, <1>11, CallStarts
<1> QED BY <1>3, <1>10, <1>12 DEF x, S

LEMMA CloseStarts ==
    ASSUME AgendaInv, Close
    PROVE  /\ After /\ apc = "idle" /\ apc' = "run" /\ mpc' = mpc
           /\ Starts(CloseTasks \cup {<<"quit", "none">>})
<1> DEFINE x == <<"quit", "none">>
           u == CloseTs
           w == <<x>>
           s == u \o w
           R == {}
<1>1. AnyCall(s)
  BY DEF Close, AppCall, Do
<1>2. x \in AgendaTasks /\ x[1] \in AppOps
  BY DEF AgendaTasks, AppOps
<1>3. Precede(CloseTasks, {x})
  <2>1. \A y \in CloseTasks : y[1] \in {"stop", "closets"}
    BY DEF CloseTasks
  <2>2. "quit" \in Behind("stop") /\ "quit" \in Behind("closets")
    BY BehindOf
  <2> QED BY <2>1, <2>2, BeforeIs DEF Precede
<1> HIDE DEF x
<1>4. Good(w, AppOps, R) /\ Range(w) = {x}
  BY <1>2, GoodApp
<1>5. Good(u, AppOps, R) /\ Range(u) = CloseTasks
  <2>1. {"stop", "closets"} \subseteq AppOps /\ \A y \in R : y[1] \in {"first", "handled", "from", "quit"}
    BY DEF AppOps
  <2> HIDE DEF R
  <2> QED BY <2>1, GoodCloseTs
<1> HIDE DEF u, w, R
<1>6. Precede(Range(u), Range(w))
  BY <1>3, <1>4, <1>5
<1>7. Good(s, AppOps, R)
  BY <1>4, <1>5, <1>6, GoodConcat
<1>8. Range(s) = CloseTasks \cup {x}
  <2>1. Range(u \o w) = Range(u) \cup Range(w)
    BY <1>4, <1>5, GoodRange
  <2> QED BY <1>4, <1>5, <2>1
<1> HIDE DEF s
<1>9. s # << >>
  BY <1>8, GoodNone
<1>10. After /\ Starts(Range(s)) /\ apc = "idle" /\ apc' = "run" /\ mpc' = mpc
  BY <1>1, <1>7, <1>9, CallStarts DEF R
<1> QED BY <1>8, <1>10 DEF x

\* The manager's thread.
LEMMA MonLockStarts ==
    ASSUME AgendaInv, MonLock
    PROVE  After /\ mpc = "lock" /\ mpc' \in {"late", "wait"} /\ apc' = apc
           /\ \E N : Starts(N) /\ N \subseteq {<<"timeout", t>> : t \in {u \in Tables : table[u].run}}
<1>1. lock = Nobody /\ mpc = "lock" /\ apc' = apc /\ quit' = quit
  BY DEF MonLock
<1>2. PICK late \in SUBSET {t \in Tables : table[t].run} :
          agenda' = Each(<<"pmt", "cat", "pat">>, late, LAMBDA t : <<For("timeout", t)>>)
  BY DEF MonLock
<1>3. /\ apc \in {"idle", "run", "join", "remove", "over"} /\ Owned
  BY DEF AgendaInv, TypeOK
<1>4. Idle
  <2>1. apc # "remove"
    BY <1>1, <1>3 DEF Owned
  <2> QED BY <1>1, <2>1, IdleIs
<1> DEFINE seq == <<"pmt", "cat", "pat">>
           n == 3
           T == {<<"timeout", t>> : t \in late}
           ss == [i \in 1 .. n |-> If(seq[i] \in late, <<For("timeout", seq[i])>>)]
           R == {}
<1>5. agenda' = FlattenSeq(ss)
  BY <1>2 DEF Each
<1>6. ss \in [1 .. n -> Seq(T)]
  <2>1. ASSUME NEW i \in 1 .. n
        PROVE  If(seq[i] \in late, <<For("timeout", seq[i])>>) \in Seq(T)
    <3>1. CASE seq[i] \in late
      <4>1. <<"timeout", seq[i]>> \in T
        BY <3>1
      <4> HIDE DEF T
      <4> QED BY <3>1, <4>1 DEF If, For
    <3>2. CASE seq[i] \notin late
      BY <3>2 DEF If
    <3> QED BY <3>1, <3>2
  <2> HIDE DEF T, n, seq
  <2> QED BY <2>1
<1>7. T \in SUBSET AgendaTasks /\ \A x \in T : x[1] = "timeout"
  BY DEF AgendaTasks
<1>8. Precede(T, T) /\ Precede(T, R) /\ n \in Nat
  <2>1. Behind("timeout") = {"timeout"}
    BY BehindOf
  <2> HIDE DEF T
  <2> QED BY <1>7, <2>1, BeforeIs DEF Precede
<1>9. \A x \in T : x[1] \in {"timeout"}
  BY <1>7
<1> HIDE DEF n, T, ss, R
<1>10. Good(FlattenSeq(ss), {"timeout"}, R) /\ Range(FlattenSeq(ss)) \subseteq T
  BY <1>6, <1>7, <1>8, <1>9, GoodFlat
<1>11. /\ agenda' \in Seq(AgendaTasks) /\ Ordered' /\ Pending' \subseteq T
       /\ \A x \in Pending' : x[1] \in {"timeout"}
  BY <1>5, <1>9, <1>10 DEF Good, InOrderSeq, Ordered, Pending
<1>12. IF agenda' # << >> THEN lock' = "mon" /\ mpc' = "late"
                          ELSE lock' = lock /\ mpc' = "wait"
  BY DEF MonLock
<1>13. agenda' = << >> => Pending' = {}
  BY GoodNone DEF Pending
<1>14. Owned'
  <2>1. \A x \in Pending' : Allowed(x[1])'
    <3>1. CASE agenda' = << >>
      BY <1>13, <3>1
    <3>2. CASE agenda' # << >>
      <4>1. apc' \notin {"run", "remove"}
        BY <1>1, <1>3, <1>4 DEF Owned, Idle, Nobody
      <4> QED BY <1>11, <1>12, <3>2, <4>1 DEF Allowed
    <3> QED BY <3>1, <3>2
  <2> QED BY <1>1, <1>3, <1>4, <1>12, <2>1 DEF Owned, Idle, Nobody
<1> QED BY <1>1, <1>3, <1>4, <1>11, <1>12, <1>14 DEF After, Starts, T, Nobody

LEMMA MonWakeStarts ==
    ASSUME AgendaInv, MonWake
    PROVE  /\ After /\ mpc = "wait" /\ mpc' \in {"run", "top"} /\ apc' = apc
           /\ \E N : /\ Starts(N)
                     /\ \/ N = {} /\ tsevt' = {} /\ mpc' = "top"
                        \/ mpc' = "run" /\ NewTs \notin tsevt' /\ N = {<<"from", 1>>}
                        \/ mpc' = "run" /\ NewTs \in tsevt' /\ N = NewTsTasks("ts") \cup {<<"from", 1>>}
<1>1. lock = Nobody /\ mpc = "wait" /\ apc' = apc /\ quit' = quit
  BY DEF MonWake
<1>2. apc \in {"idle", "run", "join", "remove", "over"} /\ Owned
  BY DEF AgendaInv, TypeOK
<1>3. Idle
  <2>1. apc # "remove"
    BY <1>1, <1>2 DEF Owned
  <2> QED BY <1>1, <2>1, IdleIs
<1> DEFINE b == NewTs \in tsevt'
           R == {}
           x == <<"from", 1>>
           s == OnNewTs \o <<For("handled", "ts")>>
           w == <<x>>
<1>4. agenda' = If(tsevt' # {}, If(b, s) \o w)
  BY DEF MonWake, For
<1>5. x \in AgendaTasks /\ x[1] = "from" /\ x[1] \in RunOps
  BY DEF AgendaTasks, RunOps
<1>6. Good(s, RunOps, R) /\ Range(s) = NewTsTasks("ts")
  <2>1. {"stop", "closets", "first", "handled"} \subseteq RunOps /\ \A y \in R : y[1] = "from"
    BY DEF RunOps
  <2> DEFINE t == "ts"
  <2>2. t \in Tables \cup {"ts"}
    OBVIOUS
  <2> HIDE DEF t, R
  <2>3. /\ Good(OnNewTs \o <<For("handled", t)>>, RunOps, R)
        /\ Range(OnNewTs \o <<For("handled", t)>>) = NewTsTasks(t)
    BY <2>1, <2>2, GoodOnNewTs
  <2> QED BY <2>3 DEF t
<1>7. Good(w, RunOps, R) /\ Range(w) = {x}
  <2>1. \A y \in R : Before(x, y)
    OBVIOUS
  <2> HIDE DEF x, R
  <2> QED BY <1>5, <2>1, GoodOne
<1>8. Precede(NewTsTasks("ts"), {x})
  <2>1. \A y \in NewTsTasks("ts") : y[1] \in {"stop", "closets", "first", "handled"}
    BY DEF NewTsTasks, CloseTasks
  <2>2. \A op \in {"stop", "closets", "first", "handled"} : "from" \in Behind(op)
    BY BehindOf
  <2>3. ASSUME NEW y \in NewTsTasks("ts") PROVE Before(y, x)
    BY <1>5, <2>1, <2>2 DEF Before
  <2> QED BY <2>3 DEF Precede
<1> HIDE DEF x, s, w, R
<1>9. Good(If(b, s), RunOps, R) /\ Range(If(b, s)) = IF b THEN NewTsTasks("ts") ELSE {}
  <2>1. CASE b
    BY <1>6, <2>1 DEF If
  <2>2. CASE ~b
    BY <2>2, GoodNone DEF If
  <2> QED BY <2>1, <2>2
<1> DEFINE u == If(b, s)
<1>10. Good(u, RunOps, R) /\ Range(u) = IF b THEN NewTsTasks("ts") ELSE {}
  BY <1>9
<1> HIDE DEF u
<1>11. Precede(Range(u), Range(w))
  BY <1>7, <1>8, <1>10 DEF Precede
<1>12. Good(u \o w, RunOps, R)
  BY <1>7, <1>10, <1>11, GoodConcat
<1>13. Range(u \o w) = Range(u) \cup Range(w)
  BY <1>7, <1>10, GoodRange
<1> DEFINE v == u \o w
<1>14. Good(v, RunOps, R) /\ Range(v) = (IF b THEN NewTsTasks("ts") ELSE {}) \cup {x}
       /\ agenda' = If(tsevt' # {}, v)
  BY <1>4, <1>7, <1>10, <1>12, <1>13 DEF u
<1> HIDE DEF v, b
<1>15. v # << >>
  BY <1>14, GoodNone
<1>16. IF agenda' # << >> THEN lock' = "mon" /\ mpc' = "run"
                          ELSE lock' = lock /\ mpc' = "top"
  BY DEF MonWake
<1>17. apc' \notin {"run", "remove"}
  BY <1>1, <1>2, <1>3 DEF Owned, Idle, Nobody
<1>18. CASE tsevt' = {}
  <2>1. agenda' = << >>
    BY <1>14, <1>18 DEF If
  <2>2. Pending' = {} /\ agenda' \in Seq(AgendaTasks) /\ Ordered'
    BY <2>1, GoodNone DEF Pending, Good, InOrderSeq, Ordered
  <2>3. Owned'
    BY <1>1, <1>2, <1>3, <1>16, <1>17, <2>1, <2>2 DEF Owned, Idle, Nobody
  <2> QED BY <1>1, <1>2, <1>3, <1>16, <1>18, <2>1, <2>2, <2>3 DEF After, Starts
<1>19. CASE tsevt' # {}
  <2>1. agenda' = v
    BY <1>14, <1>19 DEF If
  <2>2. /\ Pending' = (IF b THEN NewTsTasks("ts") ELSE {}) \cup {x} /\ agenda' \in Seq(AgendaTasks)
        /\ Ordered' /\ \A y \in Pending' : y[1] \in RunOps
    BY <1>14, <2>1 DEF Good, InOrderSeq, Ordered, Pending
  <2>3. lock' = "mon" /\ mpc' = "run"
    BY <1>15, <1>16, <2>1
  <2>4. \A y \in Pending' : Allowed(y[1])'
    BY <1>17, <2>2, <2>3 DEF Allowed
  <2>5. Owned'
    BY <1>1, <1>2, <1>3, <1>15, <1>17, <2>1, <2>3, <2>4 DEF Owned, Idle, Nobody
  <2>6. \/ /\ Pending' = {x}
           /\ ~b
        \/ /\ Pending' = NewTsTasks("ts") \cup {x}
           /\ b
    BY <2>2
  <2> QED BY <1>1, <1>2, <1>3, <2>2, <2>3, <2>5, <2>6 DEF After, Starts, b, x
<1> QED BY <1>18, <1>19

\* The end of AM_CAMAN_Close.
LEMMA QuitPops ==
    ASSUME AgendaInv, Quit
    PROVE  After /\ Heads("quit") /\ Pending = {<<"quit", "none">>} /\ Pending' = {}
           /\ apc = "run" /\ apc' = "join" /\ mpc' = mpc
<1>1. Heads("quit")
  BY HeadTask DEF Quit
<1>2. agenda' = << >> /\ lock' = Nobody /\ apc' = "join" /\ mpc' = mpc /\ quit' = TRUE
  BY DEF Quit
<1>3. Owned /\ mpc \in {"top", "lock", "late", "wait", "run", "gone"}
      /\ apc \in {"idle", "run", "join", "remove", "over"} /\ lock \in {Nobody, "mon", "app"}
  BY DEF AgendaInv, TypeOK
<1>4. <<"quit", Of>> = <<"quit", "none">>
  BY <1>1, TaskType DEF Heads
<1>5. Rest = {}
  <2>1. \A y \in Rest : Before(<<"quit", Of>>, y)
    BY <1>1 DEF Heads
  <2>2. Behind("quit") = {}
    BY BehindOf
  <2> QED BY <2>1, <2>2, BeforeIs
<1>6. Pending = {<<"quit", "none">>}
  BY <1>1, <1>4, <1>5 DEF Heads
<1>7. mpc \notin {"run", "late"} /\ apc = "run"
  <2>1. Allowed("quit") /\ agenda # << >>
    BY <1>1 DEF Heads
  <2>2. "quit" \notin RunOps /\ "quit" \notin RemoveOps
    BY DEF RunOps, RemoveOps
  <2> QED BY <1>3, <2>1, <2>2 DEF Owned, Allowed
<1>8. Pending' = {} /\ agenda' \in Seq(AgendaTasks) /\ Ordered'
  BY <1>2, GoodNone DEF Pending, Good, InOrderSeq, Ordered
<1>9. Owned'
  BY <1>2, <1>7, <1>8 DEF Owned, Nobody
<1> QED BY <1>1, <1>2, <1>3, <1>6, <1>7, <1>8, <1>9 DEF After

LEMMA JoinedStarts ==
    ASSUME AgendaInv, Joined
    PROVE  /\ After /\ apc = "join" /\ apc' \in {"over", "remove"} /\ mpc' = mpc /\ mpc = "gone"
           /\ \E s : Starts(Range(s)) /\ Removals(s, Cas)
<1>1. apc = "join" /\ mpc = "gone" /\ UNCHANGED <<lock, mpc, quit>>
      /\ agenda' = Each(CaSeq, In("man"), Removing) \o Each(CaSeq, In("ts"), Removing)
      /\ apc' = IF agenda' = << >> THEN "over" ELSE "remove"
  BY DEF Joined, manVars
<1>2. Owned /\ lock \in {Nobody, "mon", "app"}
  BY DEF AgendaInv, TypeOK
<1>3. Idle
  <2>1. lock = Nobody
    BY <1>1, <1>2 DEF Owned
  <2> QED BY <1>1, <2>1, IdleIs
<1>4. \A l \in {"man", "ts"} : /\ In(l) \in SUBSET Cas
                               /\ \A c \in In(l) : Registered(c) /\ status[c] \in BOOLEAN
  BY CaAssumption DEF In, Registered, AgendaInv, TypeOK
<1> DEFINE u == Each(CaSeq, In("man"), Removing)
           w == Each(CaSeq, In("ts"), Removing)
<1>5. Removals(u, In("man")) /\ Removals(w, In("ts"))
  BY <1>4, RemovingEach
<1> HIDE DEF u, w
<1>6. In("man") \cap In("ts") = {}
  BY DEF In
<1>7. Removals(u \o w, In("man") \cup In("ts"))
  BY <1>5, <1>6, RemovingMore
<1> DEFINE s == u \o w
<1>8. Removals(s, Cas) /\ agenda' = s
  BY <1>1, <1>4, <1>7 DEF Removals, u, w
<1> HIDE DEF s
<1>9. Good(s, RemoveOps, {}) /\ Pending' = Range(s)
  BY <1>8 DEF Removals, Pending
<1>10. agenda' \in Seq(AgendaTasks) /\ Ordered' /\ \A x \in Pending' : x[1] \in RemoveOps
  BY <1>8, <1>9 DEF Good, InOrderSeq, Ordered
<1>11. agenda' = << >> => Pending' = {}
  BY GoodNone DEF Pending
<1>12. Owned'
  <2>1. \A x \in Pending' : Allowed(x[1])'
    BY <1>1, <1>10, <1>11 DEF Allowed
  <2> QED BY <1>1, <1>2, <1>3, <2>1 DEF Owned, Idle, Nobody
<1> QED BY <1>1, <1>2, <1>3, <1>8, <1>9, <1>10, <1>12 DEF After, Starts

-----------------------------------------------------------------------------
(* The types of the rest of the state.                                       *)

TypedMan == /\ tsevt \subseteq AllEvents /\ {quit, paused, disabled} \subseteq BOOLEAN
            /\ service \in Services \cup {NoService} /\ force \in Cas \cup {NoCa}
TypedCas == /\ listed \in [Cas -> {"none", "man", "ts", "tmp"}]
            /\ {status, bound, opened} \subseteq [Cas -> BOOLEAN]
            /\ given \in [Cas -> {NoPmt} \cup (Services \cup {NoService}) \X Services]
            /\ msgs \in [Cas -> 0 .. MaxMsgs]
TypedTables == /\ table \in [Tables -> [open : BOOLEAN, run : BOOLEAN, monitor : BOOLEAN,
                                        got : SUBSET Versions, pid : Versions \cup {-1},
                                        prog : Services \cup {NoService}]]
               /\ ver \in [Tables -> Versions \cup {-1}]
               /\ tlock \in [Tables -> {Nobody, "mon", "dmx"}]
TypedDmx == dmx \in [at : {"idle", "lock", "end"}, table : Tables, ver : Versions,
                     copy : SUBSET AllEvents]
TypedCi == /\ clock \in {Nobody, "mon", "app", "cam"} /\ cilock \in {Nobody, "app", "cam"}
           /\ ci \in [started : BOOLEAN, quit : BOOLEAN, called : BOOLEAN, info : BOOLEAN,
                      send : BOOLEAN, enabled : BOOLEAN, pmt : BOOLEAN, freed : BOOLEAN]
           /\ cam \in {"none", "poll", "ci", "ca", "man"}
TypedEnv == /\ air \in [Tables -> Versions]
            /\ spent \in [calls : 0 .. MaxCalls, changes : 0 .. MaxChanges,
                          fend : 0 .. MaxFend, rounds : 0 .. MaxRounds, msgs : 0 .. MaxMsgs]
Typed == /\ TypedMan /\ TypedCas /\ TypedTables /\ TypedDmx /\ TypedCi /\ TypedEnv
         /\ mishaps \subseteq Mishaps

LEMMA TypedParts == AgendaInv => Typed /\ Owned
BY DEF AgendaInv, TypeOK, Typed, TypedMan, TypedCas, TypedTables, TypedDmx, TypedCi, TypedEnv

LEMMA TypedAfter == After /\ Typed' => AgendaInv'
<1> SUFFICES ASSUME After, Typed' PROVE AgendaInv'
  OBVIOUS
<1>1. TypeOK'
  BY DEF After, TypeOK, Typed, TypedMan, TypedCas, TypedTables, TypedDmx, TypedCi, TypedEnv
<1> QED BY <1>1 DEF After, AgendaInv

LEMMA TypedMishap ==
    ASSUME NEW cond, NEW m \in Mishaps, Mishap(cond, m), mishaps \subseteq Mishaps
    PROVE  mishaps' \subseteq Mishaps
BY DEF Mishap

LEMMA OfType ==
    ASSUME NEW op, Heads(op)
    PROVE  /\ op \in {"stop", "first", "again", "runfirst", "runagain", "timeout", "new",
                      "monitor"} => Of \in Tables
           /\ op = "handled" => Of \in Tables \cup {"ts"}
           /\ op \in CaOps => Of \in Cas
           /\ op \in {"unmatch", "match"} => Of[1] \in Cas /\ Of = <<Of[1], Of[2]>>
                                             /\ Of[2] \in Systems
           /\ op = "service" => Of[1] \in Services /\ Of[2] \in Cas \cup {NoCa}
                                /\ Of = <<Of[1], Of[2]>>
<1> DEFINE x == <<op, Of>>
<1>1. x \in AgendaTasks /\ x[1] = op /\ x[2] = Of
  BY DEF Heads
<1> HIDE DEF x
<1> QED BY <1>1, TaskType

LEMMA WorkTyped ==
    ASSUME AgendaInv, Tabled, Counted, Work
    PROVE  Typed'
<1>0. Typed /\ Owned
  BY TypedParts
<1>1. mishaps \subseteq Mishaps /\ Mishaps = {"raced", "paused", "timeout", "lost", "restarted", "matched", "reopened", "nocam", "dangling", "mixed"}
  BY <1>0 DEF Typed, Mishaps
<1>2. CASE StopTable
  <2>1. Heads("stop")
    BY <1>2, HeadTask DEF StopTable
  <2>2. TypedMan' /\ TypedCas' /\ TypedDmx' /\ TypedCi' /\ TypedEnv' /\ mishaps' \subseteq Mishaps
    BY <1>0, <1>1, <1>2 DEF Typed, StopTable, TypedMan, TypedCas, TypedDmx, TypedCi, TypedEnv, manVars, caVars, ciVars, envVars, tableVars
  <2>3. TypedTables'
    BY <1>0, <1>2, <2>1, OfType DEF Typed, StopTable, TypedTables, tableVars, manVars, caVars, ciVars, Set, CaOps
  <2> QED BY <2>2, <2>3 DEF Typed
<1>3. CASE Synced
  <2>1. Heads("sync")
    BY <1>3, HeadTask DEF Synced
  <2>2. TypedMan' /\ TypedCas' /\ TypedTables' /\ TypedDmx' /\ TypedCi' /\ TypedEnv' /\ mishaps' \subseteq Mishaps
    BY <1>0, <1>1, <1>3 DEF Typed, Synced, TypedMan, TypedCas, TypedTables, TypedDmx, TypedCi, TypedEnv, manVars, caVars, tableVars, ciVars, envVars
  <2> QED BY <2>2 DEF Typed
<1>4. CASE CloseTables
  <2>1. Heads("closets")
    BY <1>4, HeadTask DEF CloseTables
  <2>2. TypedCas' /\ TypedDmx' /\ TypedCi' /\ TypedEnv'
    BY <1>0, <1>1, <1>4 DEF Typed, CloseTables, TypedCas, TypedDmx, TypedCi, TypedEnv, caVars, ciVars, envVars, manVars, tableVars
  <2>3. TypedMan'
    BY <1>0, <1>4, <2>1, OfType DEF Typed, CloseTables, TypedMan, manVars, caVars, tableVars, ciVars, Closed, NewTs, AllEvents, Versions, CaOps
  <2>4. TypedTables'
    BY <1>0, <1>4, <2>1, OfType DEF Typed, CloseTables, TypedTables, tableVars, manVars, caVars, ciVars, Closed, NewTs, AllEvents, Versions, CaOps
  <2>5. mishaps' \subseteq Mishaps
    BY <1>1, <1>4, TypedMishap DEF CloseTables
  <2> QED BY <2>2, <2>3, <2>4, <2>5 DEF Typed
<1>5. CASE TimeOut
  <2>1. Heads("timeout")
    BY <1>5, HeadTask DEF TimeOut
  <2>2. TypedMan' /\ TypedCas' /\ TypedDmx' /\ TypedCi' /\ TypedEnv'
    BY <1>0, <1>1, <1>5 DEF Typed, TimeOut, TypedMan, TypedCas, TypedDmx, TypedCi, TypedEnv, manVars, caVars, ciVars, envVars, tableVars
  <2>3. TypedTables'
    BY <1>0, <1>5, <2>1, OfType DEF Typed, TimeOut, TypedTables, tableVars, manVars, caVars, ciVars, Set, CaOps
  <2>4. mishaps' \subseteq Mishaps
    BY <1>1, <1>5, TypedMishap DEF TimeOut
  <2> QED BY <2>2, <2>3, <2>4 DEF Typed
<1>6. CASE Look
  <2>1. Heads("from")
    BY <1>6, HeadTask DEF Look
  <2>2. UNCHANGED <<manVars, caVars, tableVars, dmx, ciVars, envVars, mishaps>>
    BY <1>6 DEF Look
  <2>3. TypedMan' /\ TypedCas' /\ TypedTables' /\ TypedDmx' /\ TypedCi' /\ TypedEnv' /\ mishaps' \subseteq Mishaps
    BY <1>0, <1>1, <2>2 DEF Typed, TypedMan, TypedCas, TypedTables, TypedDmx, TypedCi, TypedEnv, manVars, caVars, tableVars, ciVars, envVars
  <2> QED BY <2>3 DEF Typed
<1>7. CASE MonitorTable
  <2>1. Heads("monitor")
    BY <1>7, HeadTask DEF MonitorTable
  <2>2. TypedCas' /\ TypedDmx' /\ TypedCi' /\ TypedEnv' /\ mishaps' \subseteq Mishaps
    BY <1>0, <1>1, <1>7 DEF Typed, MonitorTable, TypedCas, TypedDmx, TypedCi, TypedEnv, caVars, ciVars, envVars, manVars, tableVars
  <2>3. TypedMan'
    BY <1>0, <1>7, <2>1, OfType DEF Typed, MonitorTable, TypedMan, manVars, caVars, tableVars, ciVars, Events, AllEvents, Evt, CaOps
  <2>4. TypedTables'
    BY <1>0, <1>7, <2>1, OfType DEF Typed, MonitorTable, TypedTables, tableVars, manVars, caVars, ciVars, Events, AllEvents, Evt, CaOps
  <2> QED BY <2>2, <2>3, <2>4 DEF Typed
<1>8. CASE Handled
  <2>1. Heads("handled")
    BY <1>8, HeadTask DEF Handled
  <2>2. TypedCas' /\ TypedTables' /\ TypedDmx' /\ TypedCi' /\ TypedEnv'
    BY <1>0, <1>1, <1>8 DEF Typed, Handled, TypedCas, TypedTables, TypedDmx, TypedCi, TypedEnv, caVars, tableVars, ciVars, envVars, manVars
  <2>3. TypedMan'
    BY <1>0, <1>8, <2>1, OfType DEF Typed, Handled, TypedMan, manVars, caVars, tableVars, ciVars, CaOps
  <2>4. mishaps' \subseteq Mishaps
    BY <1>1, <1>8, TypedMishap DEF Handled
  <2> QED BY <2>2, <2>3, <2>4 DEF Typed
<1>9. CASE Enter
  <2>1. Heads("enter")
    BY <1>9, HeadTask DEF Enter
  <2>2. TypedMan' /\ TypedCas' /\ TypedTables' /\ TypedDmx' /\ TypedEnv' /\ mishaps' \subseteq Mishaps
    BY <1>0, <1>1, <1>9 DEF Typed, Enter, TypedMan, TypedCas, TypedTables, TypedDmx, TypedEnv, manVars, caVars, tableVars, envVars, ciVars
  <2>3. TypedCi'
    <3>1. Worker \in {Nobody, "mon", "app"}
      BY DEF Worker, AgendaInv, TypeOK
    <3> QED BY <1>0, <1>9, <3>1 DEF Typed, Enter, TypedCi
  <2> QED BY <2>2, <2>3 DEF Typed
<1>10. CASE Arrange
  <2>1. Heads("arrange")
    BY <1>10, HeadTask DEF Arrange
  <2>2. TypedMan' /\ TypedCas' /\ TypedTables' /\ TypedDmx' /\ TypedCi' /\ TypedEnv' /\ mishaps' \subseteq Mishaps
    BY <1>0, <1>1, <1>10 DEF Typed, Arrange, TypedMan, TypedCas, TypedTables, TypedDmx, TypedCi, TypedEnv, manVars, caVars, tableVars, ciVars, envVars
  <2> QED BY <2>2 DEF Typed
<1>11. CASE Unmatch
  <2>1. Heads("unmatch")
    BY <1>11, HeadTask DEF Unmatch
  <2>2. TypedMan' /\ TypedTables' /\ TypedDmx' /\ TypedEnv' /\ mishaps' \subseteq Mishaps
    BY <1>0, <1>1, <1>11 DEF Typed, Unmatch, TypedMan, TypedTables, TypedDmx, TypedEnv, manVars, tableVars, envVars, caVars, ciVars
  <2>3. TypedCas'
    <3>1. /\ UNCHANGED <<status, opened, given, msgs>>
          /\ \/ UNCHANGED <<listed, bound>>
             \/ /\ listed' = [listed EXCEPT ![Of[1]] = "tmp"]
                /\ bound' = [bound EXCEPT ![Of[1]] = FALSE]
      BY <1>11 DEF Unmatch
    <3> QED BY <1>0, <3>1 DEF Typed, TypedCas
  <2>4. TypedCi'
    BY <1>0, <1>11, <2>1, OfType DEF Typed, Unmatch, TypedCi, ciVars, manVars, caVars, tableVars, Leave, CaOps
  <2> QED BY <2>2, <2>3, <2>4 DEF Typed
<1>12. CASE Match
  <2>1. Heads("match")
    BY <1>12, HeadTask DEF Match
  <2>2. TypedMan' /\ TypedTables' /\ TypedDmx' /\ TypedEnv'
    BY <1>0, <1>1, <1>12 DEF Typed, Match, TypedMan, TypedTables, TypedDmx, TypedEnv, manVars, tableVars, envVars, caVars, ciVars
  <2>3. TypedCas'
    BY <1>0, <1>12, <2>1, OfType DEF Typed, Match, TypedCas, caVars, manVars, tableVars, ciVars, Leave, CaOps
  <2>4. TypedCi'
    BY <1>0, <1>12, <2>1, OfType DEF Typed, Match, TypedCi, ciVars, manVars, caVars, tableVars, Leave, CaOps
  <2>5. mishaps' \subseteq Mishaps
    BY <1>1, <1>12, TypedMishap DEF Match
  <2> QED BY <2>2, <2>3, <2>4, <2>5 DEF Typed
<1>13. CASE Collect
  <2>1. Heads("collect")
    BY <1>13, HeadTask DEF Collect
  <2>2. TypedMan' /\ TypedCas' /\ TypedTables' /\ TypedDmx' /\ TypedCi' /\ TypedEnv' /\ mishaps' \subseteq Mishaps
    BY <1>0, <1>1, <1>13 DEF Typed, Collect, TypedMan, TypedCas, TypedTables, TypedDmx, TypedCi, TypedEnv, manVars, caVars, tableVars, ciVars, envVars
  <2> QED BY <2>2 DEF Typed
<1>14. CASE Give
  <2>1. Heads("give")
    BY <1>14, HeadTask DEF Give
  <2>2. TypedMan' /\ TypedCas' /\ TypedTables' /\ TypedDmx' /\ TypedCi' /\ TypedEnv' /\ mishaps' \subseteq Mishaps
    BY <1>0, <1>1, <1>14 DEF Typed, Give, TypedMan, TypedCas, TypedTables, TypedDmx, TypedCi, TypedEnv, manVars, caVars, tableVars, ciVars, envVars
  <2> QED BY <2>2 DEF Typed
<1>15. CASE StopPmt
  <2>1. Heads("stoppmt")
    BY <1>15, HeadTask DEF StopPmt
  <2>2. TypedMan' /\ TypedTables' /\ TypedDmx' /\ TypedEnv' /\ mishaps' \subseteq Mishaps
    BY <1>0, <1>1, <1>15 DEF Typed, StopPmt, TypedMan, TypedTables, TypedDmx, TypedEnv, manVars, tableVars, envVars, caVars, ciVars
  <2>3. TypedCas'
    BY <1>0, <1>15, <2>1, OfType DEF Typed, StopPmt, TypedCas, caVars, manVars, tableVars, ciVars, Leave, CaOps
  <2>4. TypedCi'
    BY <1>0, <1>15, <2>1, OfType DEF Typed, StopPmt, TypedCi, ciVars, manVars, caVars, tableVars, Leave, CaOps
  <2> QED BY <2>2, <2>3, <2>4 DEF Typed
<1>16. CASE Register
  <2>1. Heads("register")
    BY <1>16, HeadTask DEF Register
  <2>2. TypedMan' /\ TypedTables' /\ TypedDmx' /\ TypedEnv' /\ mishaps' \subseteq Mishaps
    BY <1>0, <1>1, <1>16 DEF Typed, Register, TypedMan, TypedTables, TypedDmx, TypedEnv, manVars, tableVars, envVars, caVars, ciVars
  <2>3. TypedCas'
    BY <1>0, <1>16, <2>1, OfType DEF Typed, Register, TypedCas, caVars, manVars, tableVars, ciVars, Leave, CaOps
  <2>4. TypedCi'
    BY <1>0, <1>16, <2>1, OfType DEF Typed, Register, TypedCi, ciVars, manVars, caVars, tableVars, Leave, CaOps
  <2> QED BY <2>2, <2>3, <2>4 DEF Typed
<1>17. CASE Disable
  <2>1. Heads("disable")
    BY <1>17, HeadTask DEF Disable
  <2>2. TypedMan' /\ TypedCas' /\ TypedTables' /\ TypedDmx' /\ TypedEnv' /\ mishaps' \subseteq Mishaps
    BY <1>0, <1>1, <1>17 DEF Typed, Disable, TypedMan, TypedCas, TypedTables, TypedDmx, TypedEnv, manVars, caVars, tableVars, envVars, ciVars
  <2>3. TypedCi'
    BY <1>0, <1>17, <2>1, OfType DEF Typed, Disable, TypedCi, ciVars, manVars, caVars, tableVars, Leave, CaOps
  <2> QED BY <2>2, <2>3 DEF Typed
<1>18. CASE Uncall
  <2>1. Heads("uncall")
    BY <1>18, HeadTask DEF Uncall
  <2>2. TypedMan' /\ TypedCas' /\ TypedTables' /\ TypedDmx' /\ TypedEnv' /\ mishaps' \subseteq Mishaps
    BY <1>0, <1>1, <1>18 DEF Typed, Uncall, TypedMan, TypedCas, TypedTables, TypedDmx, TypedEnv, manVars, caVars, tableVars, envVars, ciVars
  <2>3. TypedCi'
    BY <1>0, <1>18, <2>1, OfType DEF Typed, Uncall, TypedCi, ciVars, manVars, caVars, tableVars, CaOps
  <2> QED BY <2>2, <2>3 DEF Typed
<1>19. CASE CloseCa
  <2>1. Heads("closed")
    BY <1>19, HeadTask DEF CloseCa
  <2>2. TypedMan' /\ TypedTables' /\ TypedDmx' /\ TypedEnv'
    BY <1>0, <1>1, <1>19 DEF Typed, CloseCa, TypedMan, TypedTables, TypedDmx, TypedEnv, manVars, tableVars, envVars, caVars, ciVars
  <2>3. TypedCas'
    BY <1>0, <1>19, <2>1, OfType DEF Typed, CloseCa, TypedCas, caVars, manVars, tableVars, ciVars, CaOps
  <2>4. TypedCi'
    BY <1>0, <1>19, <2>1, OfType DEF Typed, CloseCa, TypedCi, ciVars, manVars, caVars, tableVars, CaOps
  <2>5. mishaps' \subseteq Mishaps
    BY <1>1, <1>19, TypedMishap DEF CloseCa
  <2> QED BY <2>2, <2>3, <2>4, <2>5 DEF Typed
<1>20. CASE Receive
  <2>1. Heads("receive")
    BY <1>20, HeadTask DEF Receive
  <2>2. TypedMan' /\ TypedCas' /\ TypedTables' /\ TypedDmx' /\ TypedCi' /\ TypedEnv' /\ mishaps' \subseteq Mishaps
    BY <1>0, <1>1, <1>20 DEF Typed, Receive, TypedMan, TypedCas, TypedTables, TypedDmx, TypedCi, TypedEnv, manVars, caVars, tableVars, ciVars, envVars
  <2> QED BY <2>2 DEF Typed
<1>21. CASE Unlist
  <2>1. Heads("unlist")
    BY <1>21, HeadTask DEF Unlist
  <2>2. TypedTables' /\ TypedDmx' /\ TypedCi' /\ TypedEnv' /\ mishaps' \subseteq Mishaps
    BY <1>0, <1>1, <1>21 DEF Typed, Unlist, TypedTables, TypedDmx, TypedCi, TypedEnv, tableVars, ciVars, envVars, manVars, caVars
  <2>3. TypedCas'
    <3>1. 0 \in 0 .. MaxMsgs
      BY BoundsAssumption
    <3>2. /\ UNCHANGED <<status, bound, opened, given>>
          /\ listed' = [listed EXCEPT ![Of] = "none"] /\ msgs' = [msgs EXCEPT ![Of] = 0]
      BY <1>21 DEF Unlist
    <3> QED BY <1>0, <3>1, <3>2 DEF Typed, TypedCas
  <2>4. TypedMan'
    BY <1>0, <1>21, <2>1, OfType DEF Typed, Unlist, TypedMan, manVars, caVars, tableVars, ciVars, CaOps
  <2> QED BY <2>2, <2>3, <2>4 DEF Typed
<1>22. CASE Destroy
  <2>1. Heads("destroy")
    BY <1>22, HeadTask DEF Destroy
  <2>2. TypedMan' /\ TypedTables' /\ TypedDmx' /\ TypedEnv' /\ mishaps' \subseteq Mishaps
    BY <1>0, <1>1, <1>22 DEF Typed, Destroy, TypedMan, TypedTables, TypedDmx, TypedEnv, manVars, tableVars, envVars, caVars, ciVars
  <2>3. TypedCas'
    BY <1>0, <1>22, <2>1, OfType DEF Typed, Destroy, TypedCas, caVars, manVars, tableVars, ciVars, CaOps
  <2>4. TypedCi'
    BY <1>0, <1>22, <2>1, OfType DEF Typed, Destroy, TypedCi, ciVars, manVars, caVars, tableVars, CaOps
  <2> QED BY <2>2, <2>3, <2>4 DEF Typed
<1>23. CASE SetService
  <2>1. Heads("service")
    BY <1>23, HeadTask DEF SetService
  <2>2. TypedTables' /\ TypedDmx' /\ TypedCi' /\ TypedEnv'
    BY <1>0, <1>1, <1>23 DEF Typed, SetService, TypedTables, TypedDmx, TypedCi, TypedEnv, tableVars, ciVars, envVars, manVars, caVars
  <2>3. TypedMan'
    BY <1>0, <1>23, <2>1, OfType DEF Typed, SetService, TypedMan, manVars, caVars, tableVars, ciVars, NewTs, Evt, AllEvents, CaOps
  <2>4. TypedCas'
    BY <1>0, <1>23, <2>1, OfType DEF Typed, SetService, TypedCas, caVars, manVars, tableVars, ciVars, NewTs, Evt, AllEvents, CaOps
  <2>5. mishaps' \subseteq Mishaps
    BY <1>1, <1>23, TypedMishap DEF SetService
  <2> QED BY <2>2, <2>3, <2>4, <2>5 DEF Typed
<1>24. CASE NoMoreService
  <2>1. Heads("noservice")
    BY <1>24, HeadTask DEF NoMoreService
  <2>2. TypedTables' /\ TypedDmx' /\ TypedCi' /\ TypedEnv' /\ mishaps' \subseteq Mishaps
    BY <1>0, <1>1, <1>24 DEF Typed, NoMoreService, TypedTables, TypedDmx, TypedCi, TypedEnv, tableVars, ciVars, envVars, manVars, caVars
  <2>3. TypedMan'
    BY <1>0, <1>24, <2>1, OfType DEF Typed, NoMoreService, TypedMan, manVars, caVars, tableVars, ciVars, CaOps
  <2>4. TypedCas'
    BY <1>0, <1>24, <2>1, OfType DEF Typed, NoMoreService, TypedCas, caVars, manVars, tableVars, ciVars, CaOps
  <2> QED BY <2>2, <2>3, <2>4 DEF Typed
<1>25. CASE ListCa
  <2>1. Heads("list")
    BY <1>25, HeadTask DEF ListCa
  <2>2. TypedMan' /\ TypedTables' /\ TypedDmx' /\ TypedEnv' /\ mishaps' \subseteq Mishaps
    BY <1>0, <1>1, <1>25 DEF Typed, ListCa, TypedMan, TypedTables, TypedDmx, TypedEnv, manVars, tableVars, envVars, caVars, ciVars
  <2>3. TypedCas'
    BY <1>0, <1>25, <2>1, OfType DEF Typed, ListCa, TypedCas, caVars, manVars, tableVars, ciVars, CaOps
  <2>4. TypedCi'
    BY <1>0, <1>25, <2>1, OfType DEF Typed, ListCa, TypedCi, ciVars, manVars, caVars, tableVars, CaOps
  <2> QED BY <2>2, <2>3, <2>4 DEF Typed
<1>30. CASE StartTable
  <2>1. \E op \in {"first", "again"} : Heads(op)
    BY <1>30, HeadTask DEF StartTable
  <2>2. Of \in Tables
    BY <2>1, OfType
  <2>3. TypedCas' /\ TypedDmx' /\ TypedCi' /\ TypedEnv' /\ mishaps' \subseteq Mishaps
    BY <1>0, <1>30 DEF Typed, StartTable, TypedCas, TypedDmx, TypedCi, TypedEnv, caVars, ciVars,
       envVars
  <2>4. TypedMan'
    BY <1>0, <1>30 DEF Typed, StartTable, TypedMan
  <2>5. TypedTables'
    BY <1>0, <1>30, <2>2 DEF Typed, StartTable, TypedTables, Set
  <2> QED BY <2>3, <2>4, <2>5 DEF Typed
<1>31. CASE RunTable
  <2>1. \E op \in {"runfirst", "runagain"} : Heads(op)
    BY <1>31, HeadTask DEF RunTable
  <2>2. Of \in Tables
    BY <2>1, OfType
  <2>3. TypedMan' /\ TypedCas' /\ TypedDmx' /\ TypedCi' /\ TypedEnv' /\ mishaps' \subseteq Mishaps
    BY <1>0, <1>31 DEF Typed, RunTable, TypedMan, TypedCas, TypedDmx, TypedCi, TypedEnv, manVars,
       caVars, ciVars, envVars
  <2>4. table[Of] \in [open : BOOLEAN, run : BOOLEAN, monitor : BOOLEAN, got : SUBSET Versions,
                       pid : Versions \cup {-1}, prog : Services \cup {NoService}]
        /\ ver["pat"] \in Versions \cup {-1} /\ service \in Services \cup {NoService}
    BY <1>0, <2>2 DEF Typed, TypedTables, TypedMan, Tables
  <2> DEFINE r == [Closed EXCEPT !.open = TRUE, !.run = TRUE,
                          !.pid = IF Of = "pmt" THEN ver["pat"] ELSE -1,
                          !.prog = IF Of = "pmt" THEN service ELSE NoService]
             a == IF ~table[Of].open THEN table[Of]
                     ELSE [table[Of] EXCEPT !.run = TRUE, !.monitor = TRUE,
                              !.got = IF Of # "pmt" /\ table[Of].monitor THEN @ ELSE {}]
             T == [open : BOOLEAN, run : BOOLEAN, monitor : BOOLEAN, got : SUBSET Versions,
                       pid : Versions \cup {-1}, prog : Services \cup {NoService}]
  <2>5. r \in T
    BY <2>4 DEF Closed
  <2>6. a \in T
    BY <2>4
  <2>7. table' = [table EXCEPT ![Of] = r] \/ table' = [table EXCEPT ![Of] = a]
    BY <1>31 DEF RunTable, Set
  <2> HIDE DEF r, a
  <2>8. TypedTables'
    BY <1>0, <1>31, <2>2, <2>5, <2>6, <2>7 DEF Typed, TypedTables, RunTable
  <2> QED BY <2>3, <2>8 DEF Typed
<1>32. CASE NewTable
  <2>1. Heads("new")
    BY <1>32, HeadTask DEF NewTable
  <2>2. Of \in Tables
    BY <2>1, OfType
  <2>3. TypedMan' /\ TypedCas' /\ TypedDmx' /\ TypedCi' /\ TypedEnv' /\ mishaps' \subseteq Mishaps
    BY <1>0, <1>32 DEF Typed, NewTable, TypedMan, TypedCas, TypedDmx, TypedCi, TypedEnv, manVars,
       caVars, ciVars, envVars
  <2>4. table[Of].got \in SUBSET Versions
    BY <1>0, <2>2 DEF Typed, TypedTables
  <2>5. table' = table /\ tlock' \in [Tables -> {Nobody, "mon", "dmx"}]
    BY <1>0, <1>32, <2>2 DEF Typed, TypedTables, NewTable
  <2>6. ver' \in [Tables -> Versions \cup {-1}]
    <3>1. \/ ver' = ver
          \/ table[Of].got # {} /\ ver' = [ver EXCEPT ![Of] = Max(table[Of].got)]
      BY <1>0, <1>32 DEF NewTable, Typed, TypedTables
    <3>2. table[Of].got # {} => Max(table[Of].got) \in Versions
      BY <2>4, Greatest
    <3> QED BY <1>0, <2>2, <3>1, <3>2 DEF Typed, TypedTables
  <2> QED BY <1>0, <2>3, <2>5, <2>6 DEF Typed, TypedTables
<1>33. CASE StartPmt
  <2>1. Heads("start")
    BY <1>33, HeadTask DEF StartPmt
  <2>2. Of \in Cas
    BY <2>1, OfType DEF CaOps
  <2>3. TypedMan' /\ TypedTables' /\ TypedDmx' /\ TypedEnv' /\ mishaps' \subseteq Mishaps
    BY <1>0, <1>33 DEF Typed, StartPmt, TypedMan, TypedTables, TypedDmx, TypedEnv, manVars,
       tableVars, envVars
  <2>4. Waits("start", Of)
    BY <2>1 DEF Heads, Waits, For
  <2>5. <<service, table["pmt"].prog>> \in (Services \cup {NoService}) \X Services
    BY <1>0, <2>2, <2>4 DEF Tabled, Typed, TypedMan
  <2>6. TypedCas'
    BY <1>0, <1>33, <2>5 DEF Typed, TypedCas, StartPmt
  <2>7. TypedCi'
    BY <1>0, <1>33 DEF Typed, TypedCi, StartPmt, Leave, CiFree
  <2> QED BY <2>3, <2>6, <2>7 DEF Typed
<1>34. CASE OpenCi
  <2>1. Heads("open")
    BY <1>34, HeadTask DEF OpenCi
  <2>2. Of \in Cas
    BY <2>1, OfType DEF CaOps
  <2>3. TypedMan' /\ TypedTables' /\ TypedDmx' /\ TypedEnv'
    BY <1>0, <1>34 DEF Typed, OpenCi, TypedMan, TypedTables, TypedDmx, TypedEnv, manVars,
       tableVars, envVars
  <2>4. TypedCas'
    BY <1>0, <1>34 DEF Typed, TypedCas, OpenCi
  <2>5. TypedCi' /\ mishaps' \subseteq Mishaps
    <3>1. CASE Of # Ci
      BY <1>0, <1>34, <3>1 DEF Typed, TypedCi, OpenCi, Leave, CiFree
    <3>2. CASE Of = Ci
      <4>1. PICK works \in BOOLEAN :
               /\ ci' = [ci EXCEPT !.send = FALSE, !.called = TRUE, !.started = @ \/ works,
                                  !.info = @ /\ ~(works /\ ~ci.started)]
               /\ cam' = IF works /\ ~ci.started /\ ~ci.quit THEN "poll" ELSE cam
               /\ Mishap(~ci.started /\ (~works \/ ci.quit),
                        IF works THEN "reopened" ELSE "nocam")
        BY <1>34, <3>2, Zenon DEF OpenCi
      <4>2. clock' = Nobody /\ cilock' = cilock
        BY <1>34, <3>2 DEF OpenCi, Leave
      <4>3. (IF works THEN "reopened" ELSE "nocam") \in Mishaps
        BY <1>1
      <4> QED BY <1>0, <1>1, <4>1, <4>2, <4>3, TypedMishap DEF Typed, TypedCi
    <3> QED BY <3>1, <3>2
  <2> QED BY <2>3, <2>4, <2>5 DEF Typed
<1>35. CASE StopCi
  <2>1. Heads("stopci")
    BY <1>35, HeadTask DEF StopCi
  <2>2. TypedMan' /\ TypedCas' /\ TypedTables' /\ TypedDmx' /\ TypedEnv' /\ mishaps' \subseteq Mishaps
    BY <1>0, <1>35 DEF Typed, StopCi, TypedMan, TypedCas, TypedTables, TypedDmx, TypedEnv, manVars,
       caVars, tableVars, envVars
  <2>3. Worker \in {Nobody, "app"}
    <3>1. mpc \notin {"run", "late"}
      BY <2>1 DEF Heads, Allowed, RunOps
    <3> QED BY <1>0, <3>1 DEF Worker, Owned, AgendaInv, TypeOK
  <2>4. TypedCi'
    BY <1>0, <1>35, <2>3 DEF Typed, TypedCi, StopCi
  <2> QED BY <2>2, <2>4 DEF Typed
<1>36. CASE TakeMsg
  <2>1. Heads("getmsg")
    BY <1>36, HeadTask DEF TakeMsg
  <2>2. Of \in Cas
    BY <2>1, OfType DEF CaOps
  <2>3. TypedMan' /\ TypedTables' /\ TypedDmx' /\ TypedCi' /\ TypedEnv' /\ mishaps' \subseteq Mishaps
    BY <1>0, <1>36 DEF Typed, TakeMsg, TypedMan, TypedTables, TypedDmx, TypedCi, TypedEnv, manVars,
       tableVars, ciVars, envVars
  <2>4. msgs[Of] > 0
    BY <2>1, <2>2 DEF Counted, Heads, Waits, For
  <2>5. msgs[Of] \in 0 .. MaxMsgs /\ MaxMsgs \in Nat
    BY <1>0, <2>2, BoundsAssumption DEF Typed, TypedCas
  <2>6. msgs[Of] - 1 \in 0 .. MaxMsgs
    BY <2>4, <2>5
  <2>7. msgs' = [msgs EXCEPT ![Of] = msgs[Of] - 1]
    BY <1>36 DEF TakeMsg
  <2>8. msgs' \in [Cas -> 0 .. MaxMsgs]
    BY <1>0, <2>6, <2>7 DEF Typed, TypedCas
  <2>9. TypedCas'
    BY <1>0, <1>36, <2>8 DEF Typed, TypedCas, TakeMsg
  <2> QED BY <2>3, <2>9 DEF Typed
<1>37. CASE SetPause
  <2>1. TypedCas' /\ TypedTables' /\ TypedDmx' /\ TypedCi' /\ TypedEnv' /\ mishaps' \subseteq Mishaps
    BY <1>0, <1>37 DEF Typed, SetPause, TypedCas, TypedTables, TypedDmx, TypedCi, TypedEnv,
       caVars, tableVars, ciVars, envVars
  <2>2. TypedMan'
    BY <1>0, <1>37 DEF Typed, TypedMan, SetPause, At
  <2> QED BY <2>1, <2>2 DEF Typed
<1>38. CASE Quit
  <2>1. TypedCas' /\ TypedTables' /\ TypedDmx' /\ TypedCi' /\ TypedEnv' /\ mishaps' \subseteq Mishaps
    BY <1>0, <1>38 DEF Typed, Quit, TypedCas, TypedTables, TypedDmx, TypedCi, TypedEnv,
       caVars, tableVars, ciVars, envVars
  <2>2. TypedMan'
    BY <1>0, <1>38 DEF Typed, TypedMan, Quit
  <2> QED BY <2>1, <2>2 DEF Typed
<1> QED BY <1>2, <1>3, <1>4, <1>5, <1>6, <1>7, <1>8, <1>9, <1>10, <1>11, <1>12, <1>13, <1>14, <1>15, <1>16, <1>17, <1>18, <1>19, <1>20, <1>21, <1>22, <1>23, <1>24, <1>25, <1>30, <1>31, <1>32, <1>33, <1>34, <1>35, <1>36, <1>37, <1>38
   DEF Work, Tabling, Handling, CallingCas, Ending

LEMMA CallTyped ==
    ASSUME AgendaInv, NEW tasks, AnyCall(tasks), UNCHANGED spent \/ AppCall(tasks)
    PROVE  Typed'
<1>1. Typed
  BY TypedParts
<1>2. UNCHANGED <<manVars, caVars, tableVars, dmx, ciVars, air, mishaps>>
  BY DEF AnyCall
<1>3. TypedMan' /\ TypedCas' /\ TypedTables' /\ TypedDmx' /\ TypedCi' /\ mishaps' \subseteq Mishaps
  BY <1>1, <1>2 DEF Typed, TypedMan, TypedCas, TypedTables, TypedDmx, TypedCi, manVars, caVars,
     tableVars, ciVars
<1>4. TypedEnv'
  <2>1. CASE UNCHANGED spent
    BY <1>1, <1>2, <2>1 DEF Typed, TypedEnv
  <2>2. CASE AppCall(tasks)
    <3>1. spent.calls < MaxCalls /\ spent' = [spent EXCEPT !.calls = spent.calls + 1]
      BY <2>2 DEF AppCall
    <3>2. spent.calls \in 0 .. MaxCalls /\ MaxCalls \in Nat
      BY <1>1, BoundsAssumption DEF Typed, TypedEnv
    <3>3. spent.calls + 1 \in 0 .. MaxCalls
      BY <3>1, <3>2
    <3> QED BY <1>1, <1>2, <3>1, <3>3 DEF Typed, TypedEnv
  <2> QED BY <2>1, <2>2
<1> QED BY <1>3, <1>4 DEF Typed

LEMMA CallsTyped ==
    ASSUME AgendaInv, Calls
    PROVE  Typed'
<1>1. ASSUME NEW c \in Cas, RegisterCA(c) PROVE Typed'
  BY <1>1, CallTyped DEF RegisterCA, AppCall
<1>2. ASSUME NEW c \in Cas, UnregisterCA(c) PROVE Typed'
  BY <1>2, CallTyped DEF UnregisterCA, AppCall
<1>3. ASSUME NEW c \in Cas, OpenCA(c) PROVE Typed'
  BY <1>3, CallTyped DEF OpenCA, AppCall
<1>4. ASSUME NEW c \in Cas, CloseCA(c) PROVE Typed'
  BY <1>4, CallTyped DEF CloseCA, AppCall
<1>5. ASSUME NEW c \in Cas, StopCA(c) PROVE Typed'
  BY <1>5, CallTyped DEF StopCA, AppCall
<1>6. ASSUME NEW c \in Cas, PutMsg(c) PROVE Typed'
  BY <1>6, CallTyped DEF PutMsg
<1>7. ASSUME NEW c \in Cas, GetMsg(c) PROVE Typed'
  BY <1>7, CallTyped DEF GetMsg
<1>8. ASSUME NEW s \in Services, NEW c \in Cas \cup {NoCa}, StartService(s, c) PROVE Typed'
  BY <1>8, CallTyped DEF StartService, AppCall
<1>9. CASE StopService
  <2> DEFINE s == (IF force # NoCa THEN CaCall("stoppmt", force)
             ELSE Each(CaSeq, In("ts"), LAMBDA c : CaCall("stoppmt", c))) \o <<Do("noservice")>>
  <2>1. AppCall(s)
    BY <1>9 DEF StopService
  <2> HIDE DEF s
  <2> QED BY <2>1, CallTyped DEF AppCall
<1>10. CASE Pause \/ Resume
  BY <1>10, CallTyped DEF Pause, Resume, AppCall
<1>11. CASE Close
  BY <1>11, CallTyped DEF Close, AppCall
<1> QED BY <1>1, <1>2, <1>3, <1>4, <1>5, <1>6, <1>7, <1>8, <1>9, <1>10, <1>11 DEF Calls

LEMMA OtherTyped ==
    ASSUME AgendaInv, Counted,
           \/ MonTop \/ MonLock \/ MonWake \/ Section \/ Cam \/ Joined \/ FendEvent
           \/ \E t \in Tables : Change(t)
    PROVE  Typed'
<1>1. Typed
  BY TypedParts
<1>2. CASE MonTop
  BY <1>1, <1>2 DEF Typed, MonTop, TypedMan, TypedCas, TypedTables, TypedDmx, TypedCi, TypedEnv,
     manVars, caVars, tableVars, ciVars, envVars
<1>3. CASE MonLock
  <2>1. UNCHANGED <<quit, paused, service, disabled, force, caVars, tableVars, dmx, ciVars, air,
                    mishaps>>
    BY <1>3 DEF MonLock
  <2>2. PICK due \in SUBSET {t \in Tables : Evt("mon", t) \in tsevt} :
          /\ tsevt' = (tsevt \ {Evt("mon", t) : t \in due}) \cup {Evt("start", t) : t \in due}
          /\ spent.rounds + Cardinality(due) \in 0 .. MaxRounds
          /\ spent' = [spent EXCEPT !.rounds = spent.rounds + Cardinality(due)]
    BY <1>3 DEF MonLock
  <2>3. {Evt("start", t) : t \in due} \subseteq AllEvents
    BY DEF AllEvents, Events
  <2>4. TypedMan'
    BY <1>1, <2>1, <2>2, <2>3 DEF Typed, TypedMan
  <2>5. TypedEnv'
    BY <1>1, <2>1, <2>2 DEF Typed, TypedEnv
  <2>6. TypedCas' /\ TypedTables' /\ TypedDmx' /\ TypedCi'
    BY <1>1, <2>1 DEF Typed, TypedCas, TypedTables, TypedDmx, TypedCi, caVars, tableVars, ciVars
  <2> QED BY <1>1, <2>1, <2>4, <2>5, <2>6 DEF Typed
<1>4. CASE MonWake
  <2>1. /\ UNCHANGED <<quit, paused, service, disabled, force, listed, status, bound, opened,
                       given, tableVars, dmx, ciVars, envVars>>
        /\ msgs' = [c \in Cas |-> IF c \in Callbacks THEN 0 ELSE msgs[c]]
        /\ tsevt' = (IF paused THEN {} ELSE tsevt) /\ Mishap(tsevt # tsevt', "paused")
    BY <1>4 DEF MonWake
  <2>2. TypedMan'
    BY <1>1, <2>1 DEF Typed, TypedMan
  <2>3. 0 \in 0 .. MaxMsgs
    BY BoundsAssumption
  <2>4. TypedCas'
    BY <1>1, <2>1, <2>3 DEF Typed, TypedCas
  <2>5. TypedTables' /\ TypedDmx' /\ TypedCi' /\ TypedEnv'
    BY <1>1, <2>1 DEF Typed, TypedTables, TypedDmx, TypedCi, TypedEnv, tableVars, ciVars, envVars
  <2>6. mishaps' \subseteq Mishaps
    BY <1>1, <2>1, TypedMishap DEF Typed, Mishaps
  <2> QED BY <2>2, <2>4, <2>5, <2>6 DEF Typed
<1>5. ASSUME NEW t \in Tables, Capture(t) PROVE Typed'
  <2>1. TypedDmx'
    <3>1. air[t] \in Versions /\ {} \in SUBSET AllEvents
      BY <1>1 DEF Typed, TypedEnv
    <3>2. dmx' = [at |-> "lock", table |-> t, ver |-> air[t], copy |-> {}]
      BY <1>5 DEF Capture, NoSection
    <3> QED BY <3>1, <3>2 DEF TypedDmx
  <2> QED BY <1>1, <1>5, <2>1 DEF Typed, Capture, TypedMan, TypedCas, TypedTables, TypedCi,
          TypedEnv, manVars, caVars, tableVars, ciVars, envVars
<1>6. CASE SectionDecodes
  <2>1. dmx.table \in Tables /\ dmx.ver \in Versions
    BY <1>1 DEF Typed, TypedDmx
  <2>2. TypedTables'
    BY <1>1, <1>6, <2>1 DEF Typed, TypedTables, SectionDecodes
  <2>3. TypedDmx'
    BY <1>1, <1>6 DEF Typed, TypedMan, TypedDmx, SectionDecodes
  <2> QED BY <1>1, <1>6, <2>2, <2>3 DEF Typed, SectionDecodes, TypedMan, TypedCas, TypedCi,
          TypedEnv, manVars, caVars, ciVars, envVars
<1>7. CASE SectionEnds
  <2>1. dmx.table \in Tables /\ dmx.copy \subseteq AllEvents
    BY <1>1 DEF Typed, TypedDmx
  <2>2. TypedTables'
    BY <1>1, <1>7, <2>1 DEF Typed, TypedTables, SectionEnds
  <2>3. TypedDmx'
    <3>1. 0 \in Versions
      BY BoundsAssumption DEF Versions
    <3>2. dmx' = [at |-> "idle", table |-> "pat", ver |-> 0, copy |-> {}]
      BY <1>7 DEF SectionEnds, NoSection
    <3> QED BY <3>1, <3>2 DEF TypedDmx, Tables
  <2>4. TypedMan'
    <3>1. tsevt' = dmx.copy \cup {Evt("new", dmx.table)} \/ tsevt' = tsevt
      BY <1>7 DEF SectionEnds
    <3>2. Evt("new", dmx.table) \in AllEvents
      BY <2>1 DEF AllEvents, Events
    <3> QED BY <1>1, <1>7, <2>1, <3>1, <3>2 DEF Typed, TypedMan, SectionEnds
  <2>5. mishaps' \subseteq Mishaps
    BY <1>1, <1>7, TypedMishap DEF Typed, Mishaps, SectionEnds
  <2> QED BY <1>1, <1>7, <2>2, <2>3, <2>4, <2>5 DEF Typed, SectionEnds, TypedCas, TypedCi,
          TypedEnv, caVars, ciVars, envVars
<1>8. CASE CamPolls
  <2>1. TypedEnv' /\ TypedCi'
    <3>1. CASE UNCHANGED spent
      BY <1>1, <1>8, <3>1 DEF Typed, TypedEnv, TypedCi, CamPolls
    <3>2. CASE spent.msgs < MaxMsgs /\ spent' = [spent EXCEPT !.msgs = spent.msgs + 1]
      <4>1. spent.msgs \in 0 .. MaxMsgs /\ MaxMsgs \in Nat
        BY <1>1, BoundsAssumption DEF Typed, TypedEnv
      <4>2. spent.msgs + 1 \in 0 .. MaxMsgs
        BY <3>2, <4>1
      <4> QED BY <1>1, <1>8, <3>2, <4>2 DEF Typed, TypedEnv, TypedCi, CamPolls
    <3> QED BY <1>8, <3>1, <3>2 DEF CamPolls
  <2> QED BY <1>1, <1>8, <2>1 DEF Typed, CamPolls, TypedMan, TypedCas, TypedTables, TypedDmx,
          manVars, caVars, tableVars
<1>9. CASE CamInfo
  BY <1>1, <1>9 DEF Typed, CamInfo, TypedMan, TypedCas, TypedTables, TypedDmx, TypedCi, TypedEnv,
     manVars, caVars, tableVars, envVars
<1>10. CASE CamSends
  BY <1>1, <1>10 DEF Typed, CamSends, TypedMan, TypedCas, TypedTables, TypedDmx, TypedCi,
     TypedEnv, manVars, caVars, tableVars, envVars
<1>11. CASE CamAdds
  <2>1. Ci \in Cas /\ msgs[Ci] \in 0 .. MaxMsgs /\ spent.msgs \in 0 .. MaxMsgs /\ MaxMsgs \in Nat
    BY <1>1, CaAssumption, BoundsAssumption DEF Typed, TypedCas, TypedEnv
  <2>2. msgs[Ci] < spent.msgs
    BY <1>11 DEF CamAdds, Counted
  <2>3. msgs[Ci] + 1 \in 0 .. MaxMsgs
    BY <2>1, <2>2
  <2>4. msgs' = [msgs EXCEPT ![Ci] = msgs[Ci] + 1] \/ msgs' = [msgs EXCEPT ![Ci] = msgs[Ci]]
    BY <1>11 DEF CamAdds
  <2>5. msgs' \in [Cas -> 0 .. MaxMsgs]
    BY <1>1, <2>1, <2>3, <2>4 DEF Typed, TypedCas
  <2>6. TypedCas'
    BY <1>1, <1>11, <2>5 DEF Typed, TypedCas, CamAdds
  <2> QED BY <1>1, <1>11, <2>6 DEF Typed, CamAdds, TypedMan, TypedTables, TypedDmx, TypedCi,
          TypedEnv, manVars, tableVars, envVars
<1>12. CASE Joined
  BY <1>1, <1>12 DEF Typed, Joined, TypedMan, TypedCas, TypedTables, TypedDmx, TypedCi, TypedEnv,
     manVars, caVars, tableVars, ciVars, envVars
<1>13. CASE FendEvent
  <2>1. spent.fend \in 0 .. MaxFend /\ MaxFend \in Nat /\ spent.fend < MaxFend
        /\ spent' = [spent EXCEPT !.fend = spent.fend + 1]
    BY <1>1, <1>13, BoundsAssumption DEF Typed, TypedEnv, FendEvent
  <2>2. spent.fend + 1 \in 0 .. MaxFend
    BY <2>1
  <2>3. TypedEnv'
    BY <1>1, <1>13, <2>1, <2>2 DEF Typed, TypedEnv, FendEvent
  <2>4. TypedMan'
    BY <1>1, <1>13 DEF Typed, TypedMan, FendEvent, AllEvents
  <2> QED BY <1>1, <1>13, <2>3, <2>4 DEF Typed, FendEvent, TypedCas, TypedTables, TypedDmx,
          TypedCi, caVars, tableVars, ciVars
<1>14. ASSUME NEW t \in Tables, Change(t) PROVE Typed'
  <2>1. spent.changes \in 0 .. MaxChanges /\ MaxChanges \in Nat /\ spent.changes < MaxChanges
        /\ spent' = [spent EXCEPT !.changes = spent.changes + 1]
        /\ air' = [air EXCEPT ![t] = spent.changes + 1]
    BY <1>1, <1>14, BoundsAssumption DEF Typed, TypedEnv, Change
  <2>2. spent.changes + 1 \in 0 .. MaxChanges
    BY <2>1
  <2>3. TypedEnv'
    BY <1>1, <2>1, <2>2 DEF Typed, TypedEnv, Versions
  <2> QED BY <1>1, <1>14, <2>3 DEF Typed, Change, TypedMan, TypedCas, TypedTables, TypedDmx,
          TypedCi, manVars, caVars, tableVars, ciVars
<1> QED BY <1>2, <1>3, <1>4, <1>5, <1>6, <1>7, <1>8, <1>9, <1>10, <1>11, <1>12, <1>13, <1>14
       DEF Section, Cam

-----------------------------------------------------------------------------
(* What a step puts on the agenda or takes from it.                          *)

Beyond(Q) == \A z : z[1] \notin Q => (z \in Pending' <=> z \in Pending)

LEMMA PopsBeyond ==
    ASSUME NEW op, NEW N, Pops(op, N), NEW Q, op \in Q, \A x \in N : x[1] \in Q
    PROVE  Beyond(Q)
<1>1. Pending = {<<op, Of>>} \cup Rest /\ Pending' = N \cup Rest
  BY DEF Pops, Heads
<1> QED BY <1>1 DEF Beyond

LEMMA StartsBeyond ==
    ASSUME NEW N, Starts(N), NEW Q, \A x \in N : x[1] \in Q
    PROVE  Beyond(Q)
BY DEF Starts, Idle, Beyond

LEMMA SameBeyond == UNCHANGED agenda => Beyond({})
BY DEF Beyond, Pending

LEMMA MoreBeyond == ASSUME NEW Q, NEW P, Q \subseteq P, Beyond(Q) PROVE Beyond(P)
BY DEF Beyond

\* The returns.
LEMMA ReturnsBeyond ==
    ASSUME AgendaInv
    PROVE  /\ Synced => Beyond({"sync"})
           /\ CloseTables => Beyond({"closets"})
           /\ MonitorTable => Beyond({"monitor"})
           /\ Handled => Beyond({"handled"})
           /\ Enter => Beyond({"enter"})
           /\ Collect => Beyond({"collect"})
           /\ StartPmt => Beyond({"start"})
           /\ StopPmt => Beyond({"stoppmt"})
           /\ OpenCi => Beyond({"open"})
           /\ Register => Beyond({"register"})
           /\ Disable => Beyond({"disable"})
           /\ Uncall => Beyond({"uncall"})
           /\ StopCi => Beyond({"stopci"})
           /\ CloseCa => Beyond({"closed"})
           /\ Receive => Beyond({"receive"})
           /\ Unlist => Beyond({"unlist"})
           /\ Destroy => Beyond({"destroy"})
           /\ SetService => Beyond({"service"})
           /\ NoMoreService => Beyond({"noservice"})
           /\ ListCa => Beyond({"list"})
           /\ TakeMsg => Beyond({"getmsg"})
           /\ RunTable => Beyond({"runfirst", "runagain"})
           /\ SetPause => Beyond({"pause", "resume"})
           /\ Quit => Beyond({"quit"})
<1>1. ASSUME NEW op, Pops(op, {}) PROVE Beyond({op})
  BY <1>1, PopsBeyond
<1>2. RunTable => Beyond({"runfirst", "runagain"})
  BY <1>1, RunTablePops, MoreBeyond
<1>3. SetPause => Beyond({"pause", "resume"})
  BY <1>1, SetPausePops, MoreBeyond
<1>4. Quit => Beyond({"quit"})
  BY QuitPops DEF Beyond
<1>5. /\ Synced => Beyond({"sync"})
      /\ CloseTables => Beyond({"closets"})
      /\ MonitorTable => Beyond({"monitor"})
      /\ Handled => Beyond({"handled"})
      /\ Enter => Beyond({"enter"})
      /\ Collect => Beyond({"collect"})
      /\ StartPmt => Beyond({"start"})
      /\ StopPmt => Beyond({"stoppmt"})
  BY <1>1, SyncedPops, CloseTablesPops, MonitorTablePops, HandledPops, EnterPops, CollectPops,
     StartPmtPops, StopPmtPops
<1>6. /\ OpenCi => Beyond({"open"})
      /\ Register => Beyond({"register"})
      /\ Disable => Beyond({"disable"})
      /\ Uncall => Beyond({"uncall"})
      /\ StopCi => Beyond({"stopci"})
      /\ CloseCa => Beyond({"closed"})
      /\ Receive => Beyond({"receive"})
  BY <1>1, OpenCiPops, RegisterPops, DisablePops, UncallPops, StopCiPops, CloseCaPops, ReceivePops
<1>7. /\ Unlist => Beyond({"unlist"})
      /\ Destroy => Beyond({"destroy"})
      /\ SetService => Beyond({"service"})
      /\ NoMoreService => Beyond({"noservice"})
      /\ ListCa => Beyond({"list"})
      /\ TakeMsg => Beyond({"getmsg"})
  BY <1>1, UnlistPops, DestroyPops, SetServicePops, NoMoreServicePops, ListCaPops, TakeMsgPops
<1> QED BY <1>2, <1>3, <1>4, <1>5, <1>6, <1>7

\* The calls.
LEMMA WorkBeyond ==
    ASSUME AgendaInv
    PROVE  /\ StopTable => Beyond({"stop", "sync"})
           /\ TimeOut => Beyond({"timeout", "sync"})
           /\ StartTable => Beyond({"first", "again", "sync", "runfirst", "runagain"})
           /\ Look => Beyond({"from", "new", "again"})
           /\ NewTable => Beyond({"new", "stop", "closets", "first", "handled", "monitor",
                                  "enter", "start", "arrange", "give"})
           /\ Arrange => Beyond({"arrange", "enter", "unmatch", "match", "collect"})
           /\ Unmatch => Beyond({"unmatch", "enter", "stoppmt"})
           /\ Match => Beyond({"match", "enter", "open"})
           /\ Give => Beyond({"give", "enter", "start"})
<1>1. ASSUME StopTable PROVE Beyond({"stop", "sync"})
  BY <1>1, StopTablePops, PopsBeyond DEF SyncTask
<1>2. ASSUME TimeOut PROVE Beyond({"timeout", "sync"})
  BY <1>2, TimeOutPops, PopsBeyond DEF SyncTask
<1>3. ASSUME StartTable PROVE Beyond({"first", "again", "sync", "runfirst", "runagain"})
  BY <1>3, StartTablePops, PopsBeyond DEF SyncTask, RunOp
<1>4. ASSUME Look PROVE Beyond({"from", "new", "again"})
  <2>1. PICK N : Pops("from", N) /\ \A x \in N : x[1] \in {"from", "new", "again"}
    BY <1>4, LookPops
  <2> QED BY <2>1, PopsBeyond
<1>5. ASSUME NewTable PROVE Beyond({"new", "stop", "closets", "first", "handled", "monitor",
                                    "enter", "start", "arrange", "give"})
  <2>1. PICK N : /\ Pops("new", N)
                 /\ \/ N = NewTsTasks(Of)
                    \/ N = {<<"monitor", Of>>}
                    \/ \E M : FirstTime(M) /\ N = M \cup {<<"monitor", Of>>}
    BY <1>5, NewTablePops
  <2>2. ASSUME NEW M, FirstTime(M) PROVE \A x \in M : x[1] \in {"first", "enter", "start", "arrange", "give"}
    BY <2>2 DEF FirstTime
  <2>3. \A x \in N : x[1] \in {"new", "stop", "closets", "first", "handled", "monitor",
                               "enter", "start", "arrange", "give"}
    BY <2>1, <2>2 DEF NewTsTasks, CloseTasks
  <2> QED BY <2>1, <2>3, PopsBeyond
<1>6. ASSUME Arrange PROVE Beyond({"arrange", "enter", "unmatch", "match", "collect"})
  <2>1. PICK N : Pops("arrange", N) /\ N \subseteq ArrangeTasks(Of) \cup {<<"collect", "none">>}
    BY <1>6, ArrangePops
  <2>2. \A x \in N : x[1] \in {"arrange", "enter", "unmatch", "match", "collect"}
    BY <2>1 DEF ArrangeTasks
  <2> QED BY <2>1, <2>2, PopsBeyond
<1>7. ASSUME Unmatch PROVE Beyond({"unmatch", "enter", "stoppmt"})
  <2>1. PICK N : Pops("unmatch", N) /\ N \subseteq {<<"enter", Ci>>, <<"stoppmt", Of[1]>>}
    BY <1>7, UnmatchPops
  <2> QED BY <2>1, PopsBeyond
<1>8. ASSUME Match PROVE Beyond({"match", "enter", "open"})
  <2>1. PICK N : Pops("match", N) /\ N \subseteq {<<"enter", Ci>>, <<"open", Of[1]>>}
    BY <1>8, MatchPops
  <2> QED BY <2>1, PopsBeyond
<1>9. ASSUME Give PROVE Beyond({"give", "enter", "start"})
  <2>1. PICK N : Pops("give", N) /\ N \subseteq {<<"enter", Ci>>} \cup {<<"start", c>> : c \in In("ts")}
    BY <1>9, GivePops
  <2> QED BY <2>1, PopsBeyond
<1> QED BY <1>1, <1>2, <1>3, <1>4, <1>5, <1>6, <1>7, <1>8, <1>9

\* The application.
LEMMA CallsBeyond ==
    ASSUME AgendaInv, NEW c \in Cas
    PROVE  /\ RegisterCA(c) => Beyond({"list"})
           /\ UnregisterCA(c) => Beyond(RemoveOps)
           /\ OpenCA(c) => Beyond({"enter", "open", "register"})
           /\ CloseCA(c) => Beyond(RemoveOps)
           /\ StopCA(c) => Beyond({"enter", "stoppmt"})
           /\ PutMsg(c) => Beyond({"receive"})
           /\ GetMsg(c) => Beyond({"getmsg"})
<1>1. ASSUME RegisterCA(c) PROVE Beyond({"list"})
  <2>1. Starts({<<"list", c>>})
    BY <1>1, RegisterCAStarts
  <2> QED BY <2>1, StartsBeyond
<1>2. ASSUME UnregisterCA(c) PROVE Beyond(RemoveOps)
  BY <1>2, UnregisterCAStarts, StartsBeyond DEF Removals, Good
<1>3. ASSUME OpenCA(c) PROVE Beyond({"enter", "open", "register"})
  <2>1. PICK N : Starts(N) /\ N \subseteq {<<"enter", Ci>>, <<"open", c>>, <<"register", c>>}
    BY <1>3, OpenCAStarts
  <2> QED BY <2>1, StartsBeyond
<1>4. ASSUME CloseCA(c) PROVE Beyond(RemoveOps)
  <2>1. PICK N : Starts(N) /\ N \subseteq ClosingTasks(c)
    BY <1>4, CloseCAStarts
  <2>2. \A x \in N : x[1] \in RemoveOps
    BY <2>1 DEF ClosingTasks, RemoveOps
  <2> QED BY <2>1, <2>2, StartsBeyond
<1>5. ASSUME StopCA(c) PROVE Beyond({"enter", "stoppmt"})
  BY <1>5, StopCAStarts, StartsBeyond
<1>6. ASSUME PutMsg(c) PROVE Beyond({"receive"})
  <2>1. Starts({<<"receive", c>>})
    BY <1>6, PutMsgStarts
  <2> QED BY <2>1, StartsBeyond
<1>7. ASSUME GetMsg(c) PROVE Beyond({"getmsg"})
  <2>1. Starts({<<"getmsg", c>>})
    BY <1>7, GetMsgStarts
  <2> QED BY <2>1, StartsBeyond
<1> QED BY <1>1, <1>2, <1>3, <1>4, <1>5, <1>6, <1>7

LEMMA OthersBeyond ==
    ASSUME AgendaInv
    PROVE  /\ StopService => Beyond({"enter", "stoppmt", "noservice"})
           /\ Pause \/ Resume => Beyond({"pause", "resume"})
           /\ Close => Beyond({"stop", "closets", "quit"})
           /\ MonLock => Beyond({"timeout"})
           /\ MonWake => Beyond({"stop", "closets", "first", "handled", "from"})
           /\ Joined => Beyond(RemoveOps)
           /\ MonTop \/ Section \/ Cam \/ FendEvent => Beyond({})
           /\ \A t \in Tables : Change(t) => Beyond({})
           /\ \A s \in Services, d \in Cas \cup {NoCa} :
                 StartService(s, d) => Beyond({"enter", "stoppmt", "service"})
<1>1. ASSUME StopService PROVE Beyond({"enter", "stoppmt", "noservice"})
  <2>1. PICK N : /\ Starts(N)
                 /\ N \subseteq {<<"enter", Ci>>, <<"noservice", "none">>}
                                \cup {<<"stoppmt", c>> : c \in Cas \cup {NoCa}}
    BY <1>1, StopServiceStarts
  <2> QED BY <2>1, StartsBeyond
<1>2. ASSUME Pause \/ Resume PROVE Beyond({"pause", "resume"})
  BY <1>2, PauseStarts, StartsBeyond
<1>3. ASSUME Close PROVE Beyond({"stop", "closets", "quit"})
  BY <1>3, CloseStarts, StartsBeyond DEF CloseTasks
<1>4. ASSUME MonLock PROVE Beyond({"timeout"})
  BY <1>4, MonLockStarts, StartsBeyond
<1>5. ASSUME MonWake PROVE Beyond({"stop", "closets", "first", "handled", "from"})
  BY <1>5, MonWakeStarts, StartsBeyond DEF NewTsTasks, CloseTasks
<1>6. ASSUME Joined PROVE Beyond(RemoveOps)
  BY <1>6, JoinedStarts, StartsBeyond DEF Removals, Good
<1>7. MonTop \/ FendEvent => Beyond({})
  BY SameBeyond DEF MonTop, FendEvent, workVars
<1>8. Section => Beyond({})
  BY SameBeyond DEF Section, Capture, SectionDecodes, SectionEnds, workVars
<1>9. Cam => Beyond({})
  BY SameBeyond DEF Cam, CamPolls, CamInfo, CamSends, CamAdds, workVars
<1>10. \A t \in Tables : Change(t) => Beyond({})
  BY SameBeyond DEF Change, workVars
<1>11. ASSUME NEW s \in Services, NEW d \in Cas \cup {NoCa}, StartService(s, d)
       PROVE  Beyond({"enter", "stoppmt", "service"})
  <2>1. PICK N : Starts(N) /\ N \subseteq {<<"enter", Ci>>, <<"stoppmt", force>>, <<"service", <<s, d>>>>}
    BY <1>11, StartServiceStarts
  <2> QED BY <2>1, StartsBeyond
<1> QED BY <1>1, <1>2, <1>3, <1>4, <1>5, <1>6, <1>7, <1>8, <1>9, <1>10, <1>11

-----------------------------------------------------------------------------
(* The tables.                                                               *)

LEMMA RestBehind ==
    ASSUME NEW op, Heads(op)
    PROVE  \A y \in Rest : y[1] \in Behind(op)
<1>1. \A y \in Rest : Before(<<op, Of>>, y)
  BY DEF Heads
<1> QED BY <1>1 DEF Before

TabledOps == {"stop", "closets", "sync", "first", "runfirst", "start", "give"}

LEMMA TabledFrame ==
    ASSUME Tabled, NEW Q, Beyond(Q), Q \cap TabledOps = {}, UNCHANGED <<table, dmx>>,
           service' = service \/ service' \in Services
    PROVE  Tabled'
<1>1. \A q \in TabledOps : \A x : <<q, x>> \in Pending' <=> <<q, x>> \in Pending
  BY DEF Beyond
<1> QED BY <1>1 DEF Tabled, TabledOps, Waits, For, Do, Stopped

\* The actions that leave the tables alone.
LEMMA TabledElse ==
    ASSUME AgendaInv, Tabled,
           \/ Look \/ MonitorTable \/ Handled \/ Enter \/ Arrange \/ Unmatch \/ Match \/ Collect
           \/ StopPmt \/ OpenCi \/ Register \/ Disable \/ Uncall \/ StopCi \/ CloseCa \/ Receive
           \/ Unlist \/ Destroy \/ SetService \/ ListCa \/ TakeMsg \/ SetPause \/ Quit
           \/ MonTop \/ MonLock \/ Joined \/ Cam \/ FendEvent
           \/ \E t \in Tables : Change(t)
    PROVE  Tabled'
<1> DEFINE Fits(Q) == Beyond(Q) /\ Q \cap TabledOps = {}
<1>1. \E Q : Fits(Q)
  <2>1. CASE Look \/ Arrange \/ Unmatch \/ Match
    BY <2>1, WorkBeyond DEF TabledOps
  <2>2. CASE \/ MonitorTable \/ Handled \/ Enter \/ Collect
             \/ StopPmt \/ OpenCi \/ Register \/ Disable \/ Uncall \/ StopCi \/ CloseCa \/ Receive
             \/ Unlist \/ Destroy \/ SetService \/ ListCa \/ TakeMsg \/ SetPause \/ Quit
    BY <2>2, ReturnsBeyond DEF TabledOps
  <2>3. CASE \/ MonTop \/ MonLock \/ Joined \/ Cam \/ FendEvent
             \/ \E t \in Tables : Change(t)
    BY <2>3, OthersBeyond DEF TabledOps, RemoveOps
  <2> QED BY <2>1, <2>2, <2>3
<1>2. UNCHANGED <<table, dmx>> /\ (service' = service \/ service' \in Services)
  <2>1. CASE SetService
    <3>1. Of[1] \in Services
      BY <2>1, HeadTask, OfType DEF SetService
    <3> QED BY <2>1, <3>1 DEF SetService, tableVars
  <2>2. CASE Look \/ MonitorTable \/ Handled \/ Enter \/ Arrange \/ Unmatch \/ Match \/ Collect
    BY <2>2 DEF Look, MonitorTable, Handled, Enter, Arrange, Unmatch, Match, Collect, tableVars, manVars
  <2>3. CASE StopPmt \/ OpenCi \/ Register \/ Disable \/ Uncall \/ StopCi \/ CloseCa \/ Receive
    BY <2>3 DEF StopPmt, OpenCi, Register, Disable, Uncall, StopCi, CloseCa, Receive, tableVars, manVars
  <2>4. CASE Unlist \/ Destroy \/ ListCa \/ TakeMsg \/ SetPause \/ Quit
    BY <2>4 DEF Unlist, Destroy, ListCa, TakeMsg, SetPause, Quit, tableVars, manVars
  <2>5. CASE MonTop \/ MonLock \/ Joined \/ Cam \/ FendEvent \/ \E t \in Tables : Change(t)
    BY <2>5 DEF MonTop, MonLock, Joined, Cam, CamPolls, CamInfo, CamSends, CamAdds, FendEvent, Change, tableVars, manVars
  <2> QED BY <2>1, <2>2, <2>3, <2>4, <2>5
<1> QED BY <1>1, <1>2, TabledFrame

TableType == [open : BOOLEAN, run : BOOLEAN, monitor : BOOLEAN, got : SUBSET Versions,
              pid : Versions \cup {-1}, prog : Services \cup {NoService}]

LEMMA TablesAre ==
    ASSUME AgendaInv
    PROVE  table \in [Tables -> TableType] /\ dmx.table \in Tables
           /\ dmx.at \in {"idle", "lock", "end"} /\ ver \in [Tables -> Versions \cup {-1}]
           /\ service \in Services \cup {NoService}
BY DEF AgendaInv, TypeOK, TableType

LEMMA StoppedTable == ASSUME NEW r \in TableType, ~r.run PROVE [r EXCEPT !.run = FALSE] = r
BY DEF TableType

LEMMA ClosedTable == Closed \in TableType /\ ~Closed.open /\ ~Closed.run
BY DEF TableType, Closed

\* What Tabled says of the agenda.
TabledTasks ==
    /\ \A t \in Tables : <<"stop", t>> \in Pending => <<"closets", "none">> \in Pending
    /\ <<"closets", "none">> \in Pending => \A t \in Tables : <<"stop", t>> \in Pending \/ Stopped(t)
    /\ <<"first", "pmt">> \in Pending \/ <<"runfirst", "pmt">> \in Pending => service \in Services
    /\ (\E c \in Cas : <<"start", c>> \in Pending) \/ <<"give", "none">> \in Pending
          => table["pmt"].open
TabledTables ==
    /\ \A t \in Tables : ~table[t].open => table[t] = Closed
    /\ dmx.at # "idle" => table[dmx.table].open
    /\ table["pmt"].open => table["pmt"].prog \in Services

LEMMA TabledParts ==
    /\ Tabled <=> TabledTasks /\ TabledTables
    /\ Tabled' <=> TabledTasks' /\ TabledTables'
BY DEF Tabled, TabledTasks, TabledTables, Waits, For, Do

\* A table is stopped: by table_stop, before it is received again, or because it is late.
StopsTable(t) == table' = [table EXCEPT ![t] = [table[t] EXCEPT !.run = FALSE]]

LEMMA StopsTabled ==
    ASSUME AgendaInv, Tabled, NEW t \in Tables, StopsTable(t)
    PROVE  /\ \A u \in Tables : ~table'[u].open => table'[u] = Closed
           /\ \A u \in Tables : table'[u].open = table[u].open /\ table'[u].prog = table[u].prog
           /\ \A u \in Tables \ {t} : table'[u] = table[u]
           /\ ~table'[t].run /\ (UNCHANGED dmx => TabledTables')
<1>1. table \in [Tables -> TableType]
  BY TablesAre
<1>2. \A u \in Tables : ~table[u].open => table[u] = Closed
  BY DEF Tabled
<1>3. [Closed EXCEPT !.run = FALSE] = Closed
  BY StoppedTable, ClosedTable
<1>4. /\ \A u \in Tables : table'[u].open = table[u].open /\ table'[u].prog = table[u].prog
      /\ \A u \in Tables \ {t} : table'[u] = table[u]
      /\ ~table'[t].run
      /\ table'[t] = [table[t] EXCEPT !.run = FALSE]
  BY <1>1 DEF StopsTable, TableType
<1>5. \A u \in Tables : ~table'[u].open => table'[u] = Closed
  BY <1>2, <1>3, <1>4
<1>6. dmx.table \in Tables /\ "pmt" \in Tables
  BY TablesAre DEF Tables
<1>7. UNCHANGED dmx => TabledTables'
  BY <1>4, <1>5, <1>6, TabledParts DEF TabledTables
<1> QED BY <1>4, <1>5, <1>7

LEMMA StopTableTabled == ASSUME AgendaInv, Tabled, StopTable PROVE Tabled'
<1> DEFINE N == IF table[Of].open THEN SyncTask ELSE {}
<1>1. Pops("stop", N)
  BY StopTablePops
<1>2. Pending = {<<"stop", Of>>} \cup Rest /\ Pending' = N \cup Rest
  BY <1>1 DEF Pops, Heads
<1>3. \A y \in Rest : y[1] \in {"stop", "closets", "first", "handled", "from", "quit"}
  BY <1>1, RestBehind, BehindOf DEF Pops
<1>4. Of \in Tables
  BY <1>1, OfType DEF Pops
<1>5. StopsTable(Of) /\ UNCHANGED <<dmx, service>>
  BY DEF StopTable, StopsTable, Set, manVars
<1>6. dmx.table \in Tables /\ table[Of].open \in BOOLEAN
  BY <1>4 DEF AgendaInv, TypeOK
<1>7. N \subseteq {<<"sync", "none">>} /\ (dmx.at = "idle" \/ ~table[Of].open \/ <<"sync", "none">> \in N)
  BY DEF SyncTask
<1> HIDE DEF N
<1>8. \A u \in Tables : Stopped(u)' <=> ~table'[u].run /\ (dmx.at = "idle" \/ dmx.table # u \/ Do("sync") \in Pending')
  BY <1>5 DEF Stopped
<1>9. Do("closets") \in Pending' => \A u \in Tables : Waits("stop", u)' \/ Stopped(u)'
  <2> SUFFICES ASSUME Do("closets") \in Pending', NEW u \in Tables
               PROVE  Waits("stop", u)' \/ Stopped(u)'
    OBVIOUS
  <2>1. Waits("stop", u) \/ Stopped(u)
    BY <1>2, <1>7 DEF Tabled, Do
  <2>2. CASE u = Of
    BY <1>2, <1>4, <1>5, <1>6, <1>7, <1>8, <2>2, StopsTabled DEF Do, Tabled
  <2>3. CASE u # Of
    BY <1>2, <1>4, <1>5, <1>8, <2>1, <2>3, StopsTabled DEF Do, Stopped, Waits, For
  <2> QED BY <2>2, <2>3
<1>10. TabledTasks'
  BY <1>2, <1>3, <1>4, <1>5, <1>7, <1>9, StopsTabled, TabledParts DEF TabledTasks, Waits, For, Do, Tables
<1> QED BY <1>4, <1>5, <1>10, StopsTabled, TabledParts

LEMMA TimeOutTabled == ASSUME AgendaInv, Tabled, TimeOut PROVE Tabled'
<1> DEFINE N == IF table[Of].run THEN SyncTask ELSE {}
<1>1. Pops("timeout", N)
  BY TimeOutPops
<1>2. Pending = {<<"timeout", Of>>} \cup Rest /\ Pending' = N \cup Rest
  BY <1>1 DEF Pops, Heads
<1>3. \A y \in Rest : y[1] = "timeout"
  BY <1>1, RestBehind, BehindOf DEF Pops
<1>4. Of \in Tables
  BY <1>1, OfType DEF Pops
<1>5. StopsTable(Of) /\ UNCHANGED <<dmx, service>>
  BY DEF TimeOut, StopsTable, Set, manVars
<1>6. N \subseteq {<<"sync", "none">>}
  BY DEF SyncTask
<1> HIDE DEF N
<1>7. TabledTasks'
  BY <1>2, <1>3, <1>4, <1>5, <1>6, StopsTabled, TabledParts DEF TabledTasks, Tables
<1> QED BY <1>4, <1>5, <1>7, StopsTabled, TabledParts

LEMMA StartTableTabled == ASSUME AgendaInv, Tabled, StartTable PROVE Tabled'
<1>1. PICK op \in {"first", "again"} : Pops(op, (IF table[Of].open THEN SyncTask ELSE {})
                                                \cup {<<RunOp(op), Of>>})
  BY StartTablePops
<1> DEFINE N == (IF table[Of].open THEN SyncTask ELSE {}) \cup {<<RunOp(op), Of>>}
<1>2. Pending = {<<op, Of>>} \cup Rest /\ Pending' = N \cup Rest
  BY <1>1 DEF Pops, Heads
<1>3. \A y \in Rest : y[1] \in {"first", "handled", "monitor", "from", "again"}
  BY <1>1, RestBehind, BehindOf DEF Pops
<1>4. Of \in Tables
  BY <1>1, OfType DEF Pops
<1>5. StopsTable(Of) /\ UNCHANGED <<dmx, service>>
  BY DEF StartTable, StopsTable, Set
<1>6. N \subseteq {<<"sync", "none">>, <<RunOp(op), Of>>}
      /\ RunOp(op) \in {"runfirst", "runagain"} /\ (RunOp(op) = "runfirst" => op = "first")
  BY DEF SyncTask, RunOp
<1> HIDE DEF N
<1>7. TabledTasks'
  BY <1>2, <1>3, <1>4, <1>5, <1>6, StopsTabled, TabledParts DEF TabledTasks, Tables
<1> QED BY <1>4, <1>5, <1>7, StopsTabled, TabledParts

LEMMA SyncedTabled == ASSUME AgendaInv, Tabled, Synced PROVE Tabled'
<1>1. Pops("sync", {}) /\ dmx.at = "idle" /\ UNCHANGED <<table, dmx, service>>
  BY SyncedPops DEF Synced, tableVars, manVars
<1>2. Pending = {<<"sync", Of>>} \cup Rest /\ Pending' = Rest
  BY <1>1 DEF Pops, Heads
<1> QED BY <1>1, <1>2 DEF Tabled, Waits, For, Do, Stopped

LEMMA CloseTablesTabled == ASSUME AgendaInv, Tabled, CloseTables PROVE Tabled'
<1>1. Pops("closets", {}) /\ table' = [t \in Tables |-> Closed] /\ UNCHANGED <<dmx, service>>
  BY CloseTablesPops DEF CloseTables
<1>2. Pending = {<<"closets", Of>>} \cup Rest /\ Pending' = Rest
  BY <1>1 DEF Pops, Heads
<1>3. \A y \in Rest : y[1] \in {"first", "handled", "from", "quit"}
  BY <1>1, RestBehind, BehindOf DEF Pops
<1>4. Of = "none" /\ dmx.at \in {"idle", "lock", "end"} /\ dmx.table \in Tables /\ "pmt" \in Tables
  BY <1>1, TaskType DEF Pops, Heads, AgendaInv, TypeOK, Tables
<1>5. dmx.at = "idle"
  <2>1. Waits("stop", dmx.table) \/ Stopped(dmx.table)
    BY <1>2, <1>4 DEF Tabled, Do
  <2> QED BY <1>2, <1>3, <2>1 DEF Stopped, Waits, For, Do
<1>6. ~table'["pmt"].open
  BY <1>1, <1>4 DEF Closed
<1> QED BY <1>1, <1>2, <1>3, <1>5, <1>6 DEF Tabled, Waits, For, Do

LEMMA RunTableTabled == ASSUME AgendaInv, Tabled, RunTable PROVE Tabled'
<1>1. PICK op \in {"runfirst", "runagain"} : At(op) /\ Pops(op, {})
  BY RunTablePops
<1>2. Pending = {<<op, Of>>} \cup Rest /\ Pending' = Rest
  BY <1>1 DEF Pops, Heads
<1>3. \A y \in Rest : y[1] \in {"first", "handled", "monitor", "from", "again"}
  BY <1>1, RestBehind, BehindOf DEF Pops
<1>4. Of \in Tables /\ dmx.table \in Tables /\ UNCHANGED <<dmx, service>>
      /\ table \in [Tables -> TableType] /\ "pmt" \in Tables
  BY <1>1, OfType, TablesAre DEF Pops, RunTable, manVars, Tables
<1> DEFINE f == [Closed EXCEPT !.open = TRUE, !.run = TRUE,
                          !.pid = IF Of = "pmt" THEN ver["pat"] ELSE -1,
                          !.prog = IF Of = "pmt" THEN service ELSE NoService]
           a == IF ~table[Of].open THEN table[Of]
                     ELSE [table[Of] EXCEPT !.run = TRUE, !.monitor = TRUE,
                              !.got = IF Of # "pmt" /\ table[Of].monitor THEN @ ELSE {}]
<1>5. /\ f.open /\ f.prog = (IF Of = "pmt" THEN service ELSE NoService)
      /\ a.open = table[Of].open /\ a.prog = table[Of].prog /\ (~table[Of].open => a = table[Of])
  BY <1>4 DEF Closed, TableType
<1>6. \/ op = "runfirst" /\ table' = [table EXCEPT ![Of] = f]
      \/ op = "runagain" /\ table' = [table EXCEPT ![Of] = a]
  BY <1>1 DEF RunTable, Set, At
<1> HIDE DEF f, a
<1>7. table'["pmt"].open => table'["pmt"].prog \in Services
  <2>1. CASE op = "runfirst" /\ Of = "pmt"
    <3>1. table'["pmt"].prog = service
      BY <1>4, <1>5, <1>6, <2>1
    <3>2. Waits("runfirst", "pmt")
      BY <1>2, <2>1 DEF Waits, For
    <3> QED BY <3>1, <3>2 DEF Tabled
  <2>2. CASE op = "runagain" \/ Of # "pmt"
    <3>1. /\ table'["pmt"].open => table["pmt"].open
          /\ table'["pmt"].prog = table["pmt"].prog
      BY <1>4, <1>5, <1>6, <2>2
    <3> QED BY <3>1 DEF Tabled
  <2> QED BY <2>1, <2>2
<1>8. /\ \A u \in Tables : ~table'[u].open => table'[u] = Closed
      /\ \A u \in Tables : table[u].open => table'[u].open
  BY <1>4, <1>5, <1>6 DEF Tabled
<1>9. TabledTables'
  BY <1>4, <1>7, <1>8, TabledParts DEF TabledTables
<1>10. TabledTasks'
  BY <1>2, <1>3, <1>4, <1>8, TabledParts DEF TabledTasks
<1> QED BY <1>9, <1>10, TabledParts

LEMMA NewTableTabled == ASSUME AgendaInv, Tabled, NewTable PROVE Tabled'
<1>1. PICK N : /\ Pops("new", N)
               /\ \/ N = NewTsTasks(Of)
                  \/ N = {<<"monitor", Of>>}
                  \/ \E M : FirstTime(M) /\ N = M \cup {<<"monitor", Of>>}
  BY NewTablePops
<1>2. Pending = {<<"new", Of>>} \cup Rest /\ Pending' = N \cup Rest
  BY <1>1 DEF Pops, Heads
<1>3. \A y \in Rest : y[1] = "from"
  BY <1>1, RestBehind, BehindOf DEF Pops
<1>4. Of \in Tables /\ UNCHANGED <<table, dmx, service>>
  BY <1>1, OfType DEF Pops, NewTable, manVars
<1>5. TabledTables'
  BY <1>4, TabledParts DEF TabledTables
<1>6. service \in Services \cup {NoService}
  BY TablesAre
<1>7. CASE N = NewTsTasks(Of)
  BY <1>2, <1>3, <1>5, <1>7, TabledParts DEF TabledTasks, NewTsTasks, CloseTasks, Tables
<1>8. CASE N = {<<"monitor", Of>>}
  BY <1>2, <1>3, <1>5, <1>8, TabledParts DEF TabledTasks
<1>9. ASSUME NEW M, FirstTime(M), N = M \cup {<<"monitor", Of>>} PROVE Tabled'
  <2>1. /\ \A x \in M : x[1] \in {"first", "enter", "start", "arrange", "give"}
        /\ \A x \in M : x[1] = "first" => service # NoService
        /\ \A x \in M : x[1] \in {"start", "give"} => table["pmt"].got # {}
    BY <1>9 DEF FirstTime
  <2>2. table["pmt"].got # {} => table["pmt"].open
    BY DEF Tabled, Closed, Tables
  <2>3. TabledTasks'
    BY <1>2, <1>3, <1>4, <1>6, <1>9, <2>1, <2>2 DEF TabledTasks
  <2> QED BY <1>5, <2>3, TabledParts
<1> QED BY <1>1, <1>7, <1>8, <1>9

LEMMA GiveTabled == ASSUME AgendaInv, Tabled, Give PROVE Tabled'
<1>1. PICK N : Pops("give", N) /\ N \subseteq {<<"enter", Ci>>} \cup {<<"start", c>> : c \in In("ts")}
  BY GivePops
<1>2. Pending = {<<"give", "none">>} \cup Rest /\ Pending' = N \cup Rest
  BY <1>1, TaskType DEF Pops, Heads
<1>3. \A y \in Rest : y[1] \in {"monitor", "from"}
  BY <1>1, RestBehind, BehindOf DEF Pops
<1>4. UNCHANGED <<table, dmx, service>>
  BY DEF Give, tableVars, manVars
<1>5. \A y \in N : y[1] \in {"enter", "start"}
  BY <1>1
<1>6. table["pmt"].open
  BY <1>2, TabledParts DEF TabledTasks
<1>7. TabledTasks'
  BY <1>2, <1>3, <1>4, <1>5, <1>6, TabledParts DEF TabledTasks
<1> QED BY <1>4, <1>7, TabledParts DEF TabledTables

LEMMA DropsTabled ==
    ASSUME AgendaInv, Tabled, StartPmt \/ NoMoreService
    PROVE  Tabled'
<1>1. CASE StartPmt
  <2>1. Pops("start", {}) /\ UNCHANGED <<table, dmx, service>>
    BY <1>1, StartPmtPops DEF StartPmt, tableVars, manVars
  <2>2. Pending = {<<"start", Of>>} \cup Rest /\ Pending' = Rest
    BY <2>1 DEF Pops, Heads
  <2>3. \A y \in Rest : y[1] \in {"enter", "start", "monitor", "from"}
    BY <2>1, RestBehind, BehindOf DEF Pops
  <2>4. TabledTasks'
    BY <2>1, <2>2, <2>3, TabledParts DEF TabledTasks
  <2> QED BY <2>1, <2>4, TabledParts DEF TabledTables
<1>2. CASE NoMoreService
  <2>1. Pops("noservice", {}) /\ UNCHANGED <<table, dmx>>
    BY <1>2, NoMoreServicePops DEF NoMoreService, tableVars
  <2>2. Rest = {} /\ Pending' = Rest
    BY <2>1, RestBehind, BehindOf DEF Pops, Heads
  <2> QED BY <2>1, <2>2, TabledParts DEF TabledTables, TabledTasks
<1> QED BY <1>1, <1>2

LEMMA SectionTabled == ASSUME AgendaInv, Tabled, Section PROVE Tabled'
<1>1. ASSUME NEW t \in Tables, Capture(t) PROVE Tabled'
  <2>1. /\ dmx.at = "idle" /\ table[t].run /\ UNCHANGED <<table, agenda, service>>
        /\ dmx'.at = "lock" /\ dmx'.table = t
    BY <1>1 DEF Capture, NoSection, workVars, tableVars, manVars
  <2>2. table[t].open
    BY <1>1, <2>1, ClosedTable DEF Tabled
  <2>3. Pending' = Pending
    BY <2>1 DEF Pending
  <2>4. TabledTasks'
    BY <1>1, <2>1, <2>3, TabledParts DEF TabledTasks, Stopped
  <2> QED BY <1>1, <2>1, <2>2, <2>4, TabledParts DEF TabledTables
<1>2. CASE SectionDecodes
  <2> DEFINE u == dmx.table
  <2>1. /\ dmx.at = "lock" /\ UNCHANGED <<agenda, service>> /\ dmx'.at = "end" /\ dmx'.table = u
        /\ table' = [table EXCEPT ![u].got = table[u].got \cup {dmx.ver}]
    BY <1>2 DEF SectionDecodes, workVars, manVars, AgendaInv, TypeOK
  <2>2. u \in Tables /\ table \in [Tables -> TableType]
    BY TablesAre
  <2>3. table[u].open
    BY <2>1 DEF Tabled
  <2>4. Pending' = Pending
    BY <2>1 DEF Pending
  <2> HIDE DEF u
  <2>5. /\ \A t \in Tables : table'[t].open = table[t].open /\ table'[t].prog = table[t].prog
                             /\ table'[t].run = table[t].run
        /\ \A t \in Tables \ {u} : table'[t] = table[t]
    BY <2>1, <2>2 DEF TableType
  <2>6. TabledTables'
    BY <2>1, <2>2, <2>3, <2>5, TabledParts DEF TabledTables, Tables
  <2>7. \A t \in Tables : Stopped(t) => Stopped(t)'
    BY <2>1, <2>4, <2>5 DEF Stopped, u
  <2>8. TabledTasks'
    BY <2>1, <2>4, <2>5, <2>7, TabledParts DEF TabledTasks, Tables
  <2> QED BY <2>6, <2>8, TabledParts
<1>3. CASE SectionEnds
  <2> DEFINE u == dmx.table
  <2>1. /\ UNCHANGED <<agenda, service>> /\ dmx'.at = "idle"
        /\ table' = [table EXCEPT ![u] = [table[u] EXCEPT !.run = FALSE]]
    BY <1>3 DEF SectionEnds, workVars, NoSection
  <2>2. u \in Tables
    BY TablesAre
  <2>3. StopsTable(u)
    BY <2>1 DEF StopsTable
  <2> HIDE DEF u
  <2>4. /\ \A t \in Tables : ~table'[t].open => table'[t] = Closed
        /\ \A t \in Tables : table'[t].open = table[t].open /\ table'[t].prog = table[t].prog
        /\ \A t \in Tables \ {u} : table'[t] = table[t]
        /\ ~table'[u].run
    BY <2>2, <2>3, StopsTabled
  <2>5. Pending' = Pending
    BY <2>1 DEF Pending
  <2>6. TabledTables'
    BY <2>1, <2>4, TabledParts DEF TabledTables, Tables
  <2>7. \A t \in Tables : Stopped(t) => Stopped(t)'
    BY <2>1, <2>4 DEF Stopped
  <2>8. TabledTasks'
    BY <2>1, <2>4, <2>5, <2>7, TabledParts DEF TabledTasks, Tables
  <2> QED BY <2>6, <2>8, TabledParts
<1> QED BY <1>1, <1>2, <1>3 DEF Section

LEMMA CallsTabled == ASSUME AgendaInv, Tabled, Calls \/ MonWake PROVE Tabled'
<1>1. UNCHANGED <<table, dmx, service>>
  BY DEF Calls, MonWake, RegisterCA, UnregisterCA, OpenCA, CloseCA, StopCA, PutMsg, GetMsg, AppCall,
     AnyCall, StartService, StopService, Pause, Resume, Close, tableVars, manVars
<1> DEFINE Fits(Q) == Beyond(Q) /\ Q \cap TabledOps = {}
<1>2. ASSUME NEW c \in Cas,
             \/ RegisterCA(c) \/ UnregisterCA(c) \/ OpenCA(c) \/ CloseCA(c) \/ StopCA(c)
             \/ PutMsg(c) \/ GetMsg(c)
      PROVE  \E Q : Fits(Q)
  BY <1>2, CallsBeyond DEF TabledOps, RemoveOps
<1>3. ASSUME \/ StopService \/ Pause \/ Resume
             \/ \E s \in Services, d \in Cas \cup {NoCa} : StartService(s, d)
      PROVE \E Q : Fits(Q)
  BY <1>3, OthersBeyond DEF TabledOps
<1>4. ASSUME \E Q : Fits(Q) PROVE Tabled'
  BY <1>1, <1>4, TabledFrame
<1>5. CASE Close
  <2>1. Pending = {} /\ Pending' = CloseTasks \cup {<<"quit", "none">>}
    BY <1>5, CloseStarts DEF Starts, Idle
  <2>2. TabledTasks'
    BY <1>1, <2>1 DEF TabledTasks, CloseTasks, Tables
  <2> QED BY <1>1, <2>2, TabledParts DEF TabledTables
<1>6. CASE MonWake
  <2>1. PICK N : Starts(N) /\ N \in {{}, {<<"from", 1>>}, NewTsTasks("ts") \cup {<<"from", 1>>}}
    BY <1>6, MonWakeStarts
  <2>2. Pending = {} /\ Pending' = N
    BY <2>1 DEF Starts, Idle
  <2>3. TabledTasks'
    BY <1>1, <2>1, <2>2 DEF TabledTasks, CloseTasks, NewTsTasks, Tables
  <2> QED BY <1>1, <2>3, TabledParts DEF TabledTables
<1> QED BY <1>2, <1>3, <1>4, <1>5, <1>6 DEF Calls

LEMMA TabledNext == ASSUME AgendaInv, Tabled, [Next]_vars PROVE Tabled'
<1>1. CASE UNCHANGED vars
  <2>1. Beyond({}) /\ UNCHANGED <<table, dmx, service>>
    BY <1>1, SameBeyond DEF vars, workVars, tableVars, manVars
  <2> QED BY <2>1, TabledFrame
<1>2. CASE Tabling
  BY <1>2, StopTableTabled, SyncedTabled, CloseTablesTabled, StartTableTabled, RunTableTabled,
     TimeOutTabled DEF Tabling
<1>3. CASE Handling
  BY <1>3, NewTableTabled, TabledElse DEF Handling
<1>4. CASE CallingCas
  BY <1>4, GiveTabled, DropsTabled, TabledElse DEF CallingCas
<1>5. CASE Ending
  BY <1>5, DropsTabled, TabledElse DEF Ending
<1>6. CASE \/ MonTop \/ MonLock \/ MonWake \/ Section \/ Cam \/ Calls \/ Joined \/ FendEvent
           \/ \E t \in Tables : Change(t)
  BY <1>6, SectionTabled, CallsTabled, TabledElse
<1> QED BY <1>1, <1>2, <1>3, <1>4, <1>5, <1>6 DEF Next, Work

-----------------------------------------------------------------------------
(* The messages.                                                             *)

LEMMA CountedFrame ==
    ASSUME Counted, NEW Q, Beyond(Q), "getmsg" \notin Q, msgs' = msgs, spent'.msgs = spent.msgs,
           cam' = cam \/ cam' \in {"none", "poll"}
    PROVE  Counted'
<1>1. \A x : <<"getmsg", x>> \in Pending' <=> <<"getmsg", x>> \in Pending
  BY DEF Beyond
<1> QED BY <1>1 DEF Counted, Waits, For

LEMMA CountedWork == ASSUME AgendaInv, Counted, Work PROVE Counted'
<1> DEFINE Fits == \E Q : Beyond(Q) /\ "getmsg" \notin Q
           Kept == msgs' = msgs /\ spent'.msgs = spent.msgs /\ (cam' = cam \/ cam' \in {"none", "poll"})
<1>1. Fits /\ Kept => Counted'
  BY CountedFrame
<1>2. CASE Tabling \/ Handling
  <2>1. Fits
    BY <1>2, WorkBeyond, ReturnsBeyond DEF Tabling, Handling
  <2>2. Kept
    <3>1. CASE Tabling
      BY <3>1 DEF Tabling, StopTable, Synced, CloseTables, StartTable, RunTable, TimeOut,
         caVars, ciVars, envVars
    <3>2. CASE Handling
      BY <3>2 DEF Handling, Look, NewTable, MonitorTable, Handled, caVars, ciVars, envVars
    <3> QED BY <1>2, <3>1, <3>2
  <2> QED BY <1>1, <2>1, <2>2
<1>3. CASE Enter \/ Arrange \/ Unmatch \/ Match \/ Collect \/ Give \/ StartPmt \/ StopPmt
  <2>1. Fits
    BY <1>3, WorkBeyond, ReturnsBeyond
  <2>2. Kept
    BY <1>3 DEF Enter, Arrange, Unmatch, Match, Collect, Give, StartPmt, StopPmt,
       caVars, ciVars, envVars
  <2> QED BY <1>1, <2>1, <2>2
<1>4. CASE OpenCi \/ Register \/ Disable \/ Uncall \/ StopCi \/ CloseCa \/ Receive \/ Destroy
  <2>1. Fits
    BY <1>4, ReturnsBeyond
  <2>2. Kept
    BY <1>4 DEF OpenCi, Register, Disable, Uncall, StopCi, CloseCa, Receive, Destroy,
       caVars, ciVars, envVars
  <2> QED BY <1>1, <2>1, <2>2
<1>5. CASE SetService \/ NoMoreService \/ ListCa \/ SetPause \/ Quit
  <2>1. Fits
    BY <1>5, ReturnsBeyond
  <2>2. Kept
    BY <1>5 DEF SetService, NoMoreService, ListCa, SetPause, Quit, caVars, ciVars, envVars
  <2> QED BY <1>1, <2>1, <2>2
<1>6. CASE Unlist
  <2>1. Pops("unlist", {}) /\ UNCHANGED <<spent, cam>> /\ msgs' = [msgs EXCEPT ![Of] = 0]
    BY <1>6, UnlistPops DEF Unlist, ciVars, envVars
  <2>2. \A y \in Rest : y[1] \in RemoveOps
    BY <2>1, RestBehind, BehindOf DEF Pops, RemoveOps
  <2>3. \A c \in Cas : ~Waits("getmsg", c)'
    BY <2>1, <2>2 DEF Pops, Waits, For, RemoveOps
  <2>4. msgs \in [Cas -> 0 .. MaxMsgs] /\ spent.msgs \in 0 .. MaxMsgs /\ Ci \in Cas /\ MaxMsgs \in Nat
    BY CaAssumption, BoundsAssumption DEF AgendaInv, TypeOK
  <2>5. \A c \in Cas : msgs'[c] <= msgs[c]
    BY <2>1, <2>4
  <2>6. \A c \in Cas : msgs'[c] \in 0 .. MaxMsgs
    BY <2>1, <2>4
  <2>7. \A c \in Cas : msgs'[c] <= spent.msgs
    BY <2>4, <2>5, <2>6 DEF Counted
  <2>8. cam \in {"ci", "ca", "man"} => msgs'[Ci] < spent.msgs
    BY <2>4, <2>5, <2>6 DEF Counted
  <2> QED BY <2>1, <2>3, <2>7, <2>8 DEF Counted
<1>7. CASE TakeMsg
  <2>1. Pops("getmsg", {}) /\ UNCHANGED <<spent, cam>> /\ msgs' = [msgs EXCEPT ![Of] = msgs[Of] - 1]
    BY <1>7, TakeMsgPops DEF TakeMsg, ciVars, envVars
  <2>2. Rest = {}
    BY <2>1, RestBehind, BehindOf DEF Pops
  <2>3. \A c \in Cas : ~Waits("getmsg", c)'
    BY <2>1, <2>2 DEF Pops, Waits, For
  <2>4. msgs \in [Cas -> 0 .. MaxMsgs] /\ spent.msgs \in 0 .. MaxMsgs /\ Ci \in Cas /\ MaxMsgs \in Nat
    BY CaAssumption, BoundsAssumption DEF AgendaInv, TypeOK
  <2>5. \A c \in Cas : msgs'[c] <= msgs[c] /\ msgs'[c] \in Int
    BY <2>1, <2>4
  <2>7. \A c \in Cas : msgs'[c] <= spent.msgs
    BY <2>4, <2>5 DEF Counted
  <2>8. cam \in {"ci", "ca", "man"} => msgs'[Ci] < spent.msgs
    BY <2>4, <2>5 DEF Counted
  <2> QED BY <2>1, <2>3, <2>7, <2>8 DEF Counted
<1> QED BY <1>2, <1>3, <1>4, <1>5, <1>6, <1>7 DEF Work, CallingCas, Ending

LEMMA CountedNext == ASSUME AgendaInv, Counted, [Next]_vars PROVE Counted'
<1> DEFINE Fits == \E Q : Beyond(Q) /\ "getmsg" \notin Q
           Kept == msgs' = msgs /\ spent'.msgs = spent.msgs /\ (cam' = cam \/ cam' \in {"none", "poll"})
<1>1. Fits /\ Kept => Counted'
  BY CountedFrame
<1>2. msgs \in [Cas -> 0 .. MaxMsgs] /\ spent.msgs \in 0 .. MaxMsgs /\ Ci \in Cas /\ MaxMsgs \in Nat
      /\ spent \in [calls : 0 .. MaxCalls, changes : 0 .. MaxChanges,
                    fend : 0 .. MaxFend, rounds : 0 .. MaxRounds, msgs : 0 .. MaxMsgs]
  BY CaAssumption, BoundsAssumption DEF AgendaInv, TypeOK
<1>3. CASE UNCHANGED vars
  <2>1. Fits
    BY <1>3, SameBeyond DEF vars, workVars
  <2> QED BY <1>1, <1>3, <2>1 DEF vars, caVars, envVars, ciVars
<1>4. CASE MonTop \/ Section \/ FendEvent \/ \E t \in Tables : Change(t)
  <2>1. Fits
    BY <1>4, OthersBeyond
  <2>2. UNCHANGED <<msgs, cam>> /\ spent'.msgs = spent.msgs
    BY <1>2, <1>4 DEF MonTop, Section, Capture, SectionDecodes, SectionEnds, FendEvent, Change,
       caVars, envVars, ciVars
  <2> QED BY <1>1, <2>1, <2>2
<1>5. CASE MonLock \/ Joined
  <2>1. Fits
    BY <1>5, OthersBeyond DEF RemoveOps
  <2>2. UNCHANGED <<msgs, cam>> /\ spent'.msgs = spent.msgs
    BY <1>2, <1>5 DEF MonLock, Joined, caVars, envVars, ciVars
  <2> QED BY <1>1, <2>1, <2>2
<1>6. CASE MonWake
  <2>1. /\ UNCHANGED <<cam, spent>>
        /\ msgs' = [c \in Cas |-> IF c \in Callbacks THEN 0 ELSE msgs[c]]
    BY <1>6 DEF MonWake, ciVars, envVars
  <2>2. PICK N : Starts(N) /\ N \in {{}, {<<"from", 1>>}, NewTsTasks("ts") \cup {<<"from", 1>>}}
    BY <1>6, MonWakeStarts
  <2>3. \A c \in Cas : ~Waits("getmsg", c)'
    BY <2>2 DEF Starts, Waits, For, NewTsTasks, CloseTasks
  <2>4. \A c \in Cas : msgs'[c] <= msgs[c] /\ msgs'[c] \in 0 .. MaxMsgs
    BY <1>2, <2>1
  <2>5. \A c \in Cas : msgs'[c] <= spent.msgs
    BY <1>2, <2>4 DEF Counted
  <2>6. cam \in {"ci", "ca", "man"} => msgs'[Ci] < spent.msgs
    BY <1>2, <2>4 DEF Counted
  <2> QED BY <2>1, <2>3, <2>5, <2>6 DEF Counted
<1>7. CASE Cam
  <2>1. Pending' = Pending
    BY <1>7 DEF Cam, CamPolls, CamInfo, CamSends, CamAdds, workVars, Pending
  <2>2. CASE CamPolls
    <3>1. msgs' = msgs /\ \/ cam' = "none" /\ UNCHANGED spent
                          \/ spent' = [spent EXCEPT !.msgs = spent.msgs + 1]
      BY <2>2 DEF CamPolls, caVars
    <3>2. CASE cam' = "none" /\ UNCHANGED spent
      BY <2>1, <3>1, <3>2 DEF Counted, Waits
    <3>3. CASE spent' = [spent EXCEPT !.msgs = spent.msgs + 1]
      <4>1. spent'.msgs = spent.msgs + 1
        BY <1>2, <3>3
      <4>2. \A c \in Cas : msgs[c] < spent'.msgs
        BY <1>2, <4>1 DEF Counted
      <4>3. \A c \in Cas : msgs[c] <= spent'.msgs
        BY <1>2, <4>1 DEF Counted
      <4> QED BY <1>2, <2>1, <3>1, <4>2, <4>3 DEF Counted, Waits
    <3> QED BY <3>1, <3>2, <3>3
  <2>3. CASE CamInfo \/ CamSends
    BY <2>1, <2>3 DEF Counted, Waits, CamInfo, CamSends, caVars, envVars
  <2>4. CASE CamAdds
    <3>1. /\ cam = "man" /\ cam' = "poll" /\ UNCHANGED spent
          /\ msgs' = [msgs EXCEPT ![Ci] = IF Registered(Ci) THEN msgs[Ci] + 1 ELSE msgs[Ci]]
      BY <2>4 DEF CamAdds, envVars
    <3>2. msgs[Ci] < spent.msgs
      BY <3>1 DEF Counted
    <3>3. msgs'[Ci] \in {msgs[Ci], msgs[Ci] + 1} /\ \A c \in Cas \ {Ci} : msgs'[c] = msgs[c]
      BY <1>2, <3>1
    <3>4. msgs'[Ci] <= spent.msgs /\ (msgs[Ci] > 0 => msgs'[Ci] > 0)
      BY <1>2, <3>2, <3>3
    <3>5. \A c \in Cas : msgs'[c] <= spent.msgs /\ (msgs[c] > 0 => msgs'[c] > 0)
      BY <3>3, <3>4 DEF Counted
    <3> QED BY <2>1, <3>1, <3>5 DEF Counted, Waits
  <2> QED BY <1>7, <2>2, <2>3, <2>4 DEF Cam
<1>8. CASE Calls
  <2>1. UNCHANGED <<msgs, cam>> /\ spent'.msgs = spent.msgs
    BY <1>2, <1>8 DEF Calls, RegisterCA, UnregisterCA, OpenCA, CloseCA, StopCA, PutMsg, GetMsg, AppCall,
     AnyCall, StartService, StopService, Pause, Resume, Close, caVars, ciVars
  <2>2. ASSUME NEW c \in Cas,
               \/ RegisterCA(c) \/ UnregisterCA(c) \/ OpenCA(c) \/ CloseCA(c) \/ StopCA(c)
               \/ PutMsg(c)
        PROVE  Fits
    BY <2>2, CallsBeyond DEF RemoveOps
  <2>3. ASSUME \/ StopService \/ Pause \/ Resume \/ Close
               \/ \E s \in Services, d \in Cas \cup {NoCa} : StartService(s, d)
        PROVE Fits
    BY <2>3, OthersBeyond
  <2>4. ASSUME NEW c \in Cas, GetMsg(c) PROVE Counted'
    <3>1. Starts({<<"getmsg", c>>}) /\ msgs[c] > 0
      BY <2>4, GetMsgStarts DEF GetMsg
    <3> QED BY <2>1, <3>1 DEF Starts, Counted, Waits, For
  <2> QED BY <1>1, <1>8, <2>1, <2>2, <2>3, <2>4 DEF Calls
<1>9. CASE Work
  BY <1>9, CountedWork
<1> QED BY <1>3, <1>4, <1>5, <1>6, <1>7, <1>8, <1>9 DEF Next

-----------------------------------------------------------------------------
(* The agenda and the types.                                                 *)

LEMMA AgendaNext == ASSUME AgendaInv, Tabled, Counted, [Next]_vars PROVE AgendaInv'
<1>1. CASE UNCHANGED vars
  BY <1>1 DEF AgendaInv, TypeOK, Owned, Ordered, Pending, Allowed, vars, workVars, manVars, caVars,
     tableVars, ciVars, envVars
<1>2. CASE Work
  <2>1. Typed'
    BY <1>2, WorkTyped
  <2>2. CASE Tabling \/ Handling
    <3>1. After
      BY <2>2, StopTablePops, SyncedPops, CloseTablesPops, StartTablePops, RunTablePops, TimeOutPops,
         LookPops, NewTablePops, MonitorTablePops, HandledPops DEF Tabling, Handling
    <3> QED BY <2>1, <3>1, TypedAfter
  <2>3. CASE CallingCas
    <3>1. CASE Enter \/ Arrange \/ Unmatch \/ Match \/ Collect \/ Give \/ StartPmt \/ StopPmt
      BY <3>1, <2>1, TypedAfter, EnterPops, ArrangePops, UnmatchPops, MatchPops, CollectPops, GivePops,
         StartPmtPops, StopPmtPops
    <3>2. CASE \/ OpenCi \/ Register \/ Disable \/ Uncall \/ StopCi \/ CloseCa \/ Receive
               \/ Unlist \/ Destroy
      BY <3>2, <2>1, TypedAfter, OpenCiPops, RegisterPops, DisablePops, UncallPops, StopCiPops,
         CloseCaPops, ReceivePops, UnlistPops, DestroyPops
    <3> QED BY <2>3, <3>1, <3>2 DEF CallingCas
  <2>4. CASE Ending
    BY <2>1, <2>4, TypedAfter, SetServicePops, NoMoreServicePops, ListCaPops, TakeMsgPops,
       SetPausePops, QuitPops DEF Ending
  <2> QED BY <1>2, <2>2, <2>3, <2>4 DEF Work
<1>3. CASE Calls
  <2>1. Typed'
    BY <1>3, CallsTyped
  <2>2. ASSUME NEW c \in Cas,
               \/ RegisterCA(c) \/ UnregisterCA(c) \/ OpenCA(c) \/ CloseCA(c) \/ StopCA(c)
               \/ PutMsg(c) \/ GetMsg(c)
        PROVE  After
    BY <2>2, RegisterCAStarts, UnregisterCAStarts, OpenCAStarts, CloseCAStarts, StopCAStarts,
       PutMsgStarts, GetMsgStarts
  <2>3. ASSUME NEW s \in Services, NEW d \in Cas \cup {NoCa}, StartService(s, d)
        PROVE  After
    BY <2>3, StartServiceStarts
  <2>4. CASE StopService \/ Pause \/ Resume \/ Close
    BY <2>1, <2>4, TypedAfter, StopServiceStarts, PauseStarts, CloseStarts
  <2> QED BY <1>3, <2>1, <2>2, <2>3, <2>4, TypedAfter DEF Calls
<1>4. CASE MonLock \/ MonWake \/ Joined
  <2>1. Typed'
    BY <1>4, OtherTyped
  <2> QED BY <1>4, <2>1, TypedAfter, MonLockStarts, MonWakeStarts, JoinedStarts
<1>5. CASE MonTop \/ Section \/ Cam \/ FendEvent \/ \E t \in Tables : Change(t)
  <2>1. Typed'
    BY <1>5, OtherTyped
  <2>2. /\ UNCHANGED <<agenda, lock, apc, quit>>
        /\ mpc' = mpc \/ (mpc = "top" /\ mpc' \in {"gone", "lock"})
    BY <1>5 DEF MonTop, Section, Capture, SectionDecodes, SectionEnds, Cam, CamPolls, CamInfo,
       CamSends, CamAdds, FendEvent, Change, workVars, manVars
  <2>3. Pending' = Pending
    BY <2>2 DEF Pending
  <2>4. /\ agenda \in Seq(AgendaTasks) /\ lock \in {Nobody, "mon", "app"}
        /\ mpc \in {"top", "lock", "late", "wait", "run", "gone"}
        /\ apc \in {"idle", "run", "join", "remove", "over"} /\ Owned /\ Ordered
    BY DEF AgendaInv, TypeOK
  <2>5. Ordered'
    BY <2>2, <2>4 DEF Ordered
  <2>6. Owned'
    BY <2>2, <2>3, <2>4 DEF Owned, Allowed
  <2>7. After
    BY <2>2, <2>4, <2>5, <2>6 DEF After
  <2> QED BY <2>1, <2>7, TypedAfter
<1> QED BY <1>1, <1>2, <1>3, <1>4, <1>5 DEF Next

-----------------------------------------------------------------------------
(* The CAs that are removed.                                                 *)

Apart(P) == \E Q : Beyond(Q) /\ Q \cap P = {}

LEMMA ApartKeeps ==
    ASSUME NEW P, Apart(P)
    PROVE  \A op \in P : \A x : <<op, x>> \in Pending' <=> <<op, x>> \in Pending
BY DEF Apart, Beyond

LEMMA ApartSame == ASSUME NEW P, UNCHANGED agenda PROVE Apart(P)
BY SameBeyond DEF Apart

RemovedOps == {"unlist", "disable", "uncall", "stopci", "closed", "destroy"}

LEMMA RemovedFrame ==
    ASSUME Removed, Apart(RemovedOps), UNCHANGED <<status, listed>>
    PROVE  Removed'
<1>1. \A op \in RemovedOps : \A x : <<op, x>> \in Pending' <=> <<op, x>> \in Pending
  BY ApartKeeps
<1> QED BY <1>1 DEF Removed, RemovedOps, Waits, For

LEMMA RemovedElse ==
    ASSUME AgendaInv, Removed,
           \/ Tabling \/ Handling
           \/ Enter \/ Arrange \/ Collect \/ Give \/ StartPmt \/ StopPmt \/ OpenCi \/ Receive
           \/ SetService \/ NoMoreService \/ TakeMsg \/ SetPause \/ Quit
           \/ MonTop \/ MonLock \/ MonWake \/ Section \/ Cam \/ FendEvent
           \/ \E t \in Tables : Change(t)
    PROVE  Removed'
<1>1. CASE Tabling
  <2>1. Apart(RemovedOps)
    BY <1>1, WorkBeyond, ReturnsBeyond DEF Apart, RemovedOps, Tabling
  <2>2. UNCHANGED <<status, listed>>
    BY <1>1 DEF Tabling, StopTable, Synced, CloseTables, StartTable, RunTable, TimeOut, caVars
  <2> QED BY <2>1, <2>2, RemovedFrame
<1>2. CASE Handling
  <2>1. Apart(RemovedOps)
    BY <1>2, WorkBeyond, ReturnsBeyond DEF Apart, RemovedOps, Handling
  <2>2. UNCHANGED <<status, listed>>
    BY <1>2 DEF Handling, Look, NewTable, MonitorTable, Handled, caVars
  <2> QED BY <2>1, <2>2, RemovedFrame
<1>3. CASE \/ Enter \/ Arrange \/ Collect \/ Give \/ StartPmt \/ StopPmt \/ OpenCi \/ Receive
           \/ SetService \/ NoMoreService \/ TakeMsg \/ SetPause \/ Quit
  <2>1. Apart(RemovedOps)
    BY <1>3, WorkBeyond, ReturnsBeyond DEF Apart, RemovedOps
  <2>2. UNCHANGED <<status, listed>>
    BY <1>3 DEF Enter, Arrange, Collect, Give, StartPmt, StopPmt, OpenCi, Receive,
       SetService, NoMoreService, TakeMsg, SetPause, Quit, caVars
  <2> QED BY <2>1, <2>2, RemovedFrame
<1>4. CASE \/ MonTop \/ MonLock \/ MonWake \/ Section \/ Cam \/ FendEvent
           \/ \E t \in Tables : Change(t)
  <2>1. Apart(RemovedOps)
    BY <1>4, OthersBeyond DEF Apart, RemovedOps
  <2>2. UNCHANGED <<status, listed>>
    BY <1>4 DEF MonTop, MonLock, MonWake, Section, Capture, SectionDecodes, SectionEnds, Cam,
       CamPolls, CamInfo, CamSends, CamAdds, FendEvent, Change, caVars
  <2> QED BY <2>1, <2>2, RemovedFrame
<1> QED BY <1>1, <1>2, <1>3, <1>4

LEMMA RemovedWork ==
    ASSUME AgendaInv, Removed,
           \/ Unlist \/ CloseCa \/ Destroy \/ Disable \/ Uncall \/ StopCi
           \/ Register \/ Unmatch \/ Match \/ ListCa
    PROVE  Removed'
<1>1. CASE Unlist
  <2>1. Pops("unlist", {}) /\ UNCHANGED status /\ listed' = [listed EXCEPT ![Of] = "none"]
    BY <1>1, UnlistPops DEF Unlist
  <2>2. listed \in [Cas -> {"none", "man", "ts", "tmp"}]
    BY DEF AgendaInv, TypeOK
  <2>3. Pending = {<<"unlist", Of>>} \cup Rest /\ Pending' = Rest
    BY <2>1 DEF Pops, Heads
  <2> QED BY <2>1, <2>2, <2>3 DEF Removed, Waits, For
<1>2. CASE CloseCa
  <2>1. Pops("closed", {}) /\ UNCHANGED listed /\ status' = [status EXCEPT ![Of] = FALSE]
    BY <1>2, CloseCaPops DEF CloseCa
  <2>2. status \in [Cas -> BOOLEAN]
    BY DEF AgendaInv, TypeOK
  <2>3. Pending = {<<"closed", Of>>} \cup Rest /\ Pending' = Rest
    BY <2>1 DEF Pops, Heads
  <2>4. \A y \in Rest : y[2] = Of => y[1] = "destroy"
    BY <2>1 DEF Pops, Heads, Before
  <2> QED BY <2>1, <2>2, <2>3, <2>4 DEF Removed, Waits, For
<1>3. CASE Destroy
  <2>1. Pops("destroy", {}) /\ UNCHANGED <<listed, status>>
    BY <1>3, DestroyPops DEF Destroy
  <2>2. Pending = {<<"destroy", Of>>} \cup Rest /\ Pending' = Rest
    BY <2>1 DEF Pops, Heads
  <2>3. \A y \in Rest : y[2] # Of
    BY <2>1 DEF Pops, Heads, Before
  <2> QED BY <2>1, <2>2, <2>3 DEF Removed, Waits, For
<1>4. CASE Disable \/ Uncall \/ StopCi
  <2>1. PICK op \in {"disable", "uncall", "stopci"} : Pops(op, {})
    BY <1>4, DisablePops, UncallPops, StopCiPops
  <2>2. Pending = {<<op, Of>>} \cup Rest /\ Pending' = Rest
    BY <2>1 DEF Pops, Heads
  <2>3. UNCHANGED <<listed, status>>
    BY <1>4 DEF Disable, Uncall, StopCi, caVars
  <2> QED BY <2>2, <2>3 DEF Removed, Waits, For
<1>5. CASE Register \/ ListCa
  <2>1. PICK op \in {"register", "list"} : Pops(op, {})
    BY <1>5, RegisterPops, ListCaPops
  <2>2. Rest = {} /\ Pending' = {}
    BY <2>1, RestBehind, BehindOf DEF Pops
  <2> QED BY <2>2 DEF Removed, Waits
<1>6. CASE Unmatch \/ Match
  <2>1. PICK op \in {"unmatch", "match"} : Heads(op)
    BY <1>6, HeadTask DEF Unmatch, Match
  <2>2. Apart(RemovedOps)
    BY <1>6, WorkBeyond DEF Apart, RemovedOps
  <2>3. \A y \in Rest : y[1] \notin RemovedOps
    BY <2>1, RestBehind, BehindOf DEF RemovedOps
  <2>4. \A op2 \in RemovedOps : \A x : <<op2, x>> \notin Pending
    BY <2>1, <2>3 DEF Heads, RemovedOps
  <2>5. \A op2 \in RemovedOps : \A x : <<op2, x>> \notin Pending'
    BY <2>2, <2>4, ApartKeeps
  <2> QED BY <2>5 DEF Removed, Waits, For, RemovedOps
<1> QED BY <1>1, <1>2, <1>3, <1>4, <1>5, <1>6

LEMMA RemovedNext == ASSUME AgendaInv, Removed, [Next]_vars PROVE Removed'
<1>1. CASE UNCHANGED vars
  BY <1>1, ApartSame, RemovedFrame DEF vars, workVars, caVars
<1>2. CASE Work
  BY <1>2, RemovedElse, RemovedWork DEF Work, CallingCas, Ending
<1>3. ASSUME NEW s, NEW C, Removals(s, C), Pending' = Range(s), UNCHANGED <<status, listed>>
      PROVE  Removed'
  BY <1>3 DEF Removals, Removed, Waits, For
<1>4. CASE Calls
  <2>1. UNCHANGED <<status, listed>>
    BY <1>4 DEF Calls, RegisterCA, UnregisterCA, OpenCA, CloseCA, StopCA, PutMsg, GetMsg, AppCall,
       AnyCall, StartService, StopService, Pause, Resume, Close, caVars
  <2>2. ASSUME NEW c \in Cas,
               \/ RegisterCA(c) \/ OpenCA(c) \/ StopCA(c) \/ PutMsg(c) \/ GetMsg(c)
        PROVE  Removed'
    <3>1. Apart(RemovedOps)
      BY <2>2, CallsBeyond DEF Apart, RemovedOps
    <3> QED BY <2>1, <3>1, RemovedFrame
  <2>3. ASSUME \/ StopService \/ Pause \/ Resume \/ Close
               \/ \E s \in Services, d \in Cas \cup {NoCa} : StartService(s, d)
        PROVE  Removed'
    <3>1. Apart(RemovedOps)
      BY <2>3, OthersBeyond DEF Apart, RemovedOps
    <3> QED BY <2>1, <3>1, RemovedFrame
  <2>4. ASSUME NEW c \in Cas, UnregisterCA(c) PROVE Removed'
    BY <1>3, <2>1, <2>4, UnregisterCAStarts DEF Starts
  <2>5. ASSUME NEW c \in Cas, CloseCA(c) PROVE Removed'
    <3>1. PICK N : Starts(N) /\ N \subseteq ClosingTasks(c) /\ <<"closed", c>> \in N
      BY <2>5, CloseCAStarts
    <3>2. \A x \in N : /\ x[1] \notin {"unlist", "destroy"} /\ (x[1] # "enter" => x[2] = c)
                       /\ x[1] \in {"uncall", "stopci"} => c = Ci
      BY <3>1 DEF ClosingTasks
    <3> QED BY <3>1, <3>2 DEF Starts, Removed, Waits, For
  <2> QED BY <1>4, <2>2, <2>3, <2>4, <2>5 DEF Calls
<1>5. CASE Joined
  <2>1. UNCHANGED <<status, listed>>
    BY <1>5 DEF Joined, caVars
  <2> QED BY <1>3, <1>5, <2>1, JoinedStarts DEF Starts
<1>6. CASE \/ MonTop \/ MonLock \/ MonWake \/ Section \/ Cam \/ FendEvent
           \/ \E t \in Tables : Change(t)
  BY <1>6, RemovedElse
<1> QED BY <1>1, <1>2, <1>4, <1>5, <1>6 DEF Next

-----------------------------------------------------------------------------
(* The CAs that are called.                                                  *)

InList(c) == listed[c] # "none"
CalledCas ==
    \A c \in Cas :
        \/ <<"open", c>> \in Pending \/ <<"register", c>> \in Pending \/ <<"start", c>> \in Pending
        \/ \E x \in Systems : <<"match", <<c, x>>>> \in Pending \/ <<"unmatch", <<c, x>>>> \in Pending
        => InList(c)
KnownCas ==
    \A c \in Cas :
        /\ <<"list", c>> \in Pending => ~InList(c)
        /\ status[c] => InList(c) \/ <<"closed", c>> \in Pending
        /\ given[c] # NoPmt => InList(c) \/ <<"destroy", c>> \in Pending
OpenCas ==
    ~Happened({"matched"}) => \A c \in Cas :
        /\ opened[c] => /\ status[c] \/ <<"register", c>> \in Pending
                        /\ InList(c) \/ <<"closed", c>> \in Pending
        /\ <<"open", c>> \in Pending => <<"register", c>> \in Pending /\ ~status[c]
ForcedTasks ==
    \A x \in Pending :
        /\ x[1] = "service" => x[2][2] = NoCa \/ Registered(x[2][2])
        /\ x[1] \in {"arrange", "unmatch", "match", "collect"} => force = NoCa
ForcedCa == ~Happened({"dangling"}) /\ force # NoCa => bound[force] /\ Registered(force)

LEMMA ListedParts ==
    /\ Listed <=> CalledCas /\ KnownCas /\ OpenCas /\ ForcedTasks /\ ForcedCa
    /\ Listed' <=> CalledCas' /\ KnownCas' /\ OpenCas' /\ ForcedTasks' /\ ForcedCa'
<1>1. \A c \in Cas : (Registered(c) <=> InList(c)) /\ (Registered(c)' <=> InList(c)')
  BY CaAssumption DEF Registered, InList
<1>2. Listed <=> CalledCas /\ KnownCas /\ OpenCas /\ ForcedTasks /\ ForcedCa
  BY <1>1 DEF Listed, CalledCas, KnownCas, OpenCas, ForcedTasks, ForcedCa, Waits, For
<1>3. Listed' <=> CalledCas' /\ KnownCas' /\ OpenCas' /\ ForcedTasks' /\ ForcedCa'
  BY <1>1 DEF Listed, CalledCas, KnownCas, OpenCas, ForcedTasks, ForcedCa, Waits, For
<1> QED BY <1>2, <1>3

ListedOps == {"open", "register", "start", "match", "unmatch", "list", "closed", "destroy",
              "service", "arrange", "collect"}

\* A step that does not close or destroy, and changes no CA.
LEMMA ListedFrame ==
    ASSUME Listed, Apart(ListedOps), UNCHANGED <<force, listed, status, bound, opened, given>>,
           mishaps \subseteq mishaps'
    PROVE  Listed'
<1>1. \A op \in ListedOps : \A x : <<op, x>> \in Pending' <=> <<op, x>> \in Pending
  BY ApartKeeps
<1>2. PICK Q : Beyond(Q) /\ Q \cap ListedOps = {}
  BY DEF Apart
<1>3. \A z : z[1] \in ListedOps => (z \in Pending' <=> z \in Pending)
  BY <1>2 DEF Beyond
<1>4. CalledCas' /\ KnownCas' /\ OpenCas'
  BY <1>1, ListedParts DEF CalledCas, KnownCas, OpenCas, Happened, ListedOps, InList
<1>5. ForcedTasks' /\ ForcedCa'
  BY <1>3, ListedParts DEF ForcedTasks, ForcedCa, Happened, ListedOps, Registered
<1> QED BY <1>4, <1>5, ListedParts

LEMMA MishapsGrow == [Next]_vars => mishaps \subseteq mishaps'
<1>1. Tabling => mishaps \subseteq mishaps'
  BY DEF Tabling, StopTable, Synced, CloseTables, StartTable, RunTable, TimeOut, Mishap
<1>2. Handling => mishaps \subseteq mishaps'
  BY DEF Handling, Look, NewTable, MonitorTable, Handled, Mishap
<1>3. Enter \/ Arrange \/ Unmatch \/ Match \/ Collect \/ Give \/ StartPmt \/ StopPmt
      => mishaps \subseteq mishaps'
  BY DEF Enter, Arrange, Unmatch, Match, Collect, Give, StartPmt, StopPmt, Mishap
<1>4. OpenCi \/ Register \/ Disable \/ Uncall \/ StopCi \/ CloseCa \/ Receive \/ Unlist \/ Destroy
      => mishaps \subseteq mishaps'
  BY DEF OpenCi, Register, Disable, Uncall, StopCi, CloseCa, Receive, Unlist, Destroy, Mishap
<1>5. Ending => mishaps \subseteq mishaps'
  BY DEF Ending, SetService, NoMoreService, ListCa, TakeMsg, SetPause, Quit, Mishap
<1>6. MonTop \/ MonLock \/ MonWake \/ Joined \/ FendEvent \/ (\E t \in Tables : Change(t))
      => mishaps \subseteq mishaps'
  BY DEF MonTop, MonLock, MonWake, Joined, FendEvent, Change, Mishap
<1>7. Section \/ Cam => mishaps \subseteq mishaps'
  BY DEF Section, Capture, SectionDecodes, SectionEnds, Cam, CamPolls, CamInfo, CamSends, CamAdds,
     Mishap
<1>8. Calls => mishaps \subseteq mishaps'
  BY DEF Calls, RegisterCA, UnregisterCA, OpenCA, CloseCA, StopCA, PutMsg, GetMsg, AppCall,
     AnyCall, StartService, StopService, Pause, Resume, Close
<1>9. UNCHANGED vars => mishaps \subseteq mishaps'
  BY DEF vars
<1> QED BY <1>1, <1>2, <1>3, <1>4, <1>5, <1>6, <1>7, <1>8, <1>9 DEF Next, Work, CallingCas

LEMMA ListedElse ==
    ASSUME AgendaInv, Listed, [Next]_vars,
           \/ Tabling \/ Look \/ MonitorTable \/ Handled
           \/ Enter \/ Disable \/ Uncall \/ StopCi \/ Receive \/ TakeMsg \/ SetPause \/ Quit
           \/ MonTop \/ MonLock \/ MonWake \/ Section \/ Cam \/ FendEvent
           \/ \E t \in Tables : Change(t)
           \/ \E c \in Cas : StopCA(c) \/ PutMsg(c) \/ GetMsg(c)
           \/ StopService \/ Pause \/ Resume \/ Close
    PROVE  Listed'
<1>0. mishaps \subseteq mishaps'
  BY MishapsGrow
<1>1. CASE Tabling
  <2>1. Apart(ListedOps)
    BY <1>1, WorkBeyond, ReturnsBeyond DEF Apart, ListedOps, Tabling
  <2>2. UNCHANGED <<force, listed, status, bound, opened, given>>
    BY <1>1 DEF Tabling, StopTable, Synced, CloseTables, StartTable, RunTable, TimeOut, caVars, manVars
  <2> QED BY <1>0, <2>1, <2>2, ListedFrame
<1>2. CASE \/ Look \/ MonitorTable \/ Handled
           \/ Enter \/ Disable \/ Uncall \/ StopCi \/ Receive \/ TakeMsg \/ SetPause \/ Quit
  <2>1. Apart(ListedOps)
    BY <1>2, WorkBeyond, ReturnsBeyond DEF Apart, ListedOps
  <2>2. UNCHANGED <<force, listed, status, bound, opened, given>>
    BY <1>2 DEF Look, MonitorTable, Handled, Enter, Disable, Uncall, StopCi, Receive, TakeMsg,
       SetPause, Quit, caVars, manVars
  <2> QED BY <1>0, <2>1, <2>2, ListedFrame
<1>3. CASE \/ MonTop \/ MonLock \/ MonWake \/ Section \/ Cam \/ FendEvent
           \/ \E t \in Tables : Change(t)
  <2>1. Apart(ListedOps)
    BY <1>3, OthersBeyond DEF Apart, ListedOps
  <2>2. UNCHANGED <<force, listed, status, bound, opened, given>>
    BY <1>3 DEF MonTop, MonLock, MonWake, Section, Capture, SectionDecodes, SectionEnds, Cam,
       CamPolls, CamInfo, CamSends, CamAdds, FendEvent, Change, caVars, manVars
  <2> QED BY <1>0, <2>1, <2>2, ListedFrame
<1>4. CASE \/ \E c \in Cas : StopCA(c) \/ PutMsg(c) \/ GetMsg(c)
           \/ StopService \/ Pause \/ Resume \/ Close
  <2>1. Apart(ListedOps)
    BY <1>4, CallsBeyond, OthersBeyond DEF Apart, ListedOps
  <2>2. UNCHANGED <<force, listed, status, bound, opened, given>>
    BY <1>4 DEF StopCA, PutMsg, GetMsg, AppCall, AnyCall, StopService, Pause, Resume, Close,
       caVars, manVars
  <2> QED BY <1>0, <2>1, <2>2, ListedFrame
<1> QED BY <1>1, <1>2, <1>3, <1>4

LEMMA CasAre ==
    ASSUME AgendaInv
    PROVE  /\ listed \in [Cas -> {"none", "man", "ts", "tmp"}]
           /\ status \in [Cas -> BOOLEAN] /\ bound \in [Cas -> BOOLEAN] /\ opened \in [Cas -> BOOLEAN]
           /\ given \in [Cas -> {NoPmt} \cup (Services \cup {NoService}) \X Services]
           /\ force \in Cas \cup {NoCa} /\ NoCa \notin Cas /\ Ci \in Cas
           /\ \A c \in Cas : (Registered(c) <=> InList(c)) /\ (Registered(c)' <=> InList(c)')
BY CaAssumption DEF AgendaInv, TypeOK, Registered, InList

\* do_rm_ca and ca_close.
LEMMA ListedRemoval ==
    ASSUME AgendaInv, Listed, Removed, [Next]_vars, Unlist \/ CloseCa \/ Destroy
    PROVE  Listed'
<1>0. mishaps \subseteq mishaps'
  BY MishapsGrow
<1>1. PICK op \in {"unlist", "closed", "destroy"} : At(op) /\ Pops(op, {})
  BY UnlistPops, CloseCaPops, DestroyPops DEF Unlist, CloseCa, Destroy
<1>2. Pending = {<<op, Of>>} \cup Rest /\ Pending' = Rest /\ Of \in Cas
  BY <1>1, OfType DEF Pops, Heads, CaOps
<1>3. \A y \in Rest : y[1] \in RemoveOps
  BY <1>1, RestBehind, BehindOf DEF Pops, RemoveOps
<1>4. \A y \in Pending' : y[1] \notin ListedOps \ {"closed", "destroy"}
  BY <1>2, <1>3 DEF ListedOps, RemoveOps
<1>5. \A y \in Pending : y[1] \notin ListedOps \ {"closed", "destroy"}
  BY <1>1, <1>2, <1>3 DEF ListedOps, RemoveOps
<1>6. CalledCas' /\ ForcedTasks'
  BY <1>4 DEF CalledCas, ForcedTasks, ListedOps
<1>7. \A c \in Cas : <<"list", c>> \notin Pending' /\ <<"open", c>> \notin Pending'
                     /\ <<"register", c>> \notin Pending
  BY <1>4, <1>5 DEF ListedOps
<1>8. CASE Unlist
  <2>1. /\ UNCHANGED <<status, opened, given, bound>> /\ listed' = [listed EXCEPT ![Of] = "none"]
        /\ force' = IF bound[Of] /\ force = Of THEN NoCa ELSE force
        /\ op = "unlist"
    BY <1>1, <1>8 DEF Unlist, At
  <2>2. \A c \in Cas \ {Of} : InList(c)' <=> InList(c)
    BY <2>1, CasAre DEF InList
  <2>3. /\ status[Of] => <<"closed", Of>> \in Pending'
        /\ <<"destroy", Of>> \in Pending'
    BY <1>2, <2>1 DEF Removed, Waits, For
  <2>4. \A c \in Cas : \A q \in {"closed", "destroy"} : <<q, c>> \in Pending => <<q, c>> \in Pending'
    BY <1>2, <2>1
  <2>5. KnownCas'
    BY <1>7, <2>1, <2>2, <2>3, <2>4, ListedParts DEF KnownCas
  <2>6. OpenCas'
    BY <1>0, <1>7, <2>1, <2>2, <2>3, <2>4, ListedParts DEF OpenCas, Happened
  <2>7. ForcedCa'
    <3> SUFFICES ASSUME ~Happened({"dangling"}), force # NoCa, force' = force
                 PROVE  bound'[force] /\ Registered(force)'
      BY <1>0, <2>1 DEF ForcedCa, Happened
    <3>1. bound[force] /\ Registered(force) /\ force \in Cas
      BY ListedParts, CasAre DEF ForcedCa
    <3>2. force # Of
      BY <2>1, <3>1
    <3> QED BY <2>1, <2>2, <3>1, <3>2, CasAre
  <2> QED BY <1>6, <2>5, <2>6, <2>7, ListedParts
<1>9. CASE CloseCa
  <2>1. /\ status' = [status EXCEPT ![Of] = FALSE] /\ bound' = [bound EXCEPT ![Of] = FALSE]
        /\ opened' = [opened EXCEPT ![Of] = FALSE] /\ given' = [given EXCEPT ![Of] = NoPmt]
        /\ UNCHANGED <<listed, force>> /\ Mishap(force = Of, "dangling") /\ op = "closed"
    BY <1>1, <1>9 DEF CloseCa, At, manVars
  <2>2. \A c \in Cas : InList(c)' <=> InList(c)
    BY <2>1 DEF InList
  <2>3. \A c \in Cas : /\ <<"destroy", c>> \in Pending => <<"destroy", c>> \in Pending'
                       /\ c # Of /\ <<"closed", c>> \in Pending => <<"closed", c>> \in Pending'
    BY <1>2, <2>1
  <2>4. KnownCas'
    BY <1>7, <2>1, <2>2, <2>3, ListedParts, CasAre DEF KnownCas
  <2>5. OpenCas'
    BY <1>0, <1>7, <2>1, <2>2, <2>3, ListedParts, CasAre DEF OpenCas, Happened
  <2>6. ForcedCa'
    <3> SUFFICES ASSUME ~Happened({"dangling"})', force # NoCa
                 PROVE  bound'[force] /\ Registered(force)'
      BY <2>1 DEF ForcedCa, Happened
    <3>1. ~Happened({"dangling"}) /\ force # Of
      BY <1>0, <2>1 DEF Happened, Mishap
    <3>2. bound[force] /\ Registered(force) /\ force \in Cas
      BY <3>1, ListedParts, CasAre DEF ForcedCa
    <3> QED BY <2>1, <2>2, <3>1, <3>2, CasAre
  <2> QED BY <1>6, <2>4, <2>5, <2>6, ListedParts
<1>10. CASE Destroy
  <2>1. /\ given' = [given EXCEPT ![Of] = NoPmt] /\ bound' = [bound EXCEPT ![Of] = FALSE]
        /\ UNCHANGED <<status, opened, listed, force>> /\ op = "destroy"
    BY <1>1, <1>10 DEF Destroy, At, manVars
  <2>2. \A c \in Cas : InList(c)' <=> InList(c)
    BY <2>1 DEF InList
  <2>3. \A c \in Cas : /\ <<"closed", c>> \in Pending => <<"closed", c>> \in Pending'
                       /\ c # Of /\ <<"destroy", c>> \in Pending => <<"destroy", c>> \in Pending'
    BY <1>2, <2>1
  <2>4. ~InList(Of)
    <3>1. \A y \in Rest : y[2] # Of
      BY <1>1, <2>1 DEF Pops, Heads, Before
    <3> QED BY <1>2, <2>1, <3>1 DEF Removed, Waits, For, InList
  <2>5. KnownCas'
    BY <1>7, <2>1, <2>2, <2>3, ListedParts, CasAre DEF KnownCas
  <2>6. OpenCas'
    BY <1>0, <1>7, <2>1, <2>2, <2>3, ListedParts, CasAre DEF OpenCas, Happened
  <2>7. ForcedCa'
    <3> SUFFICES ASSUME ~Happened({"dangling"}), force # NoCa
                 PROVE  bound'[force] /\ Registered(force)'
      BY <1>0, <2>1 DEF ForcedCa, Happened
    <3>1. bound[force] /\ Registered(force) /\ force \in Cas
      BY ListedParts, CasAre DEF ForcedCa
    <3> QED BY <2>1, <2>2, <2>4, <3>1, CasAre
  <2> QED BY <1>6, <2>5, <2>6, <2>7, ListedParts
<1> QED BY <1>8, <1>9, <1>10

\* ca_open, and the list.
LEMMA ListedOpening ==
    ASSUME AgendaInv, Listed, [Next]_vars, OpenCi \/ Register \/ ListCa
    PROVE  Listed'
<1>0. mishaps \subseteq mishaps'
  BY MishapsGrow
<1>1. CASE OpenCi
  <2>1. Pops("open", {}) /\ opened' = [opened EXCEPT ![Of] = TRUE]
        /\ UNCHANGED <<force, listed, status, bound, given>>
    BY <1>1, OpenCiPops DEF OpenCi, manVars
  <2>2. Pending = {<<"open", Of>>} \cup Rest /\ Pending' = Rest /\ Of \in Cas
    BY <2>1, OfType DEF Pops, Heads, CaOps
  <2>3. \A y \in Rest : y[1] # "open"
    BY <2>1, RestBehind, BehindOf DEF Pops
  <2>4. \A z : z[1] # "open" => (z \in Pending' <=> z \in Pending)
    BY <2>2
  <2>5. CalledCas' /\ KnownCas' /\ ForcedTasks' /\ ForcedCa'
    <3>1. CalledCas' /\ KnownCas'
      BY <2>1, <2>2, ListedParts DEF CalledCas, KnownCas, InList
    <3>2. ForcedTasks' /\ ForcedCa'
      BY <1>0, <2>1, <2>2, ListedParts DEF ForcedTasks, ForcedCa, Happened, Registered
    <3> QED BY <3>1, <3>2
  <2>6. InList(Of)
    BY <2>2, ListedParts DEF CalledCas
  <2>7. OpenCas'
    <3>1. \A c \in Cas : <<"open", c>> \notin Pending'
      BY <2>2, <2>3
    <3>2. ~Happened({"matched"}) => <<"register", Of>> \in Pending
      BY <2>2, ListedParts DEF OpenCas
    <3>3. \A c \in Cas : /\ <<"register", c>> \in Pending => <<"register", c>> \in Pending'
                         /\ <<"closed", c>> \in Pending => <<"closed", c>> \in Pending'
      BY <2>4
    <3> QED BY <1>0, <2>1, <2>2, <2>6, <3>1, <3>2, <3>3, ListedParts, CasAre
            DEF OpenCas, Happened, InList
  <2> QED BY <2>5, <2>7, ListedParts
<1>2. CASE Register
  <2>1. Pops("register", {}) /\ status' = [status EXCEPT ![Of] = TRUE]
        /\ bound' = [bound EXCEPT ![Of] = TRUE] /\ UNCHANGED <<force, listed, opened, given>>
    BY <1>2, RegisterPops DEF Register, manVars
  <2>2. Pending = {<<"register", Of>>} /\ Pending' = {} /\ Of \in Cas
    BY <2>1, OfType, RestBehind, BehindOf DEF Pops, Heads, CaOps
  <2>3. CalledCas' /\ ForcedTasks'
    BY <2>2 DEF CalledCas, ForcedTasks
  <2>4. InList(Of)
    BY <2>2, ListedParts DEF CalledCas
  <2>5. KnownCas'
    BY <2>1, <2>2, <2>4, ListedParts, CasAre DEF KnownCas, InList
  <2>6. OpenCas'
    BY <1>0, <2>1, <2>2, <2>4, ListedParts, CasAre DEF OpenCas, Happened, InList
  <2>7. ForcedCa'
    BY <1>0, <2>1, <2>2, ListedParts, CasAre DEF ForcedCa, Happened, Registered
  <2> QED BY <2>3, <2>5, <2>6, <2>7, ListedParts
<1>3. CASE ListCa
  <2>1. Pops("list", {}) /\ listed' = [listed EXCEPT ![Of] = "man"]
        /\ UNCHANGED <<force, status, bound, opened, given>>
    BY <1>3, ListCaPops DEF ListCa, manVars
  <2>2. Pending = {<<"list", Of>>} /\ Pending' = {} /\ Of \in Cas
    BY <2>1, OfType, RestBehind, BehindOf DEF Pops, Heads, CaOps
  <2>3. CalledCas' /\ ForcedTasks'
    BY <2>2 DEF CalledCas, ForcedTasks
  <2>4. \A c \in Cas : InList(c) => InList(c)'
    BY <2>1, CasAre DEF InList
  <2>5. KnownCas'
    BY <2>1, <2>2, <2>4, ListedParts DEF KnownCas
  <2>6. OpenCas'
    BY <1>0, <2>1, <2>2, <2>4, ListedParts DEF OpenCas, Happened
  <2>7. ForcedCa'
    BY <1>0, <2>1, <2>2, <2>4, ListedParts, CasAre DEF ForcedCa, Happened
  <2> QED BY <2>3, <2>5, <2>6, <2>7, ListedParts
<1> QED BY <1>1, <1>2, <1>3

\* A CA that is forced is not looked for.
LEMMA HeadForced ==
    ASSUME ForcedTasks, NEW op \in {"arrange", "unmatch", "match", "collect"}, NEW x,
           <<op, x>> \in Pending
    PROVE  force = NoCa
<1> DEFINE y == <<op, x>>
<1>1. y \in Pending /\ y[1] = op
  OBVIOUS
<1> HIDE DEF y
<1> QED BY <1>1 DEF ForcedTasks

\* match_ca_auto.
LEMMA ListedMatching ==
    ASSUME AgendaInv, Listed, [Next]_vars, Arrange \/ Unmatch \/ Match \/ Collect
    PROVE  Listed'
<1>0. mishaps \subseteq mishaps'
  BY MishapsGrow
<1>1. CASE Arrange
  <2>1. PICK N : Pops("arrange", N) /\ N \subseteq ArrangeTasks(Of) \cup {<<"collect", "none">>}
    BY <1>1, ArrangePops
  <2>2. Pending = {<<"arrange", Of>>} \cup Rest /\ Pending' = N \cup Rest
    BY <2>1 DEF Pops, Heads
  <2>3. UNCHANGED <<force, listed, status, bound, opened, given>>
    BY <1>1 DEF Arrange, manVars, caVars
  <2>4. \A y \in Rest : y[1] \in {"give", "monitor", "from"}
    BY <2>1, RestBehind, BehindOf DEF Pops
  <2>5. \A x \in N : /\ x[1] \in {"enter", "unmatch", "match", "collect"}
                     /\ x[1] \in {"unmatch", "match"} => InList(x[2][1])
    BY <2>1 DEF ArrangeTasks, In, InList
  <2>6. force = NoCa
    BY <2>2, ListedParts, HeadForced
  <2>7. \A x \in Pending' : /\ x[1] \in {"enter", "unmatch", "match", "collect", "give", "monitor", "from"}
                            /\ x[1] \in {"unmatch", "match"} => InList(x[2][1])
    BY <2>2, <2>4, <2>5
  <2>8. CalledCas'
    BY <2>3, <2>7 DEF CalledCas, InList
  <2>9. ForcedTasks' /\ ForcedCa'
    BY <2>3, <2>6, <2>7 DEF ForcedTasks, ForcedCa
  <2>10. \A x \in Pending : x[1] \in {"arrange", "give", "monitor", "from"}
    BY <2>2, <2>4
  <2>11. KnownCas' /\ OpenCas'
    BY <1>0, <2>3, <2>7, <2>10, ListedParts DEF KnownCas, OpenCas, Happened, InList
  <2> QED BY <2>8, <2>9, <2>11, ListedParts
<1>2. CASE Unmatch
  <2>1. PICK N : Pops("unmatch", N) /\ N \subseteq {<<"enter", Ci>>, <<"stoppmt", Of[1]>>}
    BY <1>2, UnmatchPops
  <2>2. Pending = {<<"unmatch", Of>>} \cup Rest /\ Pending' = N \cup Rest
    BY <2>1 DEF Pops, Heads
  <2>3. UNCHANGED <<force, status, opened, given>>
        /\ \/ UNCHANGED <<listed, bound>>
           \/ listed' = [listed EXCEPT ![Of[1]] = "tmp"] /\ bound' = [bound EXCEPT ![Of[1]] = FALSE]
    BY <1>2 DEF Unmatch, manVars
  <2>4. force = NoCa
    BY <2>2, ListedParts, HeadForced
  <2>5. \A c \in Cas : InList(c) => InList(c)'
    BY <2>3, CasAre DEF InList
  <2>6. Of[1] \in Cas /\ Of = <<Of[1], Of[2]>> /\ Of[2] \in Systems
    BY <2>1, OfType DEF Pops
  <2>7. \A c \in Cas \ {Of[1]} : InList(c)' <=> InList(c)
    BY <2>3, <2>6, CasAre DEF InList
  <2>8. \A y \in Rest : y[1] \in {"enter", "unmatch", "match", "collect", "give", "monitor", "from"}
    BY <2>1, RestBehind, BehindOf DEF Pops
  <2>9. \A x \in N : x[1] \in {"enter", "stoppmt"}
    BY <2>1
  <2>10. \A x \in Pending : x[1] \in {"enter", "unmatch", "match", "collect", "give", "monitor", "from"}
    BY <2>2, <2>8
  <2>11. \A x \in Pending' : /\ x[1] \in {"enter", "unmatch", "match", "collect", "give", "monitor",
                                          "from", "stoppmt"}
                             /\ x[1] \in {"unmatch", "match"} => x \in Pending
    BY <2>2, <2>8, <2>9
  <2>12. CalledCas'
    BY <2>5, <2>11, ListedParts DEF CalledCas
  <2>13. ForcedTasks' /\ ForcedCa'
    BY <2>3, <2>4, <2>11 DEF ForcedTasks, ForcedCa
  <2>14. KnownCas' /\ OpenCas'
    BY <1>0, <2>3, <2>5, <2>10, <2>11, ListedParts DEF KnownCas, OpenCas, Happened
  <2> QED BY <2>12, <2>13, <2>14, ListedParts
<1>3. CASE Match
  <2>1. PICK N : /\ Pops("match", N)
                 /\ \/ N = {} /\ ~Matches(Of[1], Of[2])
                    \/ Matches(Of[1], Of[2]) /\ N \subseteq {<<"enter", Ci>>, <<"open", Of[1]>>}
    BY <1>3, MatchPops
  <2>2. Pending = {<<"match", Of>>} \cup Rest /\ Pending' = N \cup Rest
    BY <2>1 DEF Pops, Heads
  <2>3. UNCHANGED <<force, status, opened, given>>
        /\ listed' = [listed EXCEPT ![Of[1]] = IF Matches(Of[1], Of[2]) THEN "ts" ELSE listed[Of[1]]]
        /\ Mishap(Matches(Of[1], Of[2]), "matched")
    BY <1>3 DEF Match, manVars
  <2>4. force = NoCa
    BY <2>2, ListedParts, HeadForced
  <2>5. Of[1] \in Cas /\ Of = <<Of[1], Of[2]>> /\ Of[2] \in Systems
    BY <2>1, OfType DEF Pops
  <2>6. InList(Of[1])
    BY <2>2, <2>5, ListedParts DEF CalledCas
  <2>7. \A c \in Cas : InList(c)' <=> InList(c)
    BY <2>3, <2>5, <2>6, CasAre DEF InList
  <2>8. \A y \in Rest : y[1] \in {"enter", "unmatch", "match", "collect", "give", "monitor", "from"}
    BY <2>1, RestBehind, BehindOf DEF Pops
  <2>9. \A x \in N : x[1] \in {"enter", "open"} /\ (x[1] = "open" => x[2] = Of[1])
    BY <2>1
  <2>10. \A x \in Pending : x[1] \in {"enter", "unmatch", "match", "collect", "give", "monitor", "from"}
    BY <2>2, <2>8
  <2>11. \A x \in Pending' : /\ x[1] \in {"enter", "unmatch", "match", "collect", "give", "monitor",
                                          "from", "open"}
                             /\ x[1] = "open" => x[2] = Of[1]
                             /\ x[1] \in {"unmatch", "match"} => x \in Pending
    BY <2>2, <2>8, <2>9
  <2>12. CalledCas'
    BY <2>6, <2>7, <2>11, ListedParts DEF CalledCas
  <2>13. ForcedTasks' /\ ForcedCa'
    BY <2>3, <2>4, <2>11 DEF ForcedTasks, ForcedCa
  <2>14. KnownCas'
    BY <2>3, <2>7, <2>10, <2>11, ListedParts DEF KnownCas
  <2>15. OpenCas'
    <3>1. CASE Matches(Of[1], Of[2])
      BY <2>3, <3>1 DEF OpenCas, Happened, Mishap
    <3>2. CASE N = {}
      BY <1>0, <2>2, <2>3, <2>7, <2>10, <3>2, ListedParts DEF OpenCas, Happened
    <3> QED BY <2>1, <3>1, <3>2
  <2> QED BY <2>12, <2>13, <2>14, <2>15, ListedParts
<1>4. CASE Collect
  <2>1. Pops("collect", {}) /\ UNCHANGED <<force, listed, status, bound, opened, given>>
    BY <1>4, CollectPops DEF Collect, caVars, manVars
  <2>2. Pending = {<<"collect", Of>>} \cup Rest /\ Pending' = Rest
    BY <2>1 DEF Pops, Heads
  <2>3. CalledCas' /\ KnownCas' /\ OpenCas'
    BY <1>0, <2>1, <2>2, ListedParts DEF CalledCas, KnownCas, OpenCas, Happened, InList
  <2>4. ForcedTasks' /\ ForcedCa'
    BY <1>0, <2>1, <2>2, ListedParts DEF ForcedTasks, ForcedCa, Happened, Registered
  <2> QED BY <2>3, <2>4, ListedParts
<1> QED BY <1>1, <1>2, <1>3, <1>4

\* on_new_pmt.
LEMMA ListedGiving ==
    ASSUME AgendaInv, Listed, [Next]_vars, Give \/ StartPmt \/ StopPmt
    PROVE  Listed'
<1>0. mishaps \subseteq mishaps'
  BY MishapsGrow
<1>1. CASE Give
  <2>1. PICK N : Pops("give", N) /\ N \subseteq {<<"enter", Ci>>} \cup {<<"start", c>> : c \in In("ts")}
    BY <1>1, GivePops
  <2>2. Pending = {<<"give", Of>>} \cup Rest /\ Pending' = N \cup Rest
    BY <2>1 DEF Pops, Heads
  <2>3. UNCHANGED <<force, listed, status, bound, opened, given>>
    BY <1>1 DEF Give, manVars, caVars
  <2>4. \A y \in Rest : y[1] \in {"monitor", "from"}
    BY <2>1, RestBehind, BehindOf DEF Pops
  <2>5. \A x \in N : x[1] \in {"enter", "start"} /\ (x[1] = "start" => InList(x[2]))
    BY <2>1 DEF In, InList
  <2>6. \A x \in Pending' : /\ x[1] \in {"enter", "start", "monitor", "from"}
                            /\ x[1] = "start" => InList(x[2])
    BY <2>2, <2>4, <2>5
  <2>7. \A x \in Pending : x[1] \in {"give", "monitor", "from"}
    BY <2>2, <2>4
  <2>8. CalledCas'
    BY <2>3, <2>6 DEF CalledCas, InList
  <2>9. KnownCas' /\ OpenCas'
    BY <1>0, <2>3, <2>6, <2>7, ListedParts DEF KnownCas, OpenCas, Happened, InList
  <2>10. ForcedTasks' /\ ForcedCa'
    BY <1>0, <2>3, <2>6, ListedParts DEF ForcedTasks, ForcedCa, Happened, Registered
  <2> QED BY <2>8, <2>9, <2>10, ListedParts
<1>2. CASE StartPmt
  <2>1. Pops("start", {}) /\ UNCHANGED <<force, listed, status, bound, opened>>
        /\ \A c \in Cas : c # Of => given'[c] = given[c]
    BY <1>2, StartPmtPops, CasAre DEF StartPmt, manVars
  <2>2. Pending = {<<"start", Of>>} \cup Rest /\ Pending' = Rest /\ Of \in Cas
    BY <2>1, OfType DEF Pops, Heads, CaOps
  <2>3. InList(Of)
    BY <2>2, ListedParts DEF CalledCas
  <2>4. CalledCas' /\ OpenCas'
    BY <1>0, <2>1, <2>2, ListedParts DEF CalledCas, OpenCas, Happened, InList
  <2>5. KnownCas'
    BY <2>1, <2>2, <2>3, ListedParts DEF KnownCas, InList
  <2>6. ForcedTasks' /\ ForcedCa'
    BY <1>0, <2>1, <2>2, ListedParts DEF ForcedTasks, ForcedCa, Happened, Registered
  <2> QED BY <2>4, <2>5, <2>6, ListedParts
<1>3. CASE StopPmt
  <2>1. Pops("stoppmt", {}) /\ UNCHANGED <<force, listed, status, bound, opened>>
        /\ given' = [given EXCEPT ![Of] = NoPmt]
    BY <1>3, StopPmtPops DEF StopPmt, manVars
  <2>2. Pending = {<<"stoppmt", Of>>} \cup Rest /\ Pending' = Rest /\ Of \in Cas
    BY <2>1, OfType DEF Pops, Heads, CaOps
  <2>3. CalledCas' /\ OpenCas'
    BY <1>0, <2>1, <2>2, ListedParts DEF CalledCas, OpenCas, Happened, InList
  <2>4. KnownCas'
    BY <2>1, <2>2, CasAre, ListedParts DEF KnownCas, InList
  <2>5. ForcedTasks' /\ ForcedCa'
    BY <1>0, <2>1, <2>2, ListedParts DEF ForcedTasks, ForcedCa, Happened, Registered
  <2> QED BY <2>3, <2>4, <2>5, ListedParts
<1> QED BY <1>1, <1>2, <1>3

LEMMA ListedNewTable == ASSUME AgendaInv, Listed, [Next]_vars, NewTable PROVE Listed'
<1>0. mishaps \subseteq mishaps'
  BY MishapsGrow
<1>1. PICK N : /\ Pops("new", N)
               /\ \/ table[Of].monitor /\ Changed(Of) /\ N = NewTsTasks(Of)
                  \/ table[Of].monitor /\ ~Changed(Of) /\ N = {<<"monitor", Of>>}
                  \/ ~table[Of].monitor /\ \E M : FirstTime(M) /\ N = M \cup {<<"monitor", Of>>}
  BY NewTablePops
<1>2. Pending = {<<"new", Of>>} \cup Rest /\ Pending' = N \cup Rest
  BY <1>1 DEF Pops, Heads
<1>3. UNCHANGED <<force, listed, status, bound, opened, given>>
  BY DEF NewTable, manVars, caVars
<1>4. \A y \in Rest : y[1] = "from"
  BY <1>1, RestBehind, BehindOf DEF Pops
<1> DEFINE Ops == {"stop", "closets", "first", "handled", "monitor", "enter", "start", "arrange", "give"}
           Kept(S) == \A x \in S : /\ x[1] \in Ops
                                   /\ x[1] = "start" => InList(x[2])
                                   /\ x[1] = "arrange" => force = NoCa
<1>5. \A t : Kept(NewTsTasks(t)) /\ Kept({<<"monitor", t>>})
  BY DEF NewTsTasks, CloseTasks
<1>6. \A M : FirstTime(M) => Kept(M)
  BY DEF FirstTime, Registered, InList
<1>7. Kept(N)
  BY <1>1, <1>5, <1>6
<1>8. \A x \in Pending' : /\ x[1] \in Ops \cup {"from"}
                          /\ x[1] = "start" => InList(x[2])
                          /\ x[1] = "arrange" => force = NoCa
  BY <1>2, <1>4, <1>7
<1>9. \A x \in Pending : x[1] \in {"new", "from"}
  BY <1>2, <1>4
<1>10. CalledCas'
  BY <1>3, <1>8 DEF CalledCas, InList
<1>11. KnownCas' /\ OpenCas'
  BY <1>0, <1>3, <1>8, <1>9, ListedParts DEF KnownCas, OpenCas, Happened, InList
<1>12. ForcedTasks' /\ ForcedCa'
  BY <1>0, <1>3, <1>8, ListedParts DEF ForcedTasks, ForcedCa, Happened, Registered
<1> QED BY <1>10, <1>11, <1>12, ListedParts

\* The ends of AM_CAMAN_startService and AM_CAMAN_stopService.
LEMMA ListedService ==
    ASSUME AgendaInv, Listed, [Next]_vars, SetService \/ NoMoreService
    PROVE  Listed'
<1>0. mishaps \subseteq mishaps'
  BY MishapsGrow
<1>1. CASE SetService
  <2>1. Pops("service", {}) /\ force' = Of[2] /\ UNCHANGED <<listed, status, opened, given>>
        /\ bound' = [d \in Cas |-> d = Of[2] \/ (bound[d] /\ d # force)]
    BY <1>1, SetServicePops DEF SetService
  <2>2. Pending = {<<"service", Of>>} /\ Pending' = {} /\ Of[2] \in Cas \cup {NoCa}
    BY <2>1, OfType, RestBehind, BehindOf DEF Pops, Heads
  <2>3. Of[2] = NoCa \/ Registered(Of[2])
    <3> DEFINE y == <<"service", Of>>
    <3>1. y \in Pending /\ y[1] = "service" /\ y[2] = Of
      BY <2>2
    <3> HIDE DEF y
    <3> QED BY <3>1, ListedParts DEF ForcedTasks
  <2>4. CalledCas' /\ KnownCas' /\ OpenCas' /\ ForcedTasks'
    BY <1>0, <2>1, <2>2, ListedParts
       DEF CalledCas, KnownCas, OpenCas, ForcedTasks, Happened, InList
  <2>5. ForcedCa'
    BY <2>1, <2>2, <2>3 DEF ForcedCa, Registered
  <2> QED BY <2>4, <2>5, ListedParts
<1>2. CASE NoMoreService
  <2>1. Pops("noservice", {}) /\ force' = NoCa /\ UNCHANGED <<listed, status, opened, given>>
    BY <1>2, NoMoreServicePops DEF NoMoreService
  <2>2. Pending = {<<"noservice", Of>>} /\ Pending' = {}
    BY <2>1, OfType, RestBehind, BehindOf DEF Pops, Heads
  <2>3. CalledCas' /\ KnownCas' /\ OpenCas' /\ ForcedTasks' /\ ForcedCa'
    BY <1>0, <2>1, <2>2, ListedParts
       DEF CalledCas, KnownCas, OpenCas, ForcedTasks, ForcedCa, Happened, InList
  <2> QED BY <2>3, ListedParts
<1> QED BY <1>1, <1>2

\* The calls, and the end of AM_CAMAN_Close.
LEMMA ListedCalls ==
    ASSUME AgendaInv, Listed, [Next]_vars,
           \/ \E c \in Cas : RegisterCA(c) \/ UnregisterCA(c) \/ OpenCA(c) \/ CloseCA(c)
           \/ \E s \in Services, c \in Cas \cup {NoCa} : StartService(s, c)
           \/ Joined
    PROVE  Listed'
<1>0. mishaps \subseteq mishaps'
  BY MishapsGrow
<1> DEFINE Frame == UNCHANGED <<force, listed, status, bound, opened, given>>
           Quiets(N) == \A x \in N : x[1] \in RemoveOps
<1>1. \A N : Frame /\ Starts(N) /\ Quiets(N) => Listed'
  <2> TAKE N
  <2> HAVE Frame /\ Starts(N) /\ Quiets(N)
  <2>1. Pending = {} /\ Pending' = N
    BY DEF Starts, Idle
  <2>2. \A x \in Pending' : x[1] \in RemoveOps
    BY <2>1
  <2>3. CalledCas' /\ KnownCas' /\ OpenCas'
    BY <1>0, <2>1, <2>2, ListedParts DEF CalledCas, KnownCas, OpenCas, Happened, InList, RemoveOps
  <2>4. ForcedTasks' /\ ForcedCa'
    BY <1>0, <2>1, <2>2, ListedParts
       DEF ForcedTasks, ForcedCa, Happened, Registered, RemoveOps
  <2> QED BY <2>3, <2>4, ListedParts
<1>2. ASSUME NEW c \in Cas, UnregisterCA(c) PROVE Listed'
  <2>1. PICK s : Starts(Range(s)) /\ Removals(s, {c})
    BY <1>2, UnregisterCAStarts
  <2>2. Frame
    BY <1>2 DEF UnregisterCA, AppCall, AnyCall, manVars, caVars
  <2>3. Quiets(Range(s))
    BY <2>1 DEF Removals, Good
  <2> QED BY <1>1, <2>1, <2>2, <2>3
<1>3. ASSUME NEW c \in Cas, CloseCA(c) PROVE Listed'
  <2>1. PICK N : Starts(N) /\ N \subseteq ClosingTasks(c)
    BY <1>3, CloseCAStarts
  <2>2. Frame
    BY <1>3 DEF CloseCA, AppCall, AnyCall, manVars, caVars
  <2>3. Quiets(N)
    BY <2>1 DEF ClosingTasks, RemoveOps
  <2> QED BY <1>1, <2>1, <2>2, <2>3
<1>4. CASE Joined
  <2>1. PICK s : Starts(Range(s)) /\ Removals(s, Cas)
    BY <1>4, JoinedStarts
  <2>2. Frame
    BY <1>4 DEF Joined, manVars, caVars
  <2>3. Quiets(Range(s))
    BY <2>1 DEF Removals, Good
  <2> QED BY <1>1, <2>1, <2>2, <2>3
<1>5. ASSUME NEW c \in Cas, RegisterCA(c) PROVE Listed'
  <2>1. Frame /\ ~Registered(c)
    BY <1>5 DEF RegisterCA, AppCall, AnyCall, manVars, caVars
  <2>2. Pending = {} /\ Pending' = {<<"list", c>>}
    BY <1>5, RegisterCAStarts DEF Starts, Idle
  <2>3. CalledCas' /\ KnownCas' /\ OpenCas'
    BY <1>0, <2>1, <2>2, ListedParts, CasAre DEF CalledCas, KnownCas, OpenCas, Happened, InList
  <2>4. ForcedTasks' /\ ForcedCa'
    BY <1>0, <2>1, <2>2, ListedParts DEF ForcedTasks, ForcedCa, Happened, Registered
  <2> QED BY <2>3, <2>4, ListedParts
<1>6. ASSUME NEW c \in Cas, OpenCA(c) PROVE Listed'
  <2>1. Frame /\ Registered(c) /\ ~status[c]
    BY <1>6 DEF OpenCA, AppCall, AnyCall, manVars, caVars
  <2>2. PICK N : /\ Starts(N) /\ N \subseteq {<<"enter", Ci>>, <<"open", c>>, <<"register", c>>}
                 /\ <<"open", c>> \in N /\ <<"register", c>> \in N
    BY <1>6, OpenCAStarts
  <2>3. Pending = {} /\ Pending' = N
    BY <2>2 DEF Starts, Idle
  <2>4. CalledCas' /\ KnownCas'
    BY <2>1, <2>2, <2>3, ListedParts, CasAre DEF CalledCas, KnownCas, InList
  <2>5. OpenCas'
    BY <1>0, <2>1, <2>2, <2>3, ListedParts, CasAre DEF OpenCas, Happened, InList
  <2>6. ForcedTasks' /\ ForcedCa'
    BY <1>0, <2>1, <2>2, <2>3, ListedParts DEF ForcedTasks, ForcedCa, Happened, Registered
  <2> QED BY <2>4, <2>5, <2>6, ListedParts
<1>7. ASSUME NEW i \in Services, NEW c \in Cas \cup {NoCa}, StartService(i, c) PROVE Listed'
  <2>1. Frame /\ (c = NoCa \/ Registered(c))
    BY <1>7 DEF StartService, AppCall, AnyCall, manVars, caVars
  <2>2. PICK N : /\ Starts(N)
                 /\ N \subseteq {<<"enter", Ci>>, <<"stoppmt", force>>, <<"service", <<i, c>>>>}
    BY <1>7, StartServiceStarts
  <2>3. Pending = {} /\ Pending' = N
    BY <2>2 DEF Starts, Idle
  <2>4. \A x \in Pending' : /\ x[1] \in {"enter", "stoppmt", "service"}
                            /\ x[1] = "service" => x[2][2] = c
    BY <2>2, <2>3
  <2>5. CalledCas' /\ KnownCas' /\ OpenCas'
    BY <1>0, <2>1, <2>3, <2>4, ListedParts, CasAre DEF CalledCas, KnownCas, OpenCas, Happened, InList
  <2>6. ForcedTasks' /\ ForcedCa'
    BY <1>0, <2>1, <2>3, <2>4, ListedParts DEF ForcedTasks, ForcedCa, Happened, Registered
  <2> QED BY <2>5, <2>6, ListedParts
<1> QED BY <1>2, <1>3, <1>4, <1>5, <1>6, <1>7

\* The CAs that are called are registered, those that are open or told a service are known.
LEMMA ListedNext == ASSUME AgendaInv, Removed, Listed, [Next]_vars PROVE Listed'
<1>1. CASE UNCHANGED vars
  <2>1. Apart(ListedOps) /\ UNCHANGED <<force, listed, status, bound, opened, given, mishaps>>
    BY <1>1, ApartSame DEF vars, workVars, manVars, caVars
  <2> QED BY <2>1, ListedFrame
<1>2. CASE Work
  BY <1>2, ListedElse, ListedRemoval, ListedOpening, ListedMatching, ListedGiving, ListedNewTable,
     ListedService DEF Work, Handling, CallingCas, Ending
<1>3. CASE Calls
  BY <1>3, ListedElse, ListedCalls DEF Calls
<1>4. CASE Joined \/ MonTop \/ MonLock \/ MonWake \/ Section \/ Cam \/ FendEvent
           \/ \E t \in Tables : Change(t)
  BY <1>4, ListedElse, ListedCalls
<1> QED BY <1>1, <1>2, <1>3, <1>4 DEF Next

-----------------------------------------------------------------------------
(* The thread that polls the CAM.                                            *)

CiType == [started : BOOLEAN, quit : BOOLEAN, called : BOOLEAN, info : BOOLEAN,
           send : BOOLEAN, enabled : BOOLEAN, pmt : BOOLEAN, freed : BOOLEAN]

LEMMA CiIs == ASSUME AgendaInv PROVE ci \in CiType
BY DEF AgendaInv, TypeOK, CiType

PolledCam == /\ cam # "none" => ci.started
             /\ ci.started /\ ~ci.quit => cam # "none"
PolledCi == /\ ci.started => status[Ci] \/ <<"register", Ci>> \in Pending
            /\ <<"open", Ci>> \in Pending => <<"register", Ci>> \in Pending \/ status[Ci]
            /\ ci.freed => ~InList(Ci) /\ ~ci.started
PolledQuit == ~Happened({"reopened"}) /\ ci.started /\ ci.quit => <<"closed", Ci>> \in Pending
PolledOpen ==
    ~Happened({"matched", "reopened", "nocam"}) =>
        /\ status[Ci] => \/ <<"closed", Ci>> \in Pending
                         \/ ci.started /\ ~ci.quit /\ ci.called /\ ci.send /\ ci.enabled
        /\ <<"register", Ci>> \in Pending /\ <<"open", Ci>> \notin Pending =>
              ci.started /\ ~ci.quit /\ ci.called

LEMMA PolledParts ==
    /\ Polled <=> PolledCam /\ PolledCi /\ PolledQuit /\ PolledOpen
    /\ Polled' <=> PolledCam' /\ PolledCi' /\ PolledQuit' /\ PolledOpen'
BY DEF Polled, PolledCam, PolledCi, PolledQuit, PolledOpen, InList, Waits, For

PolledOps == {"open", "register", "closed"}

\* The same function, of the CI and its CA.
SameCi ==
    /\ ci'.started = ci.started /\ ci'.quit = ci.quit /\ ci'.called = ci.called
    /\ ci'.send = ci.send /\ ci'.enabled = ci.enabled /\ ci'.freed = ci.freed
    /\ cam' = "none" <=> cam = "none"
    /\ status'[Ci] = status[Ci] /\ (InList(Ci)' <=> InList(Ci))
    /\ mishaps \subseteq mishaps'

LEMMA PolledFrame ==
    ASSUME Polled, Apart(PolledOps), SameCi
    PROVE  Polled'
<1>1. \A op \in PolledOps : <<op, Ci>> \in Pending' <=> <<op, Ci>> \in Pending
  BY ApartKeeps
<1> QED BY <1>1, PolledParts DEF PolledCam, PolledCi, PolledQuit, PolledOpen, SameCi, PolledOps, Happened

\* A step that leaves the CI and the lists as they are.
LEMMA PolledSame ==
    ASSUME Polled, Apart(PolledOps), UNCHANGED <<ci, cam, status, listed>>, [Next]_vars
    PROVE  Polled'
<1>1. SameCi
  BY MishapsGrow DEF SameCi, InList
<1> QED BY <1>1, PolledFrame

LEMMA PolledElse ==
    ASSUME AgendaInv, Polled, [Next]_vars,
           \/ Tabling \/ Handling
           \/ Enter \/ Arrange \/ Collect \/ Give \/ StopPmt \/ Receive \/ TakeMsg \/ SetPause \/ Quit
           \/ SetService \/ NoMoreService
           \/ MonTop \/ MonLock \/ MonWake \/ Section \/ FendEvent
           \/ \E t \in Tables : Change(t)
           \/ \E c \in Cas : RegisterCA(c) \/ StopCA(c) \/ PutMsg(c) \/ GetMsg(c)
           \/ \E s \in Services, c \in Cas \cup {NoCa} : StartService(s, c)
           \/ StopService \/ Pause \/ Resume \/ Close
    PROVE  Polled'
<1>1. CASE Tabling \/ Handling
  <2>1. Apart(PolledOps)
    BY <1>1, WorkBeyond, ReturnsBeyond DEF Apart, PolledOps, Tabling, Handling
  <2>2. UNCHANGED <<ci, cam, status, listed>>
    BY <1>1 DEF Tabling, StopTable, Synced, CloseTables, StartTable, RunTable, TimeOut, Handling,
       Look, NewTable, MonitorTable, Handled, caVars, ciVars
  <2> QED BY <2>1, <2>2, PolledSame
<1>2. CASE \/ Enter \/ Arrange \/ Collect \/ Give \/ StopPmt \/ Receive \/ TakeMsg \/ SetPause \/ Quit
           \/ SetService \/ NoMoreService
  <2>1. Apart(PolledOps)
    BY <1>2, WorkBeyond, ReturnsBeyond DEF Apart, PolledOps
  <2>2. UNCHANGED <<ci, cam, status, listed>>
    BY <1>2 DEF Enter, Arrange, Collect, Give, StopPmt, Receive, TakeMsg, SetPause, Quit,
       SetService, NoMoreService, caVars, ciVars
  <2> QED BY <2>1, <2>2, PolledSame
<1>3. CASE \/ MonTop \/ MonLock \/ MonWake \/ Section \/ FendEvent
           \/ \E t \in Tables : Change(t)
  <2>1. Apart(PolledOps)
    BY <1>3, OthersBeyond DEF Apart, PolledOps
  <2>2. UNCHANGED <<ci, cam, status, listed>>
    BY <1>3 DEF MonTop, MonLock, MonWake, Section, Capture, SectionDecodes, SectionEnds, FendEvent,
       Change, caVars, ciVars
  <2> QED BY <2>1, <2>2, PolledSame
<1>4. CASE \/ \E c \in Cas : RegisterCA(c) \/ StopCA(c) \/ PutMsg(c) \/ GetMsg(c)
           \/ \E s \in Services, c \in Cas \cup {NoCa} : StartService(s, c)
           \/ StopService \/ Pause \/ Resume \/ Close
  <2>1. Apart(PolledOps)
    BY <1>4, CallsBeyond, OthersBeyond DEF Apart, PolledOps
  <2>2. UNCHANGED <<ci, cam, status, listed>>
    BY <1>4 DEF RegisterCA, StopCA, PutMsg, GetMsg, AppCall, AnyCall, StartService, StopService,
       Pause, Resume, Close, caVars, ciVars
  <2> QED BY <2>1, <2>2, PolledSame
<1> QED BY <1>1, <1>2, <1>3, <1>4

\* ci_camthread, and ca_ci_startpmt.
LEMMA PolledCams ==
    ASSUME AgendaInv, Polled, [Next]_vars, Cam \/ StartPmt
    PROVE  Polled'
<1>1. ci \in CiType /\ mishaps \subseteq mishaps'
  BY CiIs, MishapsGrow
<1>2. CASE CamPolls /\ cam' = "none"
  <2>1. Apart(PolledOps) /\ ci.quit /\ UNCHANGED <<ci, status, listed>>
    BY <1>2, OthersBeyond DEF Apart, PolledOps, Cam, CamPolls, caVars
  <2>2. \A op \in PolledOps : <<op, Ci>> \in Pending' <=> <<op, Ci>> \in Pending
    BY <2>1, ApartKeeps
  <2> QED BY <1>1, <1>2, <2>1, <2>2, PolledParts
          DEF PolledCam, PolledCi, PolledQuit, PolledOpen, PolledOps, Happened, InList
<1>3. CASE (CamPolls /\ cam' # "none") \/ CamInfo \/ CamSends \/ CamAdds
  <2>1. Apart(PolledOps)
    BY <1>3, OthersBeyond DEF Apart, PolledOps, Cam
  <2>2. SameCi
    BY <1>1, <1>3 DEF CamPolls, CamInfo, CamSends, CamAdds, SameCi, CiType, InList, caVars
  <2> QED BY <2>1, <2>2, PolledFrame
<1>4. CASE StartPmt
  <2>1. Apart(PolledOps)
    BY <1>4, ReturnsBeyond DEF Apart, PolledOps
  <2>2. SameCi
    BY <1>1, <1>4 DEF StartPmt, SameCi, CiType, InList
  <2> QED BY <2>1, <2>2, PolledFrame
<1> QED BY <1>2, <1>3, <1>4 DEF Cam

\* match_ca_auto: a CA it drops was in the list and still is in one; one it opens is a mishap.
LEMMA PolledMatching ==
    ASSUME AgendaInv, Listed, Polled, [Next]_vars, Unmatch \/ Match
    PROVE  Polled'
<1>0. mishaps \subseteq mishaps'
  BY MishapsGrow
<1>1. CASE Unmatch
  <2>1. Apart(PolledOps)
    BY <1>1, WorkBeyond DEF Apart, PolledOps
  <2>2. Heads("unmatch")
    BY <1>1, HeadTask DEF Unmatch
  <2>3. Of[1] \in Cas /\ Of = <<Of[1], Of[2]>> /\ Of[2] \in Systems /\ <<"unmatch", Of>> \in Pending
    BY <2>2, OfType DEF Heads
  <2>4. InList(Of[1])
    BY <2>3, ListedParts DEF CalledCas
  <2>5. UNCHANGED <<ci, cam, status>>
        /\ (UNCHANGED listed \/ listed' = [listed EXCEPT ![Of[1]] = "tmp"])
    BY <1>1 DEF Unmatch
  <2>6. SameCi
    BY <1>0, <2>3, <2>4, <2>5, CasAre DEF SameCi, InList
  <2> QED BY <2>1, <2>6, PolledFrame
<1>2. CASE Match
  <2>1. PICK N : /\ Pops("match", N)
                 /\ \/ N = {} /\ ~Matches(Of[1], Of[2])
                    \/ Matches(Of[1], Of[2]) /\ N \subseteq {<<"enter", Ci>>, <<"open", Of[1]>>}
    BY <1>2, MatchPops
  <2>2. Pending = {<<"match", Of>>} \cup Rest /\ Pending' = N \cup Rest
    BY <2>1 DEF Pops, Heads
  <2>3. UNCHANGED <<ci, cam, status>>
        /\ listed' = [listed EXCEPT ![Of[1]] = IF Matches(Of[1], Of[2]) THEN "ts" ELSE listed[Of[1]]]
        /\ Mishap(Matches(Of[1], Of[2]), "matched")
    BY <1>2 DEF Match
  <2>4. Of[1] \in Cas /\ Of = <<Of[1], Of[2]>> /\ Of[2] \in Systems
    BY <2>1, OfType DEF Pops
  <2>5. InList(Of[1])
    BY <2>2, <2>4, ListedParts DEF CalledCas
  <2>6. SameCi
    BY <1>0, <2>3, <2>4, <2>5, CasAre DEF SameCi, InList
  <2>7. CASE N = {}
    BY <2>2, <2>6, <2>7, PolledParts DEF PolledCam, PolledCi, PolledQuit, PolledOpen, SameCi, Happened
  <2>8. CASE Matches(Of[1], Of[2]) /\ N \subseteq {<<"enter", Ci>>, <<"open", Of[1]>>}
    <3>1. \A y \in Rest : y[1] \in {"enter", "unmatch", "match", "collect", "give", "monitor", "from"}
      BY <2>1, RestBehind, BehindOf DEF Pops
    <3>2. Of[1] = Ci => ci.started
      BY <2>8 DEF Matches
    <3>3. <<"register", Ci>> \notin Pending /\ <<"register", Ci>> \notin Pending'
          /\ <<"open", Ci>> \notin Pending /\ (<<"open", Ci>> \in Pending' => Of[1] = Ci)
          /\ (<<"closed", Ci>> \in Pending' <=> <<"closed", Ci>> \in Pending)
      BY <2>2, <2>8, <3>1
    <3>4. "matched" \in mishaps'
      BY <2>3, <2>8 DEF Mishap
    <3> QED BY <2>6, <3>2, <3>3, <3>4, PolledParts
            DEF PolledCam, PolledCi, PolledQuit, PolledOpen, SameCi, Happened
  <2> QED BY <2>1, <2>7, <2>8
<1> QED BY <1>1, <1>2

\* ca_open of ca_ci.c.
LEMMA PolledOpenCi == ASSUME AgendaInv, Listed, Polled, [Next]_vars, OpenCi PROVE Polled'
<1>0. mishaps \subseteq mishaps' /\ ci \in CiType
  BY MishapsGrow, CiIs
<1>1. Pops("open", {}) /\ UNCHANGED <<status, listed>>
  BY OpenCiPops DEF OpenCi
<1>2. Pending = {<<"open", Of>>} \cup Rest /\ Pending' = Rest /\ Of \in Cas
  BY <1>1, OfType DEF Pops, Heads, CaOps
<1>3. \A y \in Rest : y[1] \in {"enter", "unmatch", "match", "collect", "give", "monitor", "from", "register"}
  BY <1>1, RestBehind, BehindOf DEF Pops
<1>4. CASE Of # Ci
  <2>1. SameCi
    BY <1>0, <1>1, <1>4 DEF SameCi, OpenCi, InList
  <2>2. \A op \in PolledOps : <<op, Ci>> \in Pending' <=> <<op, Ci>> \in Pending
    BY <1>2, <1>4
  <2> QED BY <2>1, <2>2, PolledParts
          DEF PolledCam, PolledCi, PolledQuit, PolledOpen, SameCi, PolledOps, Happened
<1>5. CASE Of = Ci
  <2>1. PICK works \in BOOLEAN :
          LET begins == works /\ ~ci.started IN
          /\ ci' = [ci EXCEPT !.send = FALSE, !.called = TRUE, !.started = @ \/ works,
                              !.info = @ /\ ~begins]
          /\ cam' = IF begins /\ ~ci.quit THEN "poll" ELSE cam
          /\ Mishap(~ci.started /\ (~works \/ ci.quit), IF works THEN "reopened" ELSE "nocam")
    BY <1>5 DEF OpenCi
  <2>2. /\ ci'.started = (ci.started \/ works) /\ ci'.quit = ci.quit /\ ci'.called
        /\ ci'.freed = ci.freed
    BY <1>0, <2>1 DEF CiType
  <2>3. <<"closed", Ci>> \notin Pending /\ <<"open", Ci>> \in Pending /\ <<"open", Ci>> \notin Pending'
        /\ (<<"register", Ci>> \in Pending <=> <<"register", Ci>> \in Pending')
    BY <1>2, <1>3, <1>5
  <2>4. InList(Ci) /\ ~ci.freed
    BY <1>2, <2>3, <1>5, ListedParts, PolledParts DEF CalledCas, PolledCi
  <2>5. ~ci.started /\ ~works => "nocam" \in mishaps'
    BY <2>1 DEF Mishap
  <2>6. ~ci.started /\ works /\ ci.quit => "reopened" \in mishaps'
    BY <2>1 DEF Mishap
  <2>7. PolledCam'
    BY <2>1, <2>2, PolledParts DEF PolledCam
  <2>8. PolledCi'
    BY <1>1, <2>2, <2>3, <2>4, PolledParts DEF PolledCi
  <2>9. PolledQuit'
    BY <1>0, <2>2, <2>3, <2>6, PolledParts DEF PolledQuit, Happened
  <2>10. PolledOpen'
    <3>1. "matched" \in mishaps \/ ~status[Ci]
      BY <2>3, ListedParts, CasAre DEF OpenCas, Happened
    <3> QED BY <1>0, <1>1, <2>2, <2>3, <2>5, <2>6, <3>1, PolledParts DEF PolledOpen, PolledQuit, Happened
  <2> QED BY <2>7, <2>8, <2>9, <2>10, PolledParts
<1> QED BY <1>4, <1>5

\* The rest of ca_open.
LEMMA PolledRegister == ASSUME AgendaInv, Listed, Polled, [Next]_vars, Register PROVE Polled'
<1>0. mishaps \subseteq mishaps' /\ ci \in CiType
  BY MishapsGrow, CiIs
<1>1. Pops("register", {}) /\ status' = [status EXCEPT ![Of] = TRUE] /\ UNCHANGED <<listed, cam>>
      /\ ci' = IF Of = Ci THEN [ci EXCEPT !.send = TRUE, !.enabled = TRUE] ELSE ci
  BY RegisterPops DEF Register
<1>2. Pending = {<<"register", Of>>} /\ Pending' = {} /\ Of \in Cas
  BY <1>1, OfType, RestBehind, BehindOf DEF Pops, Heads, CaOps
<1>3. InList(Of)
  BY <1>2, ListedParts DEF CalledCas
<1>4. /\ ci'.started = ci.started /\ ci'.quit = ci.quit /\ ci'.called = ci.called
      /\ ci'.freed = ci.freed /\ (Of = Ci => ci'.send /\ ci'.enabled) /\ (Of # Ci => ci' = ci)
  BY <1>0, <1>1 DEF CiType
<1>5. PolledCam' /\ PolledQuit'
  BY <1>0, <1>1, <1>2, <1>4, PolledParts DEF PolledCam, PolledQuit, Happened
<1>6. status'[Ci] = (status[Ci] \/ Of = Ci)
  BY <1>1, <1>2, CasAre
<1>7. PolledCi'
  BY <1>1, <1>2, <1>4, <1>6, PolledParts DEF PolledCi, InList
<1>8. PolledOpen'
  BY <1>0, <1>2, <1>4, <1>6, PolledParts DEF PolledOpen, PolledQuit, Happened
<1> QED BY <1>5, <1>7, <1>8, PolledParts

\* ca_close: while it lasts the CA has still to be closed.
LEMMA PolledClosing ==
    ASSUME AgendaInv, Removed, Polled, [Next]_vars, Disable \/ Uncall \/ StopCi
    PROVE  Polled'
<1>0. mishaps \subseteq mishaps' /\ ci \in CiType
  BY MishapsGrow, CiIs
<1>1. PICK op \in {"disable", "uncall", "stopci"} : Pops(op, {}) /\ At(op)
  BY DisablePops, UncallPops, StopCiPops DEF Disable, Uncall, StopCi
<1>2. Pending = {<<op, Of>>} \cup Rest /\ Pending' = Rest /\ Of \in Cas
  BY <1>1, OfType DEF Pops, Heads, CaOps
<1>3. \A y \in Rest : y[1] \in RemoveOps
  BY <1>1, RestBehind, BehindOf DEF Pops, RemoveOps
<1>4. <<"register", Ci>> \notin Pending /\ <<"register", Ci>> \notin Pending'
      /\ <<"open", Ci>> \notin Pending /\ <<"open", Ci>> \notin Pending'
      /\ (<<"closed", Ci>> \in Pending' <=> <<"closed", Ci>> \in Pending)
  BY <1>2, <1>3 DEF RemoveOps
<1>5. UNCHANGED <<status, listed, cam, mishaps>>
      /\ ci'.started = ci.started /\ ci'.freed = ci.freed /\ (ci'.quit # ci.quit => StopCi /\ ci.started)
      /\ (ci.quit => ci'.quit)
  BY <1>0 DEF Disable, Uncall, StopCi, caVars, CiType
<1>6. ci' = ci \/ <<"closed", Ci>> \in Pending
  <2>1. Waits("closed", Of)
    BY <1>1, <1>2 DEF Removed, Waits, For
  <2>2. op \in {"uncall", "stopci"} => Of = Ci
    BY <1>1, <1>2 DEF Removed, Waits, For
  <2>3. op = "disable" /\ Of # Ci => ci' = ci
    BY <1>1 DEF At, Disable, Uncall, StopCi
  <2> QED BY <1>2, <2>1, <2>2, <2>3 DEF Waits, For
<1>7. PolledCam' /\ PolledCi'
  BY <1>4, <1>5, PolledParts DEF PolledCam, PolledCi, InList
<1>8. PolledQuit' /\ PolledOpen'
  BY <1>4, <1>5, <1>6, PolledParts DEF PolledQuit, PolledOpen, Happened
<1> QED BY <1>7, <1>8, PolledParts

LEMMA PolledRemoval ==
    ASSUME AgendaInv, Removed, Polled, [Next]_vars, CloseCa \/ Unlist \/ Destroy
    PROVE  Polled'
<1>0. mishaps \subseteq mishaps' /\ ci \in CiType
  BY MishapsGrow, CiIs
<1>1. PICK op \in {"closed", "unlist", "destroy"} : Pops(op, {}) /\ At(op)
  BY CloseCaPops, UnlistPops, DestroyPops DEF CloseCa, Unlist, Destroy
<1>2. Pending = {<<op, Of>>} \cup Rest /\ Pending' = Rest /\ Of \in Cas
  BY <1>1, OfType DEF Pops, Heads, CaOps
<1>3. \A y \in Rest : y[1] \in RemoveOps
  BY <1>1, RestBehind, BehindOf DEF Pops, RemoveOps
<1>4. <<"register", Ci>> \notin Pending /\ <<"register", Ci>> \notin Pending'
      /\ <<"open", Ci>> \notin Pending /\ <<"open", Ci>> \notin Pending'
      /\ (op # "closed" \/ Of # Ci => (<<"closed", Ci>> \in Pending' <=> <<"closed", Ci>> \in Pending))
  BY <1>1, <1>2, <1>3 DEF RemoveOps
<1>5. CASE CloseCa
  <2>1. UNCHANGED <<listed, cam>> /\ status' = [status EXCEPT ![Of] = FALSE]
        /\ (Of = Ci => cam = "none" /\ ci' = [ci EXCEPT !.started = FALSE, !.info = FALSE])
        /\ (Of # Ci => ci' = ci)
    BY <1>5 DEF CloseCa
  <2>2. CASE Of = Ci
    <3>1. ~ci'.started /\ ci'.freed = ci.freed /\ ~status'[Ci]
      BY <1>0, <1>2, <2>1, <2>2, CasAre DEF CiType
    <3> QED BY <1>4, <2>1, <2>2, <3>1, PolledParts
            DEF PolledCam, PolledCi, PolledQuit, PolledOpen, InList, Happened
  <2>3. CASE Of # Ci
    <3>1. SameCi
      BY <1>0, <1>2, <2>1, <2>3, CasAre DEF SameCi, InList
    <3> QED BY <1>4, <2>3, <3>1, PolledParts
            DEF PolledCam, PolledCi, PolledQuit, PolledOpen, SameCi, Happened
  <2> QED BY <2>2, <2>3
<1>6. CASE Unlist
  <2>1. listed' = [listed EXCEPT ![Of] = "none"] /\ UNCHANGED <<status, ci, cam>>
    BY <1>6 DEF Unlist, ciVars
  <2>2. InList(Ci)' => InList(Ci)
    BY <1>2, <2>1, CasAre DEF InList
  <2>3. <<"closed", Ci>> \in Pending' <=> <<"closed", Ci>> \in Pending
    BY <1>1, <1>4, <1>6 DEF Unlist, At
  <2> QED BY <1>0, <1>4, <2>1, <2>2, <2>3, PolledParts
          DEF PolledCam, PolledCi, PolledQuit, PolledOpen, Happened
<1>7. CASE Destroy
  <2>1. UNCHANGED <<status, listed, cam>> /\ op = "destroy"
        /\ ci' = IF Of = Ci THEN [ci EXCEPT !.pmt = FALSE, !.freed = TRUE] ELSE ci
    BY <1>1, <1>7 DEF Destroy, At
  <2>2. CASE Of # Ci
    <3>1. SameCi
      BY <1>0, <2>1, <2>2 DEF SameCi, InList
    <3> QED BY <1>4, <2>2, <3>1, PolledParts
            DEF PolledCam, PolledCi, PolledQuit, PolledOpen, SameCi, Happened
  <2>3. CASE Of = Ci
    <3>1. \A y \in Rest : y[2] # Ci
      BY <1>1, <2>1, <2>3 DEF Pops, Heads, Before
    <3>2. <<"closed", Ci>> \notin Pending /\ <<"unlist", Ci>> \notin Pending
      BY <1>2, <2>1, <3>1
    <3>3. ~status[Ci] /\ ~InList(Ci)
      BY <1>2, <2>1, <2>3, <3>2, CasAre DEF Removed, Waits, For, InList
    <3>4. ~ci.started
      BY <1>4, <3>3, PolledParts DEF PolledCi
    <3>5. /\ ci'.started = ci.started /\ ci'.quit = ci.quit
      BY <1>0, <2>1, <2>3 DEF CiType
    <3> QED BY <1>4, <2>1, <3>3, <3>4, <3>5, PolledParts
            DEF PolledCam, PolledCi, PolledQuit, PolledOpen, InList, Happened
  <2> QED BY <2>2, <2>3
<1> QED BY <1>5, <1>6, <1>7

\* AM_CAMAN_registerCA.
LEMMA PolledList == ASSUME AgendaInv, Listed, Polled, [Next]_vars, ListCa PROVE Polled'
<1>0. mishaps \subseteq mishaps' /\ ci \in CiType
  BY MishapsGrow, CiIs
<1>1. Pops("list", {}) /\ listed' = [listed EXCEPT ![Of] = "man"] /\ UNCHANGED <<status, cam>>
      /\ ci' = IF Of = Ci THEN [ci EXCEPT !.send = FALSE, !.enabled = FALSE, !.freed = FALSE] ELSE ci
  BY ListCaPops DEF ListCa
<1>2. Pending = {<<"list", Of>>} /\ Pending' = {} /\ Of \in Cas
  BY <1>1, OfType, RestBehind, BehindOf DEF Pops, Heads, CaOps
<1>3. CASE Of # Ci
  <2>1. SameCi
    BY <1>0, <1>1, <1>2, <1>3, CasAre DEF SameCi, InList
  <2> QED BY <1>2, <2>1, PolledParts DEF PolledCam, PolledCi, PolledQuit, PolledOpen, SameCi, Happened
<1>4. CASE Of = Ci
  <2>1. ~status[Ci]
    BY <1>2, <1>4, ListedParts DEF KnownCas
  <2>2. ~ci.started
    BY <1>2, <2>1, PolledParts DEF PolledCi
  <2>3. ci'.started = ci.started /\ ~ci'.freed
    BY <1>0, <1>1, <1>4 DEF CiType
  <2> QED BY <1>1, <1>2, <2>1, <2>2, <2>3, PolledParts
          DEF PolledCam, PolledCi, PolledQuit, PolledOpen, Happened
<1> QED BY <1>3, <1>4

\* The calls that open and close CAs, and the end of AM_CAMAN_Close.
LEMMA PolledCalls ==
    ASSUME AgendaInv, Polled, [Next]_vars,
           (\E c \in Cas : UnregisterCA(c) \/ OpenCA(c) \/ CloseCA(c)) \/ Joined
    PROVE  Polled'
<1>1. SameCi
  BY MishapsGrow
     DEF UnregisterCA, OpenCA, CloseCA, AppCall, AnyCall, Joined, caVars, ciVars, SameCi, InList
<1>2. ASSUME NEW N, Starts(N), \A x \in N : x[1] \in RemoveOps
      PROVE  Polled'
  <2>1. Pending = {} /\ <<"register", Ci>> \notin Pending' /\ <<"open", Ci>> \notin Pending'
    BY <1>2 DEF Starts, Idle, RemoveOps
  <2> QED BY <1>1, <2>1, PolledParts
          DEF PolledCam, PolledCi, PolledQuit, PolledOpen, SameCi, Happened
<1>3. ASSUME NEW c \in Cas, UnregisterCA(c) PROVE Polled'
  <2>1. PICK s : Starts(Range(s)) /\ Removals(s, {c})
    BY <1>3, UnregisterCAStarts
  <2> QED BY <1>2, <2>1 DEF Removals, Good
<1>4. ASSUME NEW c \in Cas, CloseCA(c) PROVE Polled'
  <2>1. PICK N : Starts(N) /\ N \subseteq ClosingTasks(c)
    BY <1>4, CloseCAStarts
  <2> QED BY <1>2, <2>1 DEF ClosingTasks, RemoveOps
<1>5. CASE Joined
  <2>1. PICK s : Starts(Range(s)) /\ Removals(s, Cas)
    BY <1>5, JoinedStarts
  <2> QED BY <1>2, <2>1 DEF Removals, Good
<1>6. ASSUME NEW c \in Cas, OpenCA(c) PROVE Polled'
  <2>1. PICK N : /\ Starts(N) /\ N \subseteq {<<"enter", Ci>>, <<"open", c>>, <<"register", c>>}
                 /\ <<"open", c>> \in N /\ <<"register", c>> \in N
    BY <1>6, OpenCAStarts
  <2>2. ~status[c]
    BY <1>6 DEF OpenCA
  <2>3. Pending = {} /\ Pending' = N
    BY <2>1 DEF Starts, Idle
  <2>4. (<<"open", Ci>> \in Pending' <=> c = Ci) /\ (<<"register", Ci>> \in Pending' <=> c = Ci)
    BY <2>1, <2>3
  <2> QED BY <1>1, <2>2, <2>3, <2>4, PolledParts
          DEF PolledCam, PolledCi, PolledQuit, PolledOpen, SameCi, Happened
<1> QED BY <1>3, <1>4, <1>5, <1>6

\* The thread that polls the CAM is there while the CI is started, and not when it is freed.
LEMMA PolledNext == ASSUME AgendaInv, Removed, Listed, Polled, [Next]_vars PROVE Polled'
<1>1. CASE UNCHANGED vars
  BY <1>1, ApartSame, PolledSame DEF vars, workVars, caVars, ciVars
<1>2. CASE Work
  BY <1>2, PolledElse, PolledCams, PolledMatching, PolledOpenCi, PolledRegister, PolledClosing,
     PolledRemoval, PolledList DEF Work, CallingCas, Ending
<1>3. CASE Calls
  BY <1>3, PolledElse, PolledCalls DEF Calls
<1>4. CASE Joined \/ MonTop \/ MonLock \/ MonWake \/ Section \/ Cam \/ FendEvent
           \/ \E t \in Tables : Change(t)
  BY <1>4, PolledElse, PolledCams, PolledCalls
<1> QED BY <1>1, <1>2, <1>3, <1>4 DEF Next

-----------------------------------------------------------------------------
(* The tables that are in use.                                               *)

Opens(t) == table[t].open
NewOf(t) == Evt("new", t)

\* Only close_ts closes a table.
LEMMA OpensKept ==
    ASSUME AgendaInv, [Next]_vars, ~CloseTables
    PROVE  \A t \in Tables : Opens(t) => Opens(t)'
<1> DEFINE Kept == \A t \in Tables : Opens(t) => Opens(t)'
<1> SUFFICES Kept
  OBVIOUS
<1>0. table \in [Tables -> TableType]
  BY TablesAre
<1>1. CASE StopTable \/ Synced \/ StartTable \/ TimeOut
  BY <1>0, <1>1 DEF StopTable, Synced, StartTable, TimeOut, Set, Opens, TableType, tableVars
<1>2. CASE RunTable
  <2>1. table'[Of].open \/ table'[Of] = table[Of] \/ Of \notin Tables
    BY <1>0, <1>2 DEF RunTable, Set, TableType, Closed
  <2>2. \A t \in Tables \ {Of} : table'[t] = table[t]
    BY <1>0, <1>2 DEF RunTable, Set
  <2> QED BY <2>1, <2>2 DEF Opens
<1>3. CASE Handling
  BY <1>3 DEF Handling, Look, NewTable, MonitorTable, Handled, Opens, tableVars
<1>4. CASE \/ Enter \/ Arrange \/ Unmatch \/ Match \/ Collect \/ Give \/ StartPmt \/ StopPmt
  BY <1>4 DEF Enter, Arrange, Unmatch, Match, Collect, Give, StartPmt, StopPmt, Opens, tableVars
<1>5. CASE \/ OpenCi \/ Register \/ Disable \/ Uncall \/ StopCi \/ CloseCa \/ Receive \/ Unlist \/ Destroy
  BY <1>5 DEF OpenCi, Register, Disable, Uncall, StopCi, CloseCa, Receive, Unlist, Destroy, Opens,
     tableVars
<1>6. CASE Ending
  BY <1>6 DEF Ending, SetService, NoMoreService, ListCa, TakeMsg, SetPause, Quit, Opens, tableVars
<1>7. CASE Joined \/ MonTop \/ MonLock \/ MonWake \/ Cam \/ FendEvent \/ \E t \in Tables : Change(t)
  BY <1>7 DEF Joined, MonTop, MonLock, MonWake, Cam, CamPolls, CamInfo, CamSends, CamAdds, FendEvent,
     Change, Opens, tableVars
<1>8. CASE Section
  BY <1>0, <1>8 DEF Section, Capture, SectionDecodes, SectionEnds, Opens, TableType, tableVars
<1>9. CASE Calls
  BY <1>9 DEF Calls, RegisterCA, UnregisterCA, OpenCA, CloseCA, StopCA, PutMsg, GetMsg, AppCall,
     AnyCall, StartService, StopService, Pause, Resume, Close, Opens, tableVars
<1>10. CASE UNCHANGED vars
  BY <1>10 DEF vars, tableVars, Opens
<1> HIDE DEF Kept
<1> QED BY <1>1, <1>2, <1>3, <1>4, <1>5, <1>6, <1>7, <1>8, <1>9, <1>10
        DEF Next, Work, Tabling, CallingCas

\* Only the callback says that a table is new.
LEMMA NewsKept ==
    ASSUME [Next]_vars, ~SectionEnds
    PROVE  \A t \in Tables : NewOf(t) \in tsevt' => NewOf(t) \in tsevt
<1> DEFINE Kept == \A t \in Tables : NewOf(t) \in tsevt' => NewOf(t) \in tsevt
<1> SUFFICES Kept
  OBVIOUS
<1>1. CASE Tabling
  <2>1. tsevt' \subseteq tsevt
    BY <1>1 DEF Tabling, StopTable, Synced, CloseTables, StartTable, RunTable, TimeOut, manVars
  <2> QED BY <2>1
<1>2. CASE Handling
  <2>1. tsevt' \subseteq tsevt \cup {Evt("mon", Of)}
    BY <1>2 DEF Handling, Look, NewTable, MonitorTable, Handled, manVars
  <2>2. \A t : NewOf(t) # Evt("mon", Of)
    BY DEF NewOf, Evt
  <2> QED BY <2>1, <2>2
<1>3. CASE CallingCas
  <2>1. tsevt' = tsevt
    BY <1>3 DEF CallingCas, Enter, Arrange, Unmatch, Match, Collect, Give, StartPmt, StopPmt,
       OpenCi, Register, Disable, Uncall, StopCi, CloseCa, Receive, Unlist, Destroy, manVars
  <2> QED BY <2>1
<1>4. CASE Ending
  BY <1>4 DEF Ending, SetService, NoMoreService, ListCa, TakeMsg, SetPause, Quit, NewOf, Evt, NewTs,
     Tables, manVars
<1>5. CASE MonLock
  <2>1. PICK due \in SUBSET {t \in Tables : Evt("mon", t) \in tsevt} :
          tsevt' = (tsevt \ {Evt("mon", t) : t \in due}) \cup {Evt("start", t) : t \in due}
    BY <1>5 DEF MonLock
  <2> QED BY <2>1 DEF NewOf, Evt
<1>6. CASE Joined \/ MonTop \/ MonWake \/ Cam \/ FendEvent \/ \E t \in Tables : Change(t)
  BY <1>6 DEF Joined, MonTop, MonWake, Cam, CamPolls, CamInfo, CamSends, CamAdds, FendEvent,
     Change, NewOf, Evt, NewTs, Tables, manVars
<1>7. CASE (\E t \in Tables : Capture(t)) \/ SectionDecodes
  BY <1>7 DEF Capture, SectionDecodes, manVars
<1>8. CASE Calls
  BY <1>8 DEF Calls, RegisterCA, UnregisterCA, OpenCA, CloseCA, StopCA, PutMsg, GetMsg, AppCall,
     AnyCall, StartService, StopService, Pause, Resume, Close, manVars
<1>9. CASE UNCHANGED vars
  BY <1>9 DEF vars, manVars
<1> HIDE DEF Kept
<1>10. Section => SectionEnds \/ (\E t \in Tables : Capture(t)) \/ SectionDecodes
  BY DEF Section
<1> QED BY <1>1, <1>2, <1>3, <1>4, <1>5, <1>6, <1>7, <1>8, <1>9, <1>10 DEF Next, Work

Held == \A t \in Tables : tlock[t] = "mon" => <<"monitor", t>> \in Pending
NewOpen ==
    ~Happened({"raced"}) => \A t \in Tables :
        NewOf(t) \in tsevt \/ <<"new", t>> \in Pending \/ <<"monitor", t>> \in Pending => Opens(t)

LEMMA InUseParts ==
    /\ InUse <=> Held /\ NewOpen
    /\ InUse' <=> Held' /\ NewOpen'
BY DEF InUse, Held, NewOpen, NewOf, Opens, Waits, For

InUseOps == {"new", "monitor"}

LEMMA InUseFrame ==
    ASSUME AgendaInv, InUse, [Next]_vars, ~CloseTables, ~SectionEnds, Apart(InUseOps),
           \A t \in Tables : tlock'[t] = "mon" => tlock[t] = "mon"
    PROVE  InUse'
<1>1. \A op \in InUseOps : \A t : <<op, t>> \in Pending' <=> <<op, t>> \in Pending
  BY ApartKeeps
<1>2. Held'
  BY <1>1, InUseParts DEF Held, InUseOps
<1>3. NewOpen'
  BY <1>1, OpensKept, NewsKept, MishapsGrow, InUseParts DEF NewOpen, InUseOps, Happened
<1> QED BY <1>2, <1>3, InUseParts

LEMMA InUseElse ==
    ASSUME AgendaInv, InUse, [Next]_vars, ~CloseTables, ~SectionEnds,
           \/ StopTable \/ Synced \/ StartTable \/ RunTable \/ TimeOut \/ Handled
           \/ CallingCas \/ SetService \/ NoMoreService \/ ListCa \/ TakeMsg \/ SetPause
           \/ Calls \/ Joined \/ MonTop \/ MonLock \/ MonWake \/ Cam \/ FendEvent
           \/ (\E t \in Tables : Capture(t)) \/ SectionDecodes
           \/ (\E t \in Tables : Change(t)) \/ UNCHANGED vars
    PROVE  InUse'
<1>0. tlock \in [Tables -> {Nobody, "mon", "dmx"}] /\ dmx.table \in Tables
  BY DEF AgendaInv, TypeOK
<1>1. CASE StopTable \/ Synced \/ StartTable \/ RunTable \/ TimeOut \/ Handled
  <2>1. Apart(InUseOps)
    BY <1>1, WorkBeyond, ReturnsBeyond DEF Apart, InUseOps
  <2>2. UNCHANGED tlock
    BY <1>1 DEF StopTable, Synced, StartTable, RunTable, TimeOut, Handled, tableVars
  <2> QED BY <2>1, <2>2, InUseFrame
<1>2. CASE CallingCas
  <2>1. Apart(InUseOps)
    BY <1>2, WorkBeyond, ReturnsBeyond DEF Apart, InUseOps, CallingCas
  <2>2. UNCHANGED tlock
    BY <1>2 DEF CallingCas, Enter, Arrange, Unmatch, Match, Collect, Give, StartPmt, StopPmt,
       OpenCi, Register, Disable, Uncall, StopCi, CloseCa, Receive, Unlist, Destroy, tableVars
  <2> QED BY <2>1, <2>2, InUseFrame
<1>3. CASE SetService \/ NoMoreService \/ ListCa \/ TakeMsg \/ SetPause
  <2>1. Apart(InUseOps)
    BY <1>3, ReturnsBeyond DEF Apart, InUseOps
  <2>2. UNCHANGED tlock
    BY <1>3 DEF SetService, NoMoreService, ListCa, TakeMsg, SetPause, tableVars
  <2> QED BY <2>1, <2>2, InUseFrame
<1>4. CASE Calls
  <2>1. Apart(InUseOps)
    BY <1>4, CallsBeyond, OthersBeyond DEF Apart, InUseOps, Calls, RemoveOps
  <2>2. UNCHANGED tlock
    BY <1>4 DEF Calls, RegisterCA, UnregisterCA, OpenCA, CloseCA, StopCA, PutMsg, GetMsg, AppCall,
       AnyCall, StartService, StopService, Pause, Resume, Close, tableVars
  <2> QED BY <2>1, <2>2, InUseFrame
<1>5. CASE Joined \/ MonLock \/ MonWake
  <2>1. Apart(InUseOps)
    BY <1>5, OthersBeyond DEF Apart, InUseOps, RemoveOps
  <2>2. UNCHANGED tlock
    BY <1>5 DEF Joined, MonLock, MonWake, tableVars
  <2> QED BY <2>1, <2>2, InUseFrame
<1>6. CASE \/ MonTop \/ Cam \/ FendEvent \/ (\E t \in Tables : Capture(t)) \/ SectionDecodes
           \/ (\E t \in Tables : Change(t)) \/ UNCHANGED vars
  <2>1. Apart(InUseOps)
    <3>1. UNCHANGED agenda \/ MonTop
      BY <1>6 DEF Cam, CamPolls, CamInfo, CamSends, CamAdds, FendEvent, Capture,
         SectionDecodes, Change, vars, workVars
    <3> QED BY <3>1, ApartSame DEF MonTop
  <2>2. \A t \in Tables : tlock'[t] = "mon" => tlock[t] = "mon"
    BY <1>0, <1>6 DEF MonTop, Cam, CamPolls, CamInfo, CamSends, CamAdds, FendEvent, Capture,
       SectionDecodes, Change, vars, tableVars
  <2> QED BY <2>1, <2>2, InUseFrame
<1> QED BY <1>1, <1>2, <1>3, <1>4, <1>5, <1>6

\* A table that is new, and one the thread works with, is open.
LEMMA InUseNext == ASSUME AgendaInv, Tabled, InUse, [Next]_vars PROVE InUse'
<1>0. /\ tlock \in [Tables -> {Nobody, "mon", "dmx"}] /\ dmx.table \in Tables
      /\ tsevt \subseteq AllEvents /\ mishaps \subseteq mishaps'
  BY MishapsGrow DEF AgendaInv, TypeOK
<1>1. CASE CloseTables
  <2>1. Pops("closets", {}) /\ tsevt' = tsevt \cap {NewTs} /\ UNCHANGED tlock
    BY <1>1, CloseTablesPops DEF CloseTables
  <2>2. Pending = {<<"closets", Of>>} \cup Rest /\ Pending' = Rest
    BY <2>1 DEF Pops, Heads
  <2>3. \A y \in Rest : y[1] \in {"first", "handled", "from", "quit"}
    BY <2>1, RestBehind, BehindOf DEF Pops
  <2>4. Held'
    BY <2>1, <2>2, InUseParts DEF Held
  <2>5. \A t \in Tables : NewOf(t) \notin tsevt' /\ <<"new", t>> \notin Pending'
                                                /\ <<"monitor", t>> \notin Pending'
    BY <2>1, <2>2, <2>3 DEF NewOf, NewTs, Evt, Tables
  <2> QED BY <2>4, <2>5, InUseParts DEF NewOpen
<1>2. CASE SectionEnds
  <2>1. /\ tlock' = [tlock EXCEPT ![dmx.table] = Nobody] /\ UNCHANGED agenda /\ dmx.at = "end"
        /\ Mishap(dmx.copy # tsevt \/ Evt("new", dmx.table) \notin tsevt', "raced")
        /\ tsevt' = dmx.copy \cup {Evt("new", dmx.table)} \/ tsevt' = tsevt
    BY <1>2 DEF SectionEnds, workVars
  <2>2. \A op \in InUseOps : \A t : <<op, t>> \in Pending' <=> <<op, t>> \in Pending
    BY <2>1, ApartSame, ApartKeeps
  <2>3. Held'
    BY <1>0, <2>1, <2>2, InUseParts DEF Held, InUseOps, Nobody
  <2>4. \A t \in Tables : Opens(t) => Opens(t)'
    <3>1. table' = [table EXCEPT ![dmx.table].run = FALSE] /\ table \in [Tables -> TableType]
      BY <1>2, TablesAre DEF SectionEnds
    <3> QED BY <3>1 DEF Opens, TableType
  <2>5. "raced" \notin mishaps' => tsevt' \subseteq tsevt \cup {NewOf(dmx.table)}
    BY <2>1 DEF Mishap, NewOf
  <2>6. Opens(dmx.table)
    BY <2>1 DEF Tabled, Opens
  <2>7. \A t, u \in Tables : NewOf(t) = NewOf(u) => t = u
    BY DEF NewOf, Evt
  <2>8. NewOpen'
    BY <1>0, <2>2, <2>4, <2>5, <2>6, <2>7, InUseParts DEF NewOpen, InUseOps, Happened
  <2> QED BY <2>3, <2>8, InUseParts
<1> DEFINE Else == ~CloseTables /\ ~SectionEnds
<1>3. CASE Look /\ Else
  <2>1. PICK N : /\ Pops("from", N)
                 /\ \/ \E t \in Tables, k \in 1 .. 4 :
                          Evt("new", t) \in tsevt /\ N = {<<"new", t>>, <<"from", k>>}
                    \/ \A x \in N : \E t \in Tables :
                          x = <<"again", t>> /\ Evt("start", t) \in tsevt
    BY <1>3, LookPops
  <2>2. Pending = {<<"from", Of>>} \cup Rest /\ Pending' = N \cup Rest
    BY <2>1 DEF Pops, Heads
  <2>3. \A t \in Tables : /\ <<"new", t>> \in N => NewOf(t) \in tsevt
                          /\ <<"monitor", t>> \notin N
    BY <2>1 DEF NewOf
  <2>4. UNCHANGED <<tlock, tsevt, table>>
    BY <1>3 DEF Look, tableVars, manVars
  <2>5. Held'
    BY <2>2, <2>4, InUseParts DEF Held
  <2>6. \A t \in Tables : /\ <<"new", t>> \in Pending' => <<"new", t>> \in Pending \/ NewOf(t) \in tsevt
                          /\ <<"monitor", t>> \in Pending' => <<"monitor", t>> \in Pending
    BY <2>2, <2>3
  <2>7. NewOpen'
    BY <1>0, <2>4, <2>6, InUseParts DEF NewOpen, Opens, Happened
  <2> QED BY <2>5, <2>7, InUseParts
<1>4. CASE NewTable /\ Else
  <2>1. PICK N : /\ Pops("new", N)
                 /\ \/ table[Of].monitor /\ Changed(Of) /\ N = NewTsTasks(Of)
                    \/ table[Of].monitor /\ ~Changed(Of) /\ N = {<<"monitor", Of>>}
                    \/ ~table[Of].monitor /\ \E M : FirstTime(M) /\ N = M \cup {<<"monitor", Of>>}
    BY <1>4, NewTablePops
  <2>2. Pending = {<<"new", Of>>} \cup Rest /\ Pending' = N \cup Rest /\ Of \in Tables
    BY <2>1, OfType DEF Pops, Heads
  <2>3. \A x \in N : x[1] # "new" /\ (x[1] = "monitor" => x = <<"monitor", Of>>)
    BY <2>1 DEF NewTsTasks, CloseTasks, FirstTime
  <2>4. UNCHANGED <<tsevt, table>> /\ (table[Of].monitor => UNCHANGED tlock)
        /\ (~table[Of].monitor => tlock' = [tlock EXCEPT ![Of] = "mon"])
    BY <1>4 DEF NewTable, manVars
  <2>5. ~table[Of].monitor => <<"monitor", Of>> \in Pending'
    BY <2>1, <2>2
  <2>6. Held'
    BY <1>0, <2>2, <2>4, <2>5, InUseParts DEF Held
  <2>7. NewOpen'
    BY <1>0, <2>2, <2>3, <2>4, InUseParts DEF NewOpen, Opens, Happened
  <2> QED BY <2>6, <2>7, InUseParts
<1>5. CASE MonitorTable /\ Else
  <2>1. Pops("monitor", {}) /\ UNCHANGED table
        /\ tlock' = [tlock EXCEPT ![Of] = IF tlock[Of] = "mon" THEN Nobody ELSE tlock[Of]]
    BY <1>5, MonitorTablePops DEF MonitorTable
  <2>2. Pending = {<<"monitor", Of>>} \cup Rest /\ Pending' = Rest /\ Of \in Tables
    BY <2>1, OfType DEF Pops, Heads
  <2>3. Held'
    BY <1>0, <2>1, <2>2, InUseParts DEF Held, Nobody
  <2>4. NewOpen'
    BY <1>0, <1>5, <2>1, <2>2, NewsKept, InUseParts DEF NewOpen, Opens, Happened
  <2> QED BY <2>3, <2>4, InUseParts
<1>6. CASE Quit /\ Else
  <2>1. Pending = {<<"quit", "none">>} /\ Pending' = {} /\ UNCHANGED <<tlock, tsevt, table>>
    BY <1>6, QuitPops DEF Quit, tableVars
  <2>2. Held'
    BY <2>1, InUseParts DEF Held
  <2>3. NewOpen'
    BY <1>0, <2>1, InUseParts DEF NewOpen, Opens, Happened
  <2> QED BY <2>2, <2>3, InUseParts
<1> HIDE DEF Else
<1>7. CASE /\ Else
           /\ \/ StopTable \/ Synced \/ StartTable \/ RunTable \/ TimeOut \/ Handled
              \/ CallingCas \/ SetService \/ NoMoreService \/ ListCa \/ TakeMsg \/ SetPause
              \/ Calls \/ Joined \/ MonTop \/ MonLock \/ MonWake \/ Cam \/ FendEvent
              \/ (\E t \in Tables : Capture(t)) \/ SectionDecodes
              \/ (\E t \in Tables : Change(t)) \/ UNCHANGED vars
  BY <1>7, InUseElse DEF Else
<1>8. CloseTables \/ SectionEnds \/ Else
  BY DEF Else
<1> QED BY <1>1, <1>2, <1>3, <1>4, <1>5, <1>6, <1>7, <1>8
        DEF Next, Work, Tabling, Handling, Ending, Section

-----------------------------------------------------------------------------
(* AM_CAMAN_Close has closed the tables.                                     *)

Down == quit \/ (<<"quit", "none">> \in Pending /\ <<"closets", "none">> \notin Pending)
Dead == (\A t \in Tables : table[t] = Closed) /\ dmx.at = "idle" /\ tsevt \subseteq {NewTs}
DeadTasks ==
    \A x \in Pending :
        /\ x[1] \notin {"new", "monitor", "again", "runagain", "runfirst"}
        /\ x[1] = "first" => <<"closets", "none">> \in Pending

LEMMA DownParts ==
    /\ ClosedDown <=> (Down /\ ~Happened({"restarted"}) => Dead /\ DeadTasks)
    /\ ClosedDown' <=> (Down' /\ ~Happened({"restarted"})' => Dead' /\ DeadTasks')
<1>1. Do("quit") = <<"quit", "none">> /\ Do("closets") = <<"closets", "none">>
  BY DEF Do
<1>2. ClosedDown <=> (Down /\ ~Happened({"restarted"}) => Dead /\ DeadTasks)
  BY <1>1 DEF ClosedDown, Down, Dead, DeadTasks
<1>3. ClosedDown' <=> (Down' /\ ~Happened({"restarted"})' => Dead' /\ DeadTasks')
  BY <1>1 DEF ClosedDown, Down, Dead, DeadTasks
<1> QED BY <1>2, <1>3

\* A step that starts no table and is not the end of a look at one.
LEMMA DeadKept ==
    ASSUME AgendaInv, [Next]_vars, Dead, ~RunTable, ~MonitorTable
    PROVE  Dead'
<1>0. /\ \A t \in Tables : table[t] = Closed /\ ~table[t].run
      /\ dmx.at = "idle" /\ tsevt \subseteq {NewTs}
  BY ClosedTable DEF Dead
<1>a. ASSUME UNCHANGED <<table, dmx>>, tsevt' \subseteq {NewTs} PROVE Dead'
  BY <1>0, <1>a DEF Dead
<1> SUFFICES ASSUME ~Dead' PROVE FALSE
  OBVIOUS
<1>1. CASE StopTable \/ StartTable \/ TimeOut
  <2>1. table' = [table EXCEPT ![Of] = [table[Of] EXCEPT !.run = FALSE]] /\ UNCHANGED dmx
        /\ tsevt' \subseteq tsevt
    BY <1>1 DEF StopTable, StartTable, TimeOut, Set, manVars
  <2>2. [Closed EXCEPT !.run = FALSE] = Closed
    BY ClosedTable, StoppedTable
  <2>3. \A t \in Tables : table'[t] = Closed
    BY <1>0, <2>1, <2>2, TablesAre
  <2> QED BY <1>0, <2>1, <2>3 DEF Dead
<1>2. CASE Synced \/ CloseTables
  BY <1>0, <1>2 DEF Synced, CloseTables, manVars, tableVars, Dead
<1>3. CASE Look \/ NewTable \/ Handled
  BY <1>0, <1>3, <1>a DEF Look, NewTable, Handled, manVars, tableVars
<1>4. CASE \/ Enter \/ Arrange \/ Unmatch \/ Match \/ Collect \/ Give \/ StartPmt \/ StopPmt
  BY <1>0, <1>4, <1>a DEF Enter, Arrange, Unmatch, Match, Collect, Give, StartPmt, StopPmt, manVars, tableVars
<1>5. CASE \/ OpenCi \/ Register \/ Disable \/ Uncall \/ StopCi \/ CloseCa \/ Receive \/ Unlist \/ Destroy
  BY <1>0, <1>5, <1>a DEF OpenCi, Register, Disable, Uncall, StopCi, CloseCa, Receive, Unlist, Destroy,
     manVars, tableVars
<1>6. CASE Ending
  BY <1>0, <1>6, <1>a DEF Ending, SetService, NoMoreService, ListCa, TakeMsg, SetPause, Quit, manVars,
     tableVars
<1>7. CASE Joined \/ MonTop \/ MonWake \/ Cam \/ FendEvent \/ \E t \in Tables : Change(t)
  BY <1>0, <1>7, <1>a DEF Joined, MonTop, MonWake, Cam, CamPolls, CamInfo, CamSends, CamAdds, FendEvent,
     Change, manVars, tableVars
<1>8. CASE MonLock
  <2>1. PICK due \in SUBSET {t \in Tables : Evt("mon", t) \in tsevt} :
          tsevt' = (tsevt \ {Evt("mon", t) : t \in due}) \cup {Evt("start", t) : t \in due}
    BY <1>8 DEF MonLock
  <2>2. \A t \in Tables : Evt("mon", t) \notin tsevt
    BY <1>0 DEF Evt, NewTs
  <2>3. tsevt' \subseteq {NewTs}
    BY <1>0, <2>1, <2>2
  <2> QED BY <1>8, <1>a, <2>3 DEF MonLock, tableVars
<1>9. CASE Section
  BY <1>0, <1>9, TablesAre DEF Section, Capture, SectionDecodes, SectionEnds
<1>10. CASE Calls
  BY <1>0, <1>10, <1>a DEF Calls, RegisterCA, UnregisterCA, OpenCA, CloseCA, StopCA, PutMsg, GetMsg, AppCall,
     AnyCall, StartService, StopService, Pause, Resume, Close, manVars, tableVars
<1>11. CASE UNCHANGED vars
  BY <1>0, <1>11, <1>a DEF vars, manVars, tableVars
<1> QED BY <1>1, <1>2, <1>3, <1>4, <1>5, <1>6, <1>7, <1>8, <1>9, <1>10, <1>11
        DEF Next, Work, Tabling, Handling, CallingCas

DownOps == {"new", "monitor", "again", "runagain", "runfirst", "first", "closets", "quit"}

LEMMA DownFrame ==
    ASSUME AgendaInv, ClosedDown, [Next]_vars, ~RunTable, ~MonitorTable, Apart(DownOps), UNCHANGED quit
    PROVE  ClosedDown'
<1>1. \A op \in DownOps : \A x : <<op, x>> \in Pending' <=> <<op, x>> \in Pending
  BY ApartKeeps
<1>2. PICK Q : Beyond(Q) /\ Q \cap DownOps = {}
  BY DEF Apart
<1>3. \A z : z[1] \in DownOps => (z \in Pending' <=> z \in Pending)
  BY <1>2 DEF Beyond
<1>4. Down' => Down
  BY <1>1 DEF Down, DownOps
<1>5. DeadTasks => DeadTasks'
  BY <1>1, <1>3 DEF DeadTasks, DownOps
<1> QED BY <1>4, <1>5, DownParts, DeadKept, MishapsGrow DEF Happened

LEMMA DownElse ==
    ASSUME AgendaInv, ClosedDown, [Next]_vars, ~RunTable, ~MonitorTable,
           \/ StopTable \/ Synced \/ TimeOut
           \/ CallingCas \/ SetService \/ NoMoreService \/ ListCa \/ TakeMsg \/ SetPause
           \/ \E c \in Cas : \/ RegisterCA(c) \/ UnregisterCA(c) \/ OpenCA(c) \/ CloseCA(c)
                             \/ StopCA(c) \/ PutMsg(c) \/ GetMsg(c)
           \/ \E s \in Services, c \in Cas \cup {NoCa} : StartService(s, c)
           \/ StopService \/ Pause \/ Resume
           \/ Joined \/ MonTop \/ MonLock \/ Cam \/ FendEvent \/ Section
           \/ (\E t \in Tables : Change(t)) \/ UNCHANGED vars
    PROVE  ClosedDown'
<1>1. CASE StopTable \/ Synced \/ TimeOut
  <2>1. Apart(DownOps)
    BY <1>1, WorkBeyond, ReturnsBeyond DEF Apart, DownOps
  <2>2. UNCHANGED quit
    BY <1>1 DEF StopTable, Synced, TimeOut, manVars
  <2> QED BY <2>1, <2>2, DownFrame
<1>2. CASE CallingCas
  <2>1. Apart(DownOps)
    BY <1>2, WorkBeyond, ReturnsBeyond DEF Apart, DownOps, CallingCas
  <2>2. UNCHANGED quit
    BY <1>2 DEF CallingCas, Enter, Arrange, Unmatch, Match, Collect, Give, StartPmt, StopPmt,
       OpenCi, Register, Disable, Uncall, StopCi, CloseCa, Receive, Unlist, Destroy, manVars
  <2> QED BY <2>1, <2>2, DownFrame
<1>3. CASE SetService \/ NoMoreService \/ ListCa \/ TakeMsg \/ SetPause
  <2>1. Apart(DownOps)
    BY <1>3, ReturnsBeyond DEF Apart, DownOps
  <2>2. UNCHANGED quit
    BY <1>3 DEF SetService, NoMoreService, ListCa, TakeMsg, SetPause, manVars
  <2> QED BY <2>1, <2>2, DownFrame
<1>4. CASE \/ \E c \in Cas : \/ RegisterCA(c) \/ UnregisterCA(c) \/ OpenCA(c) \/ CloseCA(c)
                             \/ StopCA(c) \/ PutMsg(c) \/ GetMsg(c)
           \/ \E s \in Services, c \in Cas \cup {NoCa} : StartService(s, c)
           \/ StopService \/ Pause \/ Resume
  <2>1. Apart(DownOps)
    BY <1>4, CallsBeyond, OthersBeyond DEF Apart, DownOps, RemoveOps
  <2>2. UNCHANGED quit
    BY <1>4 DEF RegisterCA, UnregisterCA, OpenCA, CloseCA, StopCA, PutMsg, GetMsg, AppCall,
       AnyCall, StartService, StopService, Pause, Resume, manVars
  <2> QED BY <2>1, <2>2, DownFrame
<1>5. CASE Joined \/ MonLock \/ MonTop \/ Section \/ Cam \/ FendEvent \/ (\E t \in Tables : Change(t))
  <2>1. Apart(DownOps)
    BY <1>5, OthersBeyond DEF Apart, DownOps, RemoveOps
  <2>2. UNCHANGED quit
    BY <1>5 DEF Joined, MonTop, MonLock, Section, Capture, SectionDecodes, SectionEnds, Cam, CamPolls,
       CamInfo, CamSends, CamAdds, FendEvent, Change, manVars
  <2> QED BY <2>1, <2>2, DownFrame
<1>6. CASE UNCHANGED vars
  BY <1>6, ApartSame, DownFrame DEF vars, workVars, manVars
<1> QED BY <1>1, <1>2, <1>3, <1>4, <1>5, <1>6

\* Whose agenda it is when AM_CAMAN_Close has still to end the thread.
LEMMA QuitOwner ==
    ASSUME AgendaInv, <<"quit", "none">> \in Pending
    PROVE  \A x \in Pending : x[1] \in AppOps
<1> DEFINE q == <<"quit", "none">>
<1>1. q \in Pending /\ q[1] = "quit"
  OBVIOUS
<1> HIDE DEF q
<1>2. Allowed("quit")
  BY <1>1 DEF AgendaInv, Owned
<1>3. mpc \notin {"run", "late"} /\ apc # "remove"
  BY <1>2 DEF Allowed, RunOps, RemoveOps
<1>4. lock # Nobody
  <2>1. agenda # << >>
    BY <1>1 DEF Pending, Range
  <2> QED BY <1>3, <2>1 DEF AgendaInv, Owned
<1>5. apc = "run"
  BY <1>3, <1>4 DEF AgendaInv, Owned, TypeOK
<1> QED BY <1>5 DEF AgendaInv, Owned, Allowed

\* The end of close_ts.
LEMMA DownCloses == ASSUME AgendaInv, Tabled, ClosedDown, [Next]_vars, CloseTables PROVE ClosedDown'
<1>1. Pops("closets", {}) /\ tsevt' = tsevt \cap {NewTs} /\ table' = [t \in Tables |-> Closed]
      /\ UNCHANGED <<quit, dmx>> /\ Mishap(quit, "restarted")
  BY CloseTablesPops DEF CloseTables
<1>2. Pending = {<<"closets", "none">>} \cup Rest /\ Pending' = Rest
  BY <1>1, TaskType DEF Pops, Heads
<1>3. \A y \in Rest : y[1] \in {"first", "handled", "from", "quit"}
  BY <1>1, RestBehind, BehindOf DEF Pops
<1>4. SUFFICES ASSUME Down', ~Happened({"restarted"})' PROVE Dead' /\ DeadTasks'
  BY DownParts
<1>5. ~quit /\ <<"quit", "none">> \in Pending
  BY <1>1, <1>2, <1>4 DEF Down, Mishap, Happened
<1>6. \A x \in Pending' : x[1] = "quit"
  BY <1>2, <1>3, <1>5, QuitOwner DEF AppOps, RemoveOps
<1>7. dmx.at = "idle"
  <2>1. \A t : <<"stop", t>> \notin Pending
    BY <1>2, <1>3
  <2>2. <<"sync", "none">> \notin Pending
    BY <1>2, <1>3
  <2>3. \A t \in Tables : Stopped(t)
    BY <1>2, <2>1, TabledParts DEF TabledTasks
  <2> QED BY <2>2, <2>3, TablesAre DEF Stopped, Do
<1>8. Dead'
  BY <1>1, <1>7 DEF Dead
<1>9. DeadTasks'
  BY <1>6 DEF DeadTasks
<1> QED BY <1>8, <1>9

\* The tasks that start or look at a table are not there when it is down.
LEMMA DownStarts ==
    ASSUME AgendaInv, ClosedDown, [Next]_vars, StartTable \/ RunTable \/ MonitorTable \/ NewTable
    PROVE  ClosedDown'
<1>0. UNCHANGED quit
  BY DEF StartTable, RunTable, MonitorTable, NewTable, manVars
<1>1. PICK op \in {"first", "again", "runfirst", "runagain", "monitor", "new"} : Heads(op)
  BY HeadTask DEF StartTable, RunTable, MonitorTable, NewTable
<1>2. Pending = {<<op, Of>>} \cup Rest /\ \A y \in Rest : y[1] \in {"first", "handled", "monitor", "from", "again"}
  BY <1>1, RestBehind, BehindOf DEF Heads
<1>3. <<"quit", "none">> \in Pending' <=> <<"quit", "none">> \in Pending
  <2>1. Apart({"quit"})
    BY WorkBeyond, ReturnsBeyond DEF Apart
  <2> QED BY <2>1, ApartKeeps
<1>4. Down' => quit
  BY <1>0, <1>2, <1>3 DEF Down
<1>5. ~DeadTasks
  <2> DEFINE y == <<op, Of>>
  <2>1. y \in Pending /\ y[1] = op /\ <<"closets", "none">> \notin Pending
    BY <1>2
  <2> HIDE DEF y
  <2> QED BY <2>1 DEF DeadTasks
<1> QED BY <1>4, <1>5, DownParts, MishapsGrow DEF Down, Happened

\* The thread looks at its events, and wakes up for them.
LEMMA DownLooks ==
    ASSUME AgendaInv, ClosedDown, [Next]_vars, Look \/ MonWake
    PROVE  ClosedDown'
<1>1. ~RunTable /\ ~MonitorTable
  <2>1. CASE Look
    BY <2>1 DEF Look, RunTable, MonitorTable, At
  <2>2. CASE MonWake
    <3>1. Idle
      BY <2>2, MonWakeStarts DEF Starts
    <3> QED BY <3>1 DEF Idle, RunTable, MonitorTable, At
  <2> QED BY <2>1, <2>2
<1>2. UNCHANGED quit
  BY DEF Look, MonWake, manVars
<1>3. SUFFICES ASSUME Down', ~Happened({"restarted"})' PROVE Dead' /\ DeadTasks'
  BY DownParts
<1>4. CASE Look
  <2>1. PICK N : /\ Pops("from", N)
                 /\ \/ \E t \in Tables, k \in 1 .. 4 :
                          Evt("new", t) \in tsevt /\ N = {<<"new", t>>, <<"from", k>>}
                    \/ \A x \in N : \E t \in Tables :
                          x = <<"again", t>> /\ Evt("start", t) \in tsevt
    BY <1>4, LookPops
  <2>2. Pending = {<<"from", Of>>} /\ Pending' = N
    BY <2>1, RestBehind, BehindOf DEF Pops, Heads
  <2>3. <<"quit", "none">> \notin N
    BY <2>1
  <2>4. Dead
    BY <1>2, <1>3, <2>2, <2>3, DownParts, MishapsGrow DEF Down, Happened
  <2>5. \A t \in Tables : Evt("new", t) \notin tsevt /\ Evt("start", t) \notin tsevt
    BY <2>4 DEF Dead, Evt, NewTs, Tables
  <2>6. Pending' = {}
    BY <2>1, <2>2, <2>5
  <2> QED BY <1>1, <2>4, <2>6, DeadKept DEF DeadTasks
<1>5. CASE MonWake
  <2>1. PICK N : /\ Starts(N)
                 /\ \/ N = {} /\ tsevt' = {} /\ mpc' = "top"
                    \/ mpc' = "run" /\ NewTs \notin tsevt' /\ N = {<<"from", 1>>}
                    \/ mpc' = "run" /\ NewTs \in tsevt' /\ N = NewTsTasks("ts") \cup {<<"from", 1>>}
    BY <1>5, MonWakeStarts
  <2>2. Pending = {} /\ Pending' = N
    BY <2>1 DEF Starts, Idle
  <2>3. \A x \in N : /\ x[1] \in {"stop", "closets", "first", "handled", "from"}
                     /\ x[1] = "first" => <<"closets", "none">> \in N
    BY <2>1 DEF NewTsTasks, CloseTasks
  <2>4. Dead
    BY <1>2, <1>3, <2>2, <2>3, DownParts, MishapsGrow DEF Down, Happened
  <2>5. DeadTasks'
    BY <2>2, <2>3 DEF DeadTasks
  <2> QED BY <1>1, <2>4, <2>5, DeadKept
<1> QED BY <1>4, <1>5

\* AM_CAMAN_Close begins, and ends the thread.
LEMMA DownQuits ==
    ASSUME AgendaInv, ClosedDown, [Next]_vars, Close \/ Quit
    PROVE  ClosedDown'
<1>1. CASE Close
  <2>1. Pending = {} /\ Pending' = CloseTasks \cup {<<"quit", "none">>} /\ Idle
    BY <1>1, CloseStarts DEF Starts, Idle
  <2>2. ~RunTable /\ ~MonitorTable
    BY <2>1 DEF Idle, RunTable, MonitorTable, At
  <2>3. UNCHANGED quit
    BY <1>1 DEF Close, AppCall, AnyCall, manVars
  <2>4. <<"closets", "none">> \in Pending' /\ \A x \in Pending' : x[1] \in {"stop", "closets", "quit"}
    BY <2>1 DEF CloseTasks
  <2>5. Down' => Down
    BY <2>3, <2>4 DEF Down
  <2>6. DeadTasks'
    BY <2>4 DEF DeadTasks
  <2> QED BY <2>2, <2>5, <2>6, DownParts, DeadKept, MishapsGrow DEF Happened
<1>2. CASE Quit
  <2>1. Pending = {<<"quit", "none">>} /\ Pending' = {}
    BY <1>2, QuitPops
  <2>2. Down
    BY <2>1 DEF Down
  <2>3. ~RunTable /\ ~MonitorTable
    BY <1>2 DEF Quit, RunTable, MonitorTable, At
  <2> QED BY <2>1, <2>2, <2>3, DownParts, DeadKept, MishapsGrow DEF Happened, DeadTasks
<1> QED BY <1>1, <1>2

\* When AM_CAMAN_Close has closed the tables they stay closed.
LEMMA DownNext == ASSUME AgendaInv, Tabled, ClosedDown, [Next]_vars PROVE ClosedDown'
<1>1. CASE RunTable \/ MonitorTable
  BY <1>1, DownStarts
<1>2. CASE ~RunTable /\ ~MonitorTable
  <2>1. CASE Handled
    <3>1. Apart(DownOps)
      BY <2>1, ReturnsBeyond DEF Apart, DownOps
    <3> QED BY <1>2, <2>1, <3>1, DownFrame DEF Handled
  <2>2. CASE Work
    BY <1>2, <2>1, <2>2, DownElse, DownCloses, DownStarts, DownLooks, DownQuits
       DEF Work, Tabling, Handling, Ending
  <2>3. CASE Calls
    BY <1>2, <2>3, DownElse, DownQuits DEF Calls
  <2>4. CASE Joined \/ MonTop \/ MonLock \/ MonWake \/ Section \/ Cam \/ FendEvent
             \/ (\E t \in Tables : Change(t)) \/ UNCHANGED vars
    BY <1>2, <2>4, DownElse, DownLooks
  <2> QED BY <2>1, <2>2, <2>3, <2>4 DEF Next
<1> QED BY <1>1, <1>2

-----------------------------------------------------------------------------
(* What a step leaves as it is.                                              *)

PmtSame == table'["pmt"].open = table["pmt"].open /\ table'["pmt"].prog = table["pmt"].prog
StreamSame == NewTs \in tsevt' <=> NewTs \in tsevt

\* Only the start and the end of a table change whose PMT is received.
LEMMA PmtKept ==
    ASSUME AgendaInv, [Next]_vars, ~CloseTables, ~RunTable
    PROVE  PmtSame
<1>0. table \in [Tables -> TableType] /\ "pmt" \in Tables
  BY TablesAre DEF Tables
<1>1. CASE StopTable \/ Synced \/ StartTable \/ TimeOut
  BY <1>0, <1>1 DEF StopTable, Synced, StartTable, TimeOut, Set, PmtSame, TableType, tableVars
<1>2. CASE Handling
  BY <1>2 DEF Handling, Look, NewTable, MonitorTable, Handled, PmtSame, tableVars
<1>3. CASE \/ Enter \/ Arrange \/ Unmatch \/ Match \/ Collect \/ Give \/ StartPmt \/ StopPmt
  BY <1>3 DEF Enter, Arrange, Unmatch, Match, Collect, Give, StartPmt, StopPmt, PmtSame, tableVars
<1>4. CASE \/ OpenCi \/ Register \/ Disable \/ Uncall \/ StopCi \/ CloseCa \/ Receive \/ Unlist \/ Destroy
  BY <1>4 DEF OpenCi, Register, Disable, Uncall, StopCi, CloseCa, Receive, Unlist, Destroy, PmtSame,
     tableVars
<1>5. CASE Ending
  BY <1>5 DEF Ending, SetService, NoMoreService, ListCa, TakeMsg, SetPause, Quit, PmtSame, tableVars
<1>6. CASE Joined \/ MonTop \/ MonLock \/ MonWake \/ Cam \/ FendEvent \/ \E t \in Tables : Change(t)
  BY <1>6 DEF Joined, MonTop, MonLock, MonWake, Cam, CamPolls, CamInfo, CamSends, CamAdds, FendEvent,
     Change, PmtSame, tableVars
<1>7. CASE Section
  <2>1. CASE \E t \in Tables : Capture(t)
    BY <2>1 DEF Capture, PmtSame, tableVars
  <2>2. CASE SectionDecodes
    BY <1>0, <2>2 DEF SectionDecodes, PmtSame, TableType
  <2>3. CASE SectionEnds
    BY <1>0, <2>3 DEF SectionEnds, PmtSame, TableType
  <2> QED BY <1>7, <2>1, <2>2, <2>3 DEF Section
<1>8. CASE Calls
  BY <1>8 DEF Calls, RegisterCA, UnregisterCA, OpenCA, CloseCA, StopCA, PutMsg, GetMsg, AppCall,
     AnyCall, StartService, StopService, Pause, Resume, Close, PmtSame, tableVars
<1>9. CASE UNCHANGED vars
  BY <1>9 DEF vars, tableVars, PmtSame
<1> QED BY <1>1, <1>2, <1>3, <1>4, <1>5, <1>6, <1>7, <1>8, <1>9 DEF Next, Work, Tabling, CallingCas

\* Only a service, the frontend and the thread raise and clear the event of a new stream.
LEMMA StreamKept ==
    ASSUME AgendaInv, [Next]_vars, ~SetService, ~FendEvent, ~MonWake, ~Handled, ~Happened({"raced"})'
    PROVE  StreamSame
<1>0. \A k \in {"new", "mon", "start"}, t \in Tables : Evt(k, t) # NewTs
  BY DEF Evt, NewTs, Tables
<1>1. CASE Tabling
  <2>1. CASE StartTable
    <3>1. PICK op \in {"first", "again"} : Heads(op)
      BY <2>1, HeadTask DEF StartTable
    <3>2. Of \in Tables /\ NewTs \notin Events(Of)
      BY <1>0, <3>1, OfType DEF Events
    <3> QED BY <2>1, <3>2 DEF StartTable, StreamSame
  <2>2. CASE StopTable \/ Synced \/ CloseTables \/ RunTable \/ TimeOut
    BY <2>2 DEF StopTable, Synced, CloseTables, RunTable, TimeOut, manVars, StreamSame
  <2> QED BY <1>1, <2>1, <2>2 DEF Tabling
<1>2. CASE Look \/ NewTable
  BY <1>2 DEF Look, NewTable, manVars, StreamSame
<1>3. CASE MonitorTable
  <2>1. Heads("monitor")
    BY <1>3, HeadTask DEF MonitorTable
  <2>2. Of \in Tables
    BY <2>1, OfType
  <2> QED BY <1>0, <1>3, <2>2 DEF MonitorTable, StreamSame
<1>4. CASE \/ Enter \/ Arrange \/ Unmatch \/ Match \/ Collect \/ Give \/ StartPmt \/ StopPmt
  BY <1>4 DEF Enter, Arrange, Unmatch, Match, Collect, Give, StartPmt, StopPmt, StreamSame, manVars
<1>5. CASE \/ OpenCi \/ Register \/ Disable \/ Uncall \/ StopCi \/ CloseCa \/ Receive \/ Unlist \/ Destroy
  BY <1>5 DEF OpenCi, Register, Disable, Uncall, StopCi, CloseCa, Receive, Unlist, Destroy, StreamSame,
     manVars
<1>6. CASE NoMoreService \/ ListCa \/ TakeMsg \/ SetPause \/ Quit
  BY <1>6 DEF NoMoreService, ListCa, TakeMsg, SetPause, Quit, StreamSame, manVars
<1>7. CASE MonLock
  <2>1. PICK due \in SUBSET {t \in Tables : Evt("mon", t) \in tsevt} :
          tsevt' = (tsevt \ {Evt("mon", t) : t \in due}) \cup {Evt("start", t) : t \in due}
    BY <1>7 DEF MonLock
  <2> QED BY <1>0, <2>1 DEF StreamSame
<1>8. CASE Joined \/ MonTop \/ Cam \/ \E t \in Tables : Change(t)
  BY <1>8 DEF Joined, MonTop, Cam, CamPolls, CamInfo, CamSends, CamAdds, Change, StreamSame, manVars
<1>9. CASE SectionEnds
  <2>1. /\ Mishap(dmx.copy # tsevt \/ Evt("new", dmx.table) \notin tsevt', "raced")
        /\ tsevt' = dmx.copy \cup {Evt("new", dmx.table)} \/ tsevt' = tsevt
    BY <1>9 DEF SectionEnds
  <2>2. tsevt' = tsevt \cup {Evt("new", dmx.table)} \/ tsevt' = tsevt
    BY <2>1 DEF Mishap, Happened
  <2> QED BY <1>0, <2>2, TablesAre DEF StreamSame
<1>10. CASE (\E t \in Tables : Capture(t)) \/ SectionDecodes
  BY <1>10 DEF Capture, SectionDecodes, StreamSame, manVars
<1>11. CASE Calls
  BY <1>11 DEF Calls, RegisterCA, UnregisterCA, OpenCA, CloseCA, StopCA, PutMsg, GetMsg, AppCall,
     AnyCall, StartService, StopService, Pause, Resume, Close, StreamSame, manVars
<1>12. CASE UNCHANGED vars
  BY <1>12 DEF vars, manVars, StreamSame
<1> QED BY <1>1, <1>2, <1>3, <1>4, <1>5, <1>6, <1>7, <1>8, <1>9, <1>10, <1>11, <1>12
        DEF Next, Work, Handling, CallingCas, Ending, Section

\* Only when it wakes up does the thread begin to work on events.
LEMMA RunKept ==
    ASSUME AgendaInv, [Next]_vars, ~MonWake
    PROVE  mpc' = "run" => mpc = "run"
<1> DEFINE Kept == mpc' = "run" => mpc = "run"
<1> SUFFICES Kept
  OBVIOUS
<1>0. \A op, N : Pops(op, N) => Kept
  BY DEF Pops, Moves
<1> HIDE DEF Kept
<1>1. CASE Tabling
  BY <1>0, <1>1, StopTablePops, SyncedPops, CloseTablesPops, StartTablePops, RunTablePops, TimeOutPops
     DEF Tabling
<1>2. CASE Handling
  BY <1>0, <1>2, LookPops, NewTablePops, MonitorTablePops, HandledPops DEF Handling
<1>3. CASE \/ Enter \/ Arrange \/ Unmatch \/ Match \/ Collect \/ Give \/ StartPmt \/ StopPmt
  BY <1>0, <1>3, EnterPops, ArrangePops, UnmatchPops, MatchPops, CollectPops, GivePops, StartPmtPops,
     StopPmtPops
<1>4. CASE \/ OpenCi \/ Register \/ Disable \/ Uncall \/ StopCi \/ CloseCa \/ Receive \/ Unlist \/ Destroy
  BY <1>0, <1>4, OpenCiPops, RegisterPops, DisablePops, UncallPops, StopCiPops, CloseCaPops,
     ReceivePops, UnlistPops, DestroyPops
<1>5. CASE SetService \/ NoMoreService \/ ListCa \/ TakeMsg \/ SetPause
  BY <1>0, <1>5, SetServicePops, NoMoreServicePops, ListCaPops, TakeMsgPops, SetPausePops
<1>6. CASE Quit \/ Joined \/ Calls \/ Section \/ Cam \/ FendEvent \/ (\E t \in Tables : Change(t))
           \/ UNCHANGED vars
  BY <1>6 DEF Kept, Quit, Joined, Calls, RegisterCA, UnregisterCA, OpenCA, CloseCA, StopCA, PutMsg,
     GetMsg, AppCall, AnyCall, StartService, StopService, Pause, Resume, Close, Section, Capture,
     SectionDecodes, SectionEnds, Cam, CamPolls, CamInfo, CamSends, CamAdds, FendEvent, Change, vars,
     workVars
<1>7. CASE MonTop \/ MonLock
  BY <1>7, MonLockStarts DEF Kept, MonTop
<1> QED BY <1>1, <1>2, <1>3, <1>4, <1>5, <1>6, <1>7 DEF Next, Work, CallingCas, Ending

-----------------------------------------------------------------------------
(* The service of the PMT.                                                   *)

ServedStop == disabled => force = NoCa /\ \A c \in Cas : <<"start", c>> \notin Pending
ServedPmt == table["pmt"].open => table["pmt"].prog = service \/ disabled \/ NewTs \in tsevt
ServedRun ==
    /\ mpc = "run" /\ <<"handled", "ts">> \notin Pending => NewTs \notin tsevt
    /\ <<"handled", "ts">> \in Pending => <<"closets", "none">> \in Pending \/ ~table["pmt"].open
ServedTasks ==
    /\ <<"give", "none">> \in Pending => table["pmt"].prog = service \/ disabled
    /\ (\E c \in Cas : <<"start", c>> \in Pending) => table["pmt"].prog = service
ServedCas == \A c \in Cas : given[c][1] = given[c][2]
Orderly == ~Happened({"paused", "raced"})

LEMMA ServedParts ==
    /\ Served <=> ServedStop /\ (Orderly => ServedPmt /\ ServedRun /\ ServedTasks /\ ServedCas)
    /\ Served' <=> ServedStop' /\ (Orderly' => ServedPmt' /\ ServedRun' /\ ServedTasks' /\ ServedCas')
<1>1. Do("closets") = <<"closets", "none">> /\ Do("give") = <<"give", "none">>
      /\ \A x : For("handled", x) = <<"handled", x>> /\ For("start", x) = <<"start", x>>
  BY DEF Do, For
<1>2. Served <=> ServedStop /\ (Orderly => ServedPmt /\ ServedRun /\ ServedTasks /\ ServedCas)
  BY <1>1 DEF Served, ServedStop, ServedPmt, ServedRun, ServedTasks, ServedCas, Orderly, Waits
<1>3. Served' <=> ServedStop' /\ (Orderly' => ServedPmt' /\ ServedRun' /\ ServedTasks' /\ ServedCas')
  BY <1>1 DEF Served, ServedStop, ServedPmt, ServedRun, ServedTasks, ServedCas, Orderly, Waits
<1> QED BY <1>2, <1>3

ServedOps == {"start", "give", "handled"}
ServedSame ==
    /\ UNCHANGED <<service, disabled>> /\ force' \in {force, NoCa}
    /\ \A c \in Cas : given'[c] \in {given[c], NoPmt}

\* Only AM_CAMAN_startService and AM_CAMAN_stopService change the service, only ca_ci_startpmt
\* tells it to a CA.
LEMMA ServedKept ==
    ASSUME AgendaInv, [Next]_vars, ~SetService, ~NoMoreService, ~StartPmt
    PROVE  ServedSame
<1>0. given \in [Cas -> {NoPmt} \cup (Services \cup {NoService}) \X Services]
  BY CasAre
<1>1. CASE Tabling
  BY <1>1 DEF Tabling, StopTable, Synced, CloseTables, StartTable, RunTable, TimeOut, manVars, caVars,
     ServedSame
<1>2. CASE Handling
  BY <1>2 DEF Handling, Look, NewTable, MonitorTable, Handled, manVars, caVars, ServedSame
<1>3. CASE \/ Enter \/ Arrange \/ Unmatch \/ Match \/ Collect \/ Give \/ StopPmt
  BY <1>0, <1>3 DEF Enter, Arrange, Unmatch, Match, Collect, Give, StopPmt, manVars, caVars, ServedSame
<1>4. CASE \/ OpenCi \/ Register \/ Disable \/ Uncall \/ StopCi \/ CloseCa \/ Receive \/ Unlist \/ Destroy
  BY <1>0, <1>4 DEF OpenCi, Register, Disable, Uncall, StopCi, CloseCa, Receive, Unlist, Destroy, manVars,
     caVars, ServedSame
<1>5. CASE ListCa \/ TakeMsg \/ SetPause \/ Quit
  BY <1>5 DEF ListCa, TakeMsg, SetPause, Quit, manVars, caVars, ServedSame
<1>6. CASE Joined \/ MonTop \/ MonLock \/ MonWake \/ Cam \/ FendEvent \/ \E t \in Tables : Change(t)
  BY <1>6 DEF Joined, MonTop, MonLock, MonWake, Cam, CamPolls, CamInfo, CamSends, CamAdds, FendEvent,
     Change, manVars, caVars, ServedSame
<1>7. CASE Section
  BY <1>7 DEF Section, Capture, SectionDecodes, SectionEnds, manVars, caVars, ServedSame
<1>8. CASE Calls
  BY <1>8 DEF Calls, RegisterCA, UnregisterCA, OpenCA, CloseCA, StopCA, PutMsg, GetMsg, AppCall,
     AnyCall, StartService, StopService, Pause, Resume, Close, manVars, caVars, ServedSame
<1>9. CASE UNCHANGED vars
  BY <1>9 DEF vars, manVars, caVars, ServedSame
<1> QED BY <1>1, <1>2, <1>3, <1>4, <1>5, <1>6, <1>7, <1>8, <1>9 DEF Next, Work, CallingCas, Ending

\* Which steps have to do with the PMT.
LEMMA ServedApart ==
    ASSUME AgendaInv, [Next]_vars, ~CloseTables, ~MonWake, ~Handled, ~StartPmt, ~Give, ~NewTable
    PROVE  Apart(ServedOps) /\ (<<"closets", "none">> \in Pending => <<"closets", "none">> \in Pending')
<1> DEFINE Ops == {"start", "give", "handled", "closets"}
           Goal == Apart(ServedOps) /\ (<<"closets", "none">> \in Pending => <<"closets", "none">> \in Pending')
<1> SUFFICES Goal
  OBVIOUS
<1>0. Apart(Ops) => Goal
  <2>1. Apart(Ops) => (<<"closets", "none">> \in Pending' <=> <<"closets", "none">> \in Pending)
    BY ApartKeeps
  <2>2. Apart(Ops) => Apart(ServedOps)
    BY DEF Apart, ServedOps
  <2> QED BY <2>1, <2>2
<1> HIDE DEF Goal
<1>1. CASE StopTable \/ Synced \/ StartTable \/ RunTable \/ TimeOut \/ Look \/ MonitorTable
  BY <1>0, <1>1, WorkBeyond, ReturnsBeyond DEF Apart
<1>2. CASE \/ Enter \/ Arrange \/ Unmatch \/ Match \/ Collect \/ StopPmt \/ OpenCi \/ Register \/ Disable
  BY <1>0, <1>2, WorkBeyond, ReturnsBeyond DEF Apart
<1>3. CASE \/ Uncall \/ StopCi \/ CloseCa \/ Receive \/ Unlist \/ Destroy
  BY <1>0, <1>3, ReturnsBeyond DEF Apart
<1>4. CASE Ending
  BY <1>0, <1>4, ReturnsBeyond DEF Apart, Ending
<1>5. CASE \/ \E c \in Cas : \/ RegisterCA(c) \/ UnregisterCA(c) \/ OpenCA(c) \/ CloseCA(c)
                             \/ StopCA(c) \/ PutMsg(c) \/ GetMsg(c)
  BY <1>0, <1>5, CallsBeyond DEF Apart, RemoveOps
<1>6. CASE (\E s \in Services, c \in Cas \cup {NoCa} : StartService(s, c))
           \/ StopService \/ Pause \/ Resume
  BY <1>0, <1>6, OthersBeyond DEF Apart
<1>7. CASE Close
  <2>1. Apart(ServedOps)
    BY <1>7, OthersBeyond DEF Apart, ServedOps
  <2>2. Pending = {}
    BY <1>7, CloseStarts DEF Starts, Idle
  <2> QED BY <2>1, <2>2 DEF Goal
<1>8. CASE Joined \/ MonTop \/ MonLock \/ Cam \/ FendEvent \/ Section \/ \E t \in Tables : Change(t)
  BY <1>0, <1>8, OthersBeyond DEF Apart, RemoveOps
<1>9. CASE UNCHANGED vars
  BY <1>0, <1>9, ApartSame DEF vars, workVars
<1> QED BY <1>1, <1>2, <1>3, <1>4, <1>5, <1>6, <1>7, <1>8, <1>9
        DEF Next, Work, Tabling, Handling, CallingCas, Calls

LEMMA ServedElse ==
    ASSUME AgendaInv, Served, [Next]_vars,
           ~CloseTables, ~RunTable, ~MonWake, ~Handled, ~FendEvent, ~SetService, ~NoMoreService,
           ~StartPmt, ~Give, ~NewTable
    PROVE  Served'
<1>1. \A op \in ServedOps : \A x : <<op, x>> \in Pending' <=> <<op, x>> \in Pending
  BY ServedApart, ApartKeeps
<1>2. ServedSame /\ PmtSame /\ (mpc' = "run" => mpc = "run") /\ mishaps \subseteq mishaps'
  BY ServedKept, PmtKept, RunKept, MishapsGrow
<1>3. ServedStop'
  BY <1>1, <1>2, ServedParts DEF ServedStop, ServedSame, ServedOps
<1>4. ASSUME Orderly' PROVE Orderly /\ StreamSame
  BY <1>2, <1>4, StreamKept DEF Orderly, Happened
<1>5. Orderly' => ServedPmt'
  BY <1>2, <1>4, ServedParts DEF ServedPmt, ServedSame, PmtSame, StreamSame
<1>6. Orderly' => ServedRun'
  BY <1>1, <1>2, <1>4, ServedApart, ServedParts DEF ServedRun, PmtSame, StreamSame, ServedOps
<1>7. Orderly' => ServedTasks'
  BY <1>1, <1>2, <1>4, ServedParts DEF ServedTasks, ServedSame, PmtSame, ServedOps
<1>8. Orderly' => ServedCas'
  <2>1. NoPmt[1] = NoPmt[2]
    BY DEF NoPmt
  <2> QED BY <1>2, <1>4, <2>1, ServedParts DEF ServedCas, ServedSame
<1> QED BY <1>3, <1>5, <1>6, <1>7, <1>8, ServedParts

\* Whose agenda it is when an event is worked on.
LEMMA RunOwner ==
    ASSUME AgendaInv, NEW op, Heads(op), op \notin AppOps \cup {"timeout"}
    PROVE  mpc = "run"
<1>1. Allowed(op)
  BY DEF Heads
<1>2. apc \notin {"run", "remove"} /\ mpc # "late"
  BY <1>1 DEF Allowed, AppOps
<1>3. agenda # << >>
  BY DEF Heads
<1> QED BY <1>2, <1>3 DEF AgendaInv, Owned, TypeOK

\* close_ts and the start of a table.
LEMMA ServedTabling ==
    ASSUME AgendaInv, Served, [Next]_vars, CloseTables \/ RunTable
    PROVE  Served'
<1>0. mishaps \subseteq mishaps' /\ table \in [Tables -> TableType] /\ "pmt" \in Tables
  BY MishapsGrow, TablesAre DEF Tables
<1>1. UNCHANGED <<service, disabled, force, given>>
  BY DEF CloseTables, RunTable, manVars, caVars
<1>2. PICK op \in {"closets", "runfirst", "runagain"} : Pops(op, {}) /\ At(op)
  BY CloseTablesPops, RunTablePops DEF CloseTables
<1>3. Pending = {<<op, Of>>} \cup Rest /\ Pending' = Rest /\ (mpc' = "run" => mpc = "run")
  BY <1>2 DEF Pops, Heads, Moves
<1>4. \A y \in Rest : y[1] \in {"first", "handled", "from", "quit", "monitor", "again"}
  BY <1>2, RestBehind, BehindOf DEF Pops
<1>5. /\ \A c : <<"start", c>> \notin Pending /\ <<"start", c>> \notin Pending'
      /\ <<"give", "none">> \notin Pending'
      /\ <<"handled", "ts">> \in Pending' <=> <<"handled", "ts">> \in Pending
  BY <1>2, <1>3, <1>4
<1>6. StreamSame
  BY DEF CloseTables, RunTable, StreamSame, manVars
<1>7. ServedStop'
  BY <1>1, <1>5, ServedParts DEF ServedStop
<1>8. ServedTasks' /\ (Orderly' => ServedCas')
  BY <1>0, <1>1, <1>5, ServedParts DEF ServedTasks, ServedCas, Orderly, Happened
<1>9. CASE CloseTables
  <2>1. ~table'["pmt"].open
    BY <1>0, <1>9, ClosedTable DEF CloseTables
  <2> QED BY <1>0, <1>3, <1>5, <1>6, <1>7, <1>8, <2>1, ServedParts
          DEF ServedPmt, ServedRun, StreamSame, Orderly, Happened
<1>10. CASE RunTable
  <2>1. op \in {"runfirst", "runagain"} /\ Of \in Tables
    BY <1>2, <1>10, OfType DEF RunTable, At, Pops
  <2>2. CASE Of # "pmt"
    <3>1. PmtSame
      BY <1>0, <1>10, <2>1, <2>2 DEF RunTable, Set, PmtSame
    <3>2. <<"closets", "none">> \in Pending => <<"closets", "none">> \in Pending'
      BY <1>3, <2>1
    <3> QED BY <1>0, <1>1, <1>3, <1>5, <1>6, <1>7, <1>8, <3>1, <3>2, ServedParts
            DEF ServedPmt, ServedRun, StreamSame, PmtSame, Orderly, Happened
  <2>3. CASE Of = "pmt" /\ op = "runagain"
    <3>1. PmtSame
      <4>1. \/ table' = table
            \/ \E g : table' = [table EXCEPT ![Of] = [table[Of] EXCEPT !.run = TRUE, !.monitor = TRUE, !.got = g]]
        BY <1>0, <1>2, <1>10, <2>3 DEF RunTable, Set, At
      <4>2. CASE table' = table
        BY <4>2 DEF PmtSame
      <4>3. ASSUME NEW g, table' = [table EXCEPT ![Of] = [table[Of] EXCEPT !.run = TRUE, !.monitor = TRUE,
                                                             !.got = g]]
            PROVE  PmtSame
        <5>1. table'["pmt"] = [table["pmt"] EXCEPT !.run = TRUE, !.monitor = TRUE, !.got = g]
          BY <1>0, <2>3, <4>3
        <5>2. table["pmt"] \in TableType
          BY <1>0
        <5> QED BY <5>1, <5>2 DEF PmtSame, TableType
      <4> QED BY <4>1, <4>2, <4>3
    <3>2. <<"closets", "none">> \in Pending => <<"closets", "none">> \in Pending'
      BY <1>3, <2>3
    <3> QED BY <1>0, <1>1, <1>3, <1>5, <1>6, <1>7, <1>8, <3>1, <3>2, ServedParts
            DEF ServedPmt, ServedRun, StreamSame, PmtSame, Orderly, Happened
  <2>4. CASE Of = "pmt" /\ op = "runfirst"
    <3>1. table'["pmt"].prog = service
      BY <1>0, <1>2, <1>10, <2>4 DEF RunTable, Set, At, Closed
    <3>2. <<"handled", "ts">> \notin Rest
      BY <1>2, <2>4 DEF Pops, Heads, Before
    <3> QED BY <1>0, <1>1, <1>3, <1>5, <1>6, <1>7, <1>8, <3>1, <3>2, ServedParts
            DEF ServedPmt, ServedRun, StreamSame, Orderly, Happened
  <2> QED BY <2>1, <2>2, <2>3, <2>4
<1> QED BY <1>9, <1>10

\* The thread wakes up for an event, or has handled one; the frontend raises one.
LEMMA ServedEvents ==
    ASSUME AgendaInv, Served, [Next]_vars, MonWake \/ Handled \/ FendEvent
    PROVE  Served'
<1>0. mishaps \subseteq mishaps'
  BY MishapsGrow
<1>1. UNCHANGED <<service, disabled, force, given, table>>
  BY DEF MonWake, Handled, FendEvent, tableVars, caVars
<1>2. CASE MonWake
  <2>1. PICK N : /\ Starts(N)
                 /\ \/ N = {} /\ tsevt' = {} /\ mpc' = "top"
                    \/ mpc' = "run" /\ NewTs \notin tsevt' /\ N = {<<"from", 1>>}
                    \/ mpc' = "run" /\ NewTs \in tsevt' /\ N = NewTsTasks("ts") \cup {<<"from", 1>>}
    BY <1>2, MonWakeStarts
  <2>2. Pending = {} /\ Pending' = N
    BY <2>1 DEF Starts, Idle
  <2>3. /\ \A c : <<"start", c>> \notin Pending'
        /\ <<"give", "none">> \notin Pending'
        /\ mpc' = "run" /\ <<"handled", "ts">> \notin Pending' => NewTs \notin tsevt'
        /\ <<"handled", "ts">> \in Pending' => <<"closets", "none">> \in Pending'
    BY <2>1, <2>2 DEF NewTsTasks, CloseTasks
  <2>4. Orderly' => tsevt' = tsevt
    BY <1>2 DEF MonWake, Mishap, Orderly, Happened
  <2> QED BY <1>0, <1>1, <2>3, <2>4, ServedParts
          DEF ServedStop, ServedPmt, ServedRun, ServedTasks, ServedCas, Orderly, Happened
<1>3. CASE Handled
  <2>1. Pops("handled", {}) /\ tsevt' = tsevt \ {Evt("new", Of)}
    BY <1>3, HandledPops DEF Handled
  <2>2. /\ Pending = {<<"handled", Of>>} \cup Rest /\ Pending' = Rest
        /\ mpc' = "run" => mpc = "run"
        /\ \A y \in Rest : y[1] = "from"
    BY <2>1, RestBehind, BehindOf DEF Pops, Heads, Moves
  <2>3. /\ \A c : <<"start", c>> \notin Pending'
        /\ <<"give", "none">> \notin Pending' /\ <<"handled", "ts">> \notin Pending'
        /\ <<"closets", "none">> \notin Pending
        /\ <<"handled", "ts">> \in Pending <=> Of = "ts"
    BY <2>2
  <2>4. NewTs \in tsevt' <=> NewTs \in tsevt /\ Of # "ts"
    BY <2>1 DEF NewTs, Evt
  <2>5. ServedStop' /\ ServedTasks' /\ (Orderly => ServedCas')
    BY <1>1, <2>3, ServedParts DEF ServedStop, ServedTasks, ServedCas
  <2>6. Orderly => ServedRun'
    BY <2>2, <2>3, <2>4, ServedParts DEF ServedRun
  <2>7. Orderly => ServedPmt'
    BY <1>1, <2>3, <2>4, ServedParts DEF ServedPmt, ServedRun
  <2> QED BY <1>0, <2>5, <2>6, <2>7, ServedParts DEF Orderly, Happened
<1>4. CASE FendEvent
  <2>1. UNCHANGED <<agenda, mpc>> /\ lock = Nobody /\ NewTs \in tsevt'
    BY <1>4 DEF FendEvent, workVars
  <2>2. mpc' # "run" /\ Pending' = Pending
    BY <2>1 DEF AgendaInv, Owned, Nobody, Pending
  <2> QED BY <1>0, <1>1, <2>1, <2>2, ServedParts
          DEF ServedStop, ServedPmt, ServedRun, ServedTasks, ServedCas, Orderly, Happened
<1> QED BY <1>2, <1>3, <1>4

\* The service is set, or stopped.
LEMMA ServedService ==
    ASSUME AgendaInv, Served, [Next]_vars, SetService \/ NoMoreService
    PROVE  Served'
<1>0. mishaps \subseteq mishaps'
  BY MishapsGrow
<1>1. PICK op \in {"service", "noservice"} : Pops(op, {})
  BY SetServicePops, NoMoreServicePops
<1>2. Pending' = {} /\ mpc' # "run"
  <2>1. mpc # "run"
    BY <1>1 DEF Pops, Heads, Allowed, RunOps
  <2> QED BY <1>1, <2>1, RestBehind, BehindOf DEF Pops, Moves
<1>3. /\ UNCHANGED <<given, table>>
      /\ \/ NewTs \in tsevt' /\ ~disabled'
         \/ disabled' /\ force' = NoCa
  BY DEF SetService, NoMoreService, tableVars
<1> QED BY <1>0, <1>2, <1>3, ServedParts
        DEF ServedStop, ServedPmt, ServedRun, ServedTasks, ServedCas, Orderly, Happened

\* The PMT is given to the CAs.
LEMMA ServedGives ==
    ASSUME AgendaInv, Served, [Next]_vars, Give \/ StartPmt
    PROVE  Served'
<1>0. mishaps \subseteq mishaps'
  BY MishapsGrow
<1>1. UNCHANGED <<service, disabled, force, table, tsevt>>
  BY DEF Give, StartPmt, manVars, tableVars
<1>2. CASE Give
  <2>1. PICK N : /\ Pops("give", N)
                 /\ \/ N = {}
                    \/ ~disabled /\ N \subseteq {<<"enter", Ci>>} \cup {<<"start", c>> : c \in In("ts")}
    BY <1>2, GivePops
  <2>2. /\ Pending = {<<"give", "none">>} \cup Rest /\ Pending' = N \cup Rest
        /\ mpc' = "run" => mpc = "run"
    BY <2>1, TaskType DEF Pops, Heads, Moves
  <2>3. \A y \in Rest : y[1] \in {"monitor", "from"}
    BY <2>1, RestBehind, BehindOf DEF Pops
  <2>4. \A x \in N : x[1] \in {"enter", "start"} /\ ~disabled
    BY <2>1
  <2>5. /\ \A c : <<"start", c>> \in Pending' => ~disabled
        /\ <<"give", "none">> \notin Pending' /\ <<"handled", "ts">> \notin Pending'
        /\ <<"handled", "ts">> \notin Pending /\ <<"give", "none">> \in Pending
    BY <2>2, <2>3, <2>4
  <2>6. ServedStop'
    BY <1>1, <2>5, ServedParts DEF ServedStop
  <2>7. given' = given
    BY <1>2 DEF Give, caVars
  <2>8. Orderly => ServedPmt' /\ ServedRun' /\ ServedTasks' /\ ServedCas'
    BY <1>1, <2>2, <2>5, <2>7, ServedParts DEF ServedPmt, ServedRun, ServedTasks, ServedCas
  <2> QED BY <1>0, <2>6, <2>8, ServedParts DEF Orderly, Happened
<1>3. CASE StartPmt
  <2>1. Pops("start", {})
        /\ given' = [given EXCEPT ![Of] = IF Of = Ci => ci.started /\ ci.info
                                          THEN <<service, table["pmt"].prog>> ELSE given[Of]]
    BY <1>3, StartPmtPops DEF StartPmt
  <2>2. /\ Pending = {<<"start", Of>>} \cup Rest /\ Pending' = Rest /\ Of \in Cas
        /\ mpc' = "run" => mpc = "run"
    BY <2>1, OfType DEF Pops, Heads, Moves, CaOps
  <2>3. \A y \in Rest : y[1] \in {"enter", "start", "monitor", "from"}
    BY <2>1, RestBehind, BehindOf DEF Pops
  <2>4. /\ <<"give", "none">> \notin Pending' /\ <<"handled", "ts">> \notin Pending'
        /\ <<"handled", "ts">> \notin Pending /\ Pending' \subseteq Pending
    BY <2>2, <2>3
  <2>5. ServedStop'
    BY <1>1, <2>4, ServedParts DEF ServedStop
  <2>6. Orderly => table["pmt"].prog = service
    BY <2>2, ServedParts DEF ServedTasks
  <2>7. Orderly => ServedCas'
    <3> HAVE Orderly
    <3>1. \A c \in Cas : given'[c] = given[c] \/ given'[c] = <<service, service>>
      BY <2>1, <2>2, <2>6, CasAre
    <3> QED BY <3>1, ServedParts DEF ServedCas
  <2>8. Orderly => ServedPmt' /\ ServedRun' /\ ServedTasks'
    BY <1>1, <2>2, <2>4, ServedParts DEF ServedPmt, ServedRun, ServedTasks
  <2> QED BY <1>0, <2>5, <2>7, <2>8, ServedParts DEF Orderly, Happened
<1> QED BY <1>2, <1>3

\* A table is handled: a PMT that is given to the CAs is that of the service.
LEMMA ServedNewTable == ASSUME AgendaInv, Tabled, InUse, Served, [Next]_vars, NewTable PROVE Served'
<1>0. mishaps \subseteq mishaps'
  BY MishapsGrow
<1>1. PICK N : /\ Pops("new", N)
               /\ \/ table[Of].monitor /\ Changed(Of) /\ N = NewTsTasks(Of)
                  \/ table[Of].monitor /\ ~Changed(Of) /\ N = {<<"monitor", Of>>}
                  \/ ~table[Of].monitor /\ \E M : FirstTime(M) /\ N = M \cup {<<"monitor", Of>>}
  BY NewTablePops
<1>2. /\ Pending = {<<"new", Of>>} \cup Rest /\ Pending' = N \cup Rest /\ Of \in Tables
      /\ mpc' = "run" => mpc = "run"
      /\ \A y \in Rest : y[1] = "from"
  BY <1>1, OfType, RestBehind, BehindOf DEF Pops, Heads, Moves
<1>3. UNCHANGED <<service, disabled, force, given, table, tsevt>>
  BY DEF NewTable, manVars, caVars
<1>4. mpc = "run"
  BY <1>1, RunOwner DEF Pops, AppOps, RemoveOps
<1>5. \A x \in N : /\ x # <<"handled", "ts">>
                   /\ x[1] = "start" => Of = "pmt" /\ Registered(force)
                   /\ x[1] = "give" => Of = "pmt"
  BY <1>1, <1>2 DEF NewTsTasks, CloseTasks, FirstTime, Tables
<1>6. /\ <<"handled", "ts">> \notin Pending /\ <<"handled", "ts">> \notin Pending'
      /\ \A c : <<"start", c>> \in Pending' => Of = "pmt" /\ Registered(force)
      /\ <<"give", "none">> \in Pending' => Of = "pmt"
  BY <1>2, <1>5
<1>7. Orderly => NewTs \notin tsevt
  BY <1>4, <1>6, ServedParts DEF ServedRun
<1>8. Orderly /\ Of = "pmt" => table["pmt"].open
  BY <1>2, InUseParts DEF NewOpen, Opens, Orderly, Happened
<1>9. ServedStop'
  BY <1>3, <1>6, ServedParts DEF ServedStop, Registered
<1>10. Orderly => ServedTasks'
  <2>1. Orderly /\ Of = "pmt" => table["pmt"].prog = service \/ disabled
    BY <1>7, <1>8, ServedParts DEF ServedPmt
  <2>2. Registered(force) => ~disabled
    BY ServedParts DEF ServedStop, Registered
  <2> QED BY <1>3, <1>6, <2>1, <2>2 DEF ServedTasks
<1>11. Orderly => ServedPmt' /\ ServedRun' /\ ServedCas'
  BY <1>3, <1>6, <1>7, ServedParts DEF ServedPmt, ServedRun, ServedCas
<1> QED BY <1>0, <1>9, <1>10, <1>11, ServedParts DEF Orderly, Happened

\* The PMT that a CA is told is that of the service it is told.
LEMMA ServedNext == ASSUME AgendaInv, Tabled, InUse, Served, [Next]_vars PROVE Served'
BY ServedElse, ServedTabling, ServedEvents, ServedService, ServedGives, ServedNewTable

-----------------------------------------------------------------------------
(* Who works on a service.                                                   *)

ToldWorks == /\ \A c \in Cas : <<"start", c>> \in Pending => Working(c)
             /\ <<"give", "none">> \in Pending => force = NoCa
ToldCas ==
    /\ \A c \in Cas : given[c] # NoPmt => \/ Working(c) \/ <<"stoppmt", c>> \in Pending
                                          \/ <<"destroy", c>> \in Pending
    /\ disabled => \A c \in Cas : given[c] = NoPmt
ToldStops ==
    /\ <<"noservice", "none">> \in Pending =>
          \A c \in Cas : given[c] = NoPmt \/ <<"stoppmt", c>> \in Pending
    /\ \A x \in Pending : x[1] = "service" /\ force \notin {NoCa, x[2][2]} =>
          given[force] = NoPmt \/ <<"stoppmt", force>> \in Pending
Unmixed == ~Happened({"mixed"})

LEMMA ToldParts ==
    /\ Told <=> ToldWorks /\ (Unmixed => ToldCas /\ ToldStops)
    /\ Told' <=> ToldWorks' /\ (Unmixed' => ToldCas' /\ ToldStops')
<1>1. /\ Do("noservice") = <<"noservice", "none">> /\ Do("give") = <<"give", "none">>
      /\ \A op, x : For(op, x) = <<op, x>>
  BY DEF Do, For
<1>2. Told <=> ToldWorks /\ (Unmixed => ToldCas /\ ToldStops)
  BY <1>1 DEF Told, ToldWorks, ToldCas, ToldStops, Unmixed, Waits
<1>3. Told' <=> ToldWorks' /\ (Unmixed' => ToldCas' /\ ToldStops')
  BY <1>1 DEF Told, ToldWorks, ToldCas, ToldStops, Unmixed, Waits
<1> QED BY <1>2, <1>3

ToldOps == {"start", "stoppmt", "destroy", "noservice", "service", "give"}
ToldSame ==
    /\ UNCHANGED <<force, disabled, listed>> /\ \A c \in Cas : given'[c] \in {given[c], NoPmt}
    /\ mishaps \subseteq mishaps'

LEMMA ToldKept ==
    ASSUME AgendaInv, [Next]_vars, ~SetService, ~NoMoreService, ~StartPmt,
           ~Unlist, ~Unmatch, ~Match, ~ListCa
    PROVE  ToldSame
<1>1. UNCHANGED <<force, listed>>
  <2> DEFINE Kept == UNCHANGED <<force, listed>>
  <2> SUFFICES Kept
    OBVIOUS
  <2>1. CASE Tabling
    BY <2>1 DEF Tabling, StopTable, Synced, CloseTables, StartTable, RunTable, TimeOut, manVars, caVars
  <2>2. CASE Handling
    BY <2>2 DEF Handling, Look, NewTable, MonitorTable, Handled, manVars, caVars
  <2>3. CASE Enter \/ Arrange \/ Collect \/ Give \/ StopPmt
    BY <2>3 DEF Enter, Arrange, Collect, Give, StopPmt, manVars, caVars
  <2>4. CASE OpenCi \/ Register \/ Disable \/ Uncall \/ StopCi \/ CloseCa \/ Receive \/ Destroy
    BY <2>4 DEF OpenCi, Register, Disable, Uncall, StopCi, CloseCa, Receive, Destroy, manVars, caVars
  <2>5. CASE TakeMsg \/ SetPause \/ Quit
    BY <2>5 DEF TakeMsg, SetPause, Quit, manVars, caVars
  <2>6. CASE Joined \/ MonTop \/ MonLock \/ MonWake \/ Cam \/ FendEvent \/ \E t \in Tables : Change(t)
    BY <2>6 DEF Joined, MonTop, MonLock, MonWake, Cam, CamPolls, CamInfo, CamSends, CamAdds, FendEvent,
       Change, manVars, caVars
  <2>7. CASE Section
    BY <2>7 DEF Section, Capture, SectionDecodes, SectionEnds, manVars, caVars
  <2>8. CASE Calls
    BY <2>8 DEF Calls, RegisterCA, UnregisterCA, OpenCA, CloseCA, StopCA, PutMsg, GetMsg, AppCall,
       AnyCall, StartService, StopService, Pause, Resume, Close, manVars, caVars
  <2>9. CASE UNCHANGED vars
    BY <2>9 DEF vars, manVars, caVars
  <2> HIDE DEF Kept
  <2> QED BY <2>1, <2>2, <2>3, <2>4, <2>5, <2>6, <2>7, <2>8, <2>9 DEF Next, Work, CallingCas, Ending
<1> QED BY <1>1, ServedKept, MishapsGrow DEF ToldSame, ServedSame

LEMMA ToldFrame ==
    ASSUME AgendaInv, Told, Apart(ToldOps), ToldSame
    PROVE  Told'
<1>1. \A op \in ToldOps : \A x : <<op, x>> \in Pending' <=> <<op, x>> \in Pending
  BY ApartKeeps
<1>2. PICK Q : Beyond(Q) /\ Q \cap ToldOps = {}
  BY DEF Apart
<1>3. \A z : z[1] \in ToldOps => (z \in Pending' <=> z \in Pending)
  BY <1>2 DEF Beyond
<1>4. \A c : Working(c)' <=> Working(c)
  BY DEF ToldSame, Working
<1>5. ToldWorks'
  BY <1>1, <1>4, ToldParts DEF ToldWorks, ToldSame, ToldOps
<1>6. Unmixed' => ToldCas'
  BY <1>1, <1>4, ToldParts DEF ToldCas, ToldSame, ToldOps, Unmixed, Happened
<1>7. Unmixed' => ToldStops'
  <2> HAVE Unmixed'
  <2>1. ToldStops
    BY ToldParts DEF Unmixed, ToldSame, Happened
  <2>2. force \in Cas \cup {NoCa}
    BY CasAre
  <2>3. <<"noservice", "none">> \in Pending' =>
          \A c \in Cas : given'[c] = NoPmt \/ <<"stoppmt", c>> \in Pending'
    BY <1>1, <2>1 DEF ToldStops, ToldOps, ToldSame
  <2>4. ASSUME NEW x \in Pending', x[1] = "service", force \notin {NoCa, x[2][2]}
        PROVE  given'[force] = NoPmt \/ <<"stoppmt", force>> \in Pending'
    BY <1>1, <1>3, <2>1, <2>2, <2>4 DEF ToldStops, ToldOps, ToldSame
  <2>5. force' = force
    BY DEF ToldSame
  <2> QED BY <2>3, <2>4, <2>5 DEF ToldStops
<1> QED BY <1>5, <1>6, <1>7, ToldParts

\* A call that has nothing to do with a service.
LEMMA ToldStarts ==
    ASSUME Told, ToldSame, NEW N, Starts(N),
           \A x \in N : x[1] \notin {"start", "noservice", "service", "give"}
    PROVE  Told'
<1>1. Pending = {} /\ Pending' = N
  BY DEF Starts, Idle
<1>2. \A c : Working(c)' <=> Working(c)
  BY DEF ToldSame, Working
<1>3. ToldWorks'
  BY <1>1 DEF ToldWorks
<1>4. Unmixed' => ToldCas'
  BY <1>1, <1>2, ToldParts DEF ToldCas, ToldSame, Unmixed, Happened
<1>5. ToldStops'
  BY <1>1 DEF ToldStops
<1> QED BY <1>3, <1>4, <1>5, ToldParts

ToldElse0 ==
    /\ ~SetService /\ ~NoMoreService /\ ~StartPmt /\ ~Unlist /\ ~Unmatch /\ ~Match /\ ~ListCa
    /\ ~StopPmt /\ ~Destroy /\ ~Give /\ ~NewTable /\ ~StopService
    /\ ~(\E s \in Services, c \in Cas \cup {NoCa} : StartService(s, c))

LEMMA ToldElse ==
    ASSUME AgendaInv, Told, [Next]_vars, ToldElse0
    PROVE  Told'
<1>0. ToldSame
  BY ToldKept DEF ToldElse0
<1>1. Apart(ToldOps) => Told'
  BY <1>0, ToldFrame
<1>2. \A N : Starts(N) /\ (\A x \in N : x[1] \notin {"start", "noservice", "service", "give"}) => Told'
  BY <1>0, ToldStarts
<1>3. CASE Tabling
  BY <1>1, <1>3, WorkBeyond, ReturnsBeyond DEF Apart, Tabling, ToldOps
<1>4. CASE Look \/ MonitorTable \/ Handled
  BY <1>1, <1>4, WorkBeyond, ReturnsBeyond DEF Apart, ToldOps
<1>5. CASE \/ Enter \/ Arrange \/ Collect \/ OpenCi \/ Register \/ Disable
  BY <1>1, <1>5, WorkBeyond, ReturnsBeyond DEF Apart, ToldOps
<1>6. CASE \/ Uncall \/ StopCi \/ CloseCa \/ Receive
  BY <1>1, <1>6, ReturnsBeyond DEF Apart, ToldOps
<1>7. CASE TakeMsg \/ SetPause \/ Quit
  BY <1>1, <1>7, ReturnsBeyond DEF Apart, ToldOps
<1>8. CASE \E c \in Cas : \/ RegisterCA(c) \/ OpenCA(c) \/ PutMsg(c) \/ GetMsg(c)
  BY <1>1, <1>8, CallsBeyond DEF Apart, ToldOps
<1>9. CASE \E c \in Cas : UnregisterCA(c) \/ CloseCA(c)
  <2>1. PICK c \in Cas : UnregisterCA(c) \/ CloseCA(c)
    BY <1>9
  <2>2. CASE UnregisterCA(c)
    <3>1. PICK s : Starts(Range(s)) /\ Removals(s, {c})
      BY <2>1, <2>2, UnregisterCAStarts
    <3>2. \A x \in Range(s) : x[1] \in RemoveOps
      BY <3>1 DEF Removals, Good
    <3> QED BY <1>2, <3>1, <3>2 DEF RemoveOps
  <2>3. CASE CloseCA(c)
    <3>1. PICK N : Starts(N) /\ N \subseteq ClosingTasks(c)
      BY <2>1, <2>3, CloseCAStarts
    <3>2. \A x \in N : x[1] \notin {"start", "noservice", "service", "give"}
      BY <3>1 DEF ClosingTasks
    <3> QED BY <1>2, <3>1, <3>2
  <2> QED BY <2>1, <2>2, <2>3
<1>10. CASE \E c \in Cas : StopCA(c)
  <2>1. PICK c \in Cas : StopCA(c)
    BY <1>10
  <2>2. PICK N : Starts(N) /\ N \subseteq {<<"enter", Ci>>, <<"stoppmt", c>>}
    BY <2>1, StopCAStarts
  <2> QED BY <1>2, <2>2
<1>11. CASE Joined
  <2>1. PICK s : Starts(Range(s)) /\ Removals(s, Cas)
    BY <1>11, JoinedStarts
  <2>2. \A x \in Range(s) : x[1] \in RemoveOps
    BY <2>1 DEF Removals, Good
  <2> QED BY <1>2, <2>1, <2>2 DEF RemoveOps
<1>12. CASE Pause \/ Resume \/ Close \/ MonTop \/ MonLock \/ MonWake
  BY <1>1, <1>12, OthersBeyond DEF Apart, ToldOps
<1>13. CASE Cam \/ FendEvent \/ Section \/ \E t \in Tables : Change(t)
  BY <1>1, <1>13, OthersBeyond DEF Apart
<1>14. CASE UNCHANGED vars
  BY <1>1, <1>14, ApartSame DEF vars, workVars
<1> QED BY <1>3, <1>4, <1>5, <1>6, <1>7, <1>8, <1>9, <1>10, <1>11, <1>12, <1>13, <1>14
        DEF Next, Work, Handling, CallingCas, Ending, Calls, ToldElse0

\* A CA is taken from its list, or destroyed.
LEMMA ToldRemoval ==
    ASSUME AgendaInv, Removed, Told, [Next]_vars, Unlist \/ Destroy
    PROVE  Told'
<1>0. mishaps \subseteq mishaps'
  BY MishapsGrow
<1>1. PICK op \in {"unlist", "destroy"} : Pops(op, {}) /\ At(op)
  BY UnlistPops, DestroyPops DEF Unlist, Destroy
<1>2. /\ Pending = {<<op, Of>>} \cup Rest /\ Pending' = Rest /\ Of \in Cas
      /\ \A y \in Rest : y[1] \in RemoveOps
  <2>1. Heads(op) /\ Pending' = {} \cup Rest
    BY <1>1 DEF Pops
  <2>2. Behind(op) = RemoveOps
    BY BehindOf DEF RemoveOps
  <2>3. Of \in Cas
    BY <2>1, OfType DEF CaOps
  <2> QED BY <2>1, <2>2, <2>3, RestBehind DEF Heads
<1>3. \A x \in Pending : x[1] \notin {"start", "give", "noservice", "service", "stoppmt"}
  BY <1>2 DEF RemoveOps
<1>4. ToldWorks' /\ ToldStops'
  BY <1>2, <1>3 DEF ToldWorks, ToldStops
<1>5. UNCHANGED disabled
  BY DEF Unlist, Destroy, manVars
<1>6. ASSUME Unmixed', NEW c \in Cas, given'[c] # NoPmt
      PROVE  Working(c)' \/ <<"destroy", c>> \in Pending'
  <2>1. ToldCas
    BY <1>0, <1>6, ToldParts DEF Unmixed, Happened
  <2>2. given[c] # NoPmt /\ (Destroy => c # Of)
    <3>1. CASE Unlist
      <4>1. ~Destroy
        BY <3>1 DEF Unlist, Destroy, At
      <4> QED BY <1>6, <3>1, <4>1 DEF Unlist
    <3>2. CASE Destroy
      BY <1>2, <1>6, <3>2, CasAre DEF Destroy
    <3> QED BY <3>1, <3>2
  <2>3. Working(c) \/ <<"destroy", c>> \in Pending
    BY <1>3, <2>1, <2>2 DEF ToldCas
  <2>4. CASE Unlist
    <3>1. op = "unlist"
      BY <1>1, <2>4 DEF Unlist, At
    <3>2. CASE c = Of
      <4>1. <<"destroy", c>> \in Pending
        BY <1>2, <3>1, <3>2 DEF Removed, Waits, For
      <4> QED BY <1>2, <3>1, <4>1
    <3>3. CASE c # Of
      <4>1. /\ listed' = [listed EXCEPT ![Of] = "none"]
            /\ force' = IF bound[Of] /\ force = Of THEN NoCa ELSE force
        BY <2>4 DEF Unlist
      <4>2. Working(c) => Working(c)'
        BY <1>2, <3>3, <4>1, CasAre, CaAssumption DEF Working
      <4> QED BY <1>2, <2>3, <3>1, <4>2
    <3> QED BY <3>2, <3>3
  <2>5. CASE Destroy
    <3>1. UNCHANGED <<force, listed>> /\ c # Of
      BY <2>2, <2>5 DEF Destroy, manVars
    <3>2. <<"destroy", c>> # <<op, Of>>
      BY <3>1
    <3> QED BY <1>2, <2>3, <3>1, <3>2 DEF Working
  <2> QED BY <2>4, <2>5
<1>7. ASSUME Unmixed', disabled', NEW c \in Cas
      PROVE  given'[c] = NoPmt
  <2>1. given[c] = NoPmt
    BY <1>0, <1>5, <1>7, ToldParts DEF ToldCas, Unmixed, Happened
  <2> QED BY <1>2, <2>1, CasAre DEF Unlist, Destroy
<1>8. Unmixed' => ToldCas'
  BY <1>6, <1>7 DEF ToldCas
<1> QED BY <1>4, <1>8, ToldParts

\* A CA is told to stop.
LEMMA ToldStopPmt ==
    ASSUME AgendaInv, Told, [Next]_vars, StopPmt
    PROVE  Told'
<1>0. mishaps \subseteq mishaps'
  BY MishapsGrow
<1>1. Pops("stoppmt", {}) /\ UNCHANGED <<force, disabled, listed>>
      /\ given' = [given EXCEPT ![Of] = NoPmt]
  BY StopPmtPops DEF StopPmt, manVars
<1>2. Pending = {<<"stoppmt", Of>>} \cup Rest /\ Pending' = Rest /\ Of \in Cas
  BY <1>1, OfType DEF Pops, Heads, CaOps
<1>3. Pending' \subseteq Pending /\ \A op, c : <<op, c>> \in Pending /\ c # Of => <<op, c>> \in Pending'
  BY <1>2
<1>4. \A c \in Cas : given'[c] = IF c = Of THEN NoPmt ELSE given[c]
  BY <1>1, <1>2, CasAre
<1>5. \A c : Working(c)' <=> Working(c)
  BY <1>1 DEF Working
<1>6. ToldWorks'
  BY <1>1, <1>3, <1>5, ToldParts DEF ToldWorks
<1>7. Unmixed' => ToldCas'
  BY <1>0, <1>1, <1>3, <1>4, <1>5, ToldParts DEF ToldCas, Unmixed, Happened
<1>8. Unmixed' => ToldStops'
  <2> HAVE Unmixed'
  <2>1. ToldStops /\ force \in Cas \cup {NoCa}
    BY <1>0, ToldParts, CasAre DEF Unmixed, Happened
  <2>2. <<"noservice", "none">> \in Pending' =>
          \A c \in Cas : given'[c] = NoPmt \/ <<"stoppmt", c>> \in Pending'
    BY <1>3, <1>4, <2>1 DEF ToldStops
  <2>3. ASSUME NEW x \in Pending', x[1] = "service", force \notin {NoCa, x[2][2]}
        PROVE  given'[force] = NoPmt \/ <<"stoppmt", force>> \in Pending'
    BY <1>3, <1>4, <2>1, <2>3 DEF ToldStops
  <2> QED BY <1>1, <2>2, <2>3 DEF ToldStops
<1> QED BY <1>6, <1>7, <1>8, ToldParts

\* A CA is registered: nobody is left who was told anything.
LEMMA ToldList ==
    ASSUME AgendaInv, Listed, Told, [Next]_vars, ListCa
    PROVE  Told'
<1>0. mishaps \subseteq mishaps'
  BY MishapsGrow
<1>1. Pops("list", {}) /\ UNCHANGED <<force, disabled, given>> /\ listed' = [listed EXCEPT ![Of] = "man"]
  BY ListCaPops DEF ListCa, manVars
<1>2. Pending = {<<"list", Of>>} /\ Pending' = {} /\ Of \in Cas
  <2>1. Rest = {}
    BY <1>1, RestBehind, BehindOf DEF Pops
  <2> QED BY <1>1, <2>1, OfType DEF Pops, Heads, CaOps
<1>3. given[Of] = NoPmt
  <2>1. ~InList(Of) /\ <<"destroy", Of>> \notin Pending
    BY <1>2, ListedParts DEF KnownCas
  <2> QED BY <1>2, <2>1, ListedParts DEF KnownCas
<1>4. ASSUME Unmixed, NEW c \in Cas, given'[c] # NoPmt PROVE Working(c)'
  <2>1. Working(c) /\ c # Of
    BY <1>1, <1>2, <1>3, <1>4, ToldParts DEF ToldCas
  <2> QED BY <1>1, <1>2, <2>1, CasAre DEF Working
<1>5. Unmixed' => ToldCas'
  BY <1>0, <1>1, <1>4, ToldParts DEF ToldCas, Unmixed, Happened
<1>6. ToldWorks' /\ ToldStops'
  BY <1>2 DEF ToldWorks, ToldStops
<1> QED BY <1>5, <1>6, ToldParts

\* match_ca_auto: a CA that is dropped is told to stop.
LEMMA ToldMatching ==
    ASSUME AgendaInv, Listed, Told, [Next]_vars, Unmatch \/ Match
    PROVE  Told'
<1>0. mishaps \subseteq mishaps'
  BY MishapsGrow
<1>1. UNCHANGED <<force, disabled, given>>
  BY DEF Unmatch, Match, manVars
<1>2. PICK op \in {"unmatch", "match"} :
         \E N : /\ Pops(op, N)
                /\ \A x \in N : x[1] \in {"enter", "open", "stoppmt"}
                /\ \/ \A c \in Cas : listed[c] = "ts" => listed'[c] = "ts"
                   \/ /\ listed' = [listed EXCEPT ![Of[1]] = "tmp"]
                      /\ op = "unmatch"
                      /\ Registered(Of[1]) => <<"stoppmt", Of[1]>> \in N
  <2>1. CASE Unmatch
    <3>1. PICK N : /\ Pops("unmatch", N)
                   /\ \/ N = {} /\ UNCHANGED listed
                      \/ /\ listed' = [listed EXCEPT ![Of[1]] = "tmp"]
                         /\ N \subseteq {<<"enter", Ci>>, <<"stoppmt", Of[1]>>}
                         /\ Registered(Of[1]) => <<"stoppmt", Of[1]>> \in N
      BY <2>1, UnmatchPops
    <3>2. \A x \in N : x[1] \in {"enter", "open", "stoppmt"}
      BY <3>1
    <3> QED BY <3>1, <3>2
  <2>2. CASE Match
    <3>1. PICK N : Pops("match", N) /\ (N = {} \/ N \subseteq {<<"enter", Ci>>, <<"open", Of[1]>>})
      BY <2>2, MatchPops
    <3>2. \A x \in N : x[1] \in {"enter", "open", "stoppmt"}
      BY <3>1
    <3>3. listed' = [listed EXCEPT ![Of[1]] = IF Matches(Of[1], Of[2]) THEN "ts" ELSE @]
      BY <2>2 DEF Match
    <3>4. \A c \in Cas : listed[c] = "ts" => listed'[c] = "ts"
      BY <3>3, CasAre
    <3> QED BY <3>1, <3>2, <3>4
  <2> QED BY <2>1, <2>2
<1>3. PICK N : /\ Pops(op, N)
               /\ \A x \in N : x[1] \in {"enter", "open", "stoppmt"}
               /\ \/ \A c \in Cas : listed[c] = "ts" => listed'[c] = "ts"
                  \/ /\ listed' = [listed EXCEPT ![Of[1]] = "tmp"]
                     /\ op = "unmatch"
                     /\ Registered(Of[1]) => <<"stoppmt", Of[1]>> \in N
  BY <1>2
<1>4. /\ Pending = {<<op, Of>>} \cup Rest /\ Pending' = N \cup Rest
      /\ \A y \in Rest : y[1] \in {"enter", "unmatch", "match", "collect", "give", "monitor", "from"}
  BY <1>3, RestBehind, BehindOf DEF Pops, Heads
<1>5. /\ \A x \in Pending : x[1] \notin {"start", "noservice", "service", "stoppmt", "destroy"}
      /\ \A x \in Pending' : x[1] \notin {"start", "noservice", "service"}
  BY <1>3, <1>4
<1>6. force = NoCa
  BY <1>4, HeadForced, ListedParts
<1>7. ToldWorks' /\ ToldStops'
  BY <1>1, <1>5, <1>6 DEF ToldWorks, ToldStops
<1>8. ASSUME Unmixed, NEW c \in Cas, given[c] # NoPmt
      PROVE  Working(c)' \/ <<"stoppmt", c>> \in Pending'
  <2>1. listed[c] = "ts"
    BY <1>5, <1>6, <1>8, ToldParts DEF ToldCas, Working
  <2>2. CASE listed'[c] = "ts"
    BY <1>1, <1>6, <2>2 DEF Working
  <2>3. CASE listed'[c] # "ts"
    <3>1. /\ listed' = [listed EXCEPT ![Of[1]] = "tmp"]
          /\ Registered(Of[1]) => <<"stoppmt", Of[1]>> \in N
      BY <1>3, <2>1, <2>3
    <3>2. c = Of[1]
      BY <2>1, <2>3, <3>1, CasAre
    <3>3. Registered(Of[1])
      BY <2>1, <3>2, CaAssumption DEF Registered
    <3> QED BY <1>4, <3>1, <3>2, <3>3
  <2> QED BY <2>2, <2>3
<1>9. Unmixed' => ToldCas'
  BY <1>0, <1>1, <1>8, ToldParts DEF ToldCas, Unmixed, Happened
<1> QED BY <1>7, <1>9, ToldParts

\* The service is set, or stopped.
LEMMA ToldService ==
    ASSUME AgendaInv, Told, [Next]_vars, SetService \/ NoMoreService
    PROVE  Told'
<1>0. mishaps \subseteq mishaps'
  BY MishapsGrow
<1>1. PICK op \in {"service", "noservice"} : Pops(op, {}) /\ At(op)
  BY SetServicePops, NoMoreServicePops DEF SetService, NoMoreService
<1>2. Pending = {<<op, Of>>} /\ Pending' = {} /\ <<op, Of>> \in AgendaTasks
  <2>1. Rest = {}
    BY <1>1, RestBehind, BehindOf DEF Pops
  <2> QED BY <1>1, <2>1 DEF Pops, Heads
<1>3. ToldWorks' /\ ToldStops'
  BY <1>2 DEF ToldWorks, ToldStops
<1>4. UNCHANGED <<given, listed>>
  BY DEF SetService, NoMoreService
<1>5. CASE SetService
  <2>1. op = "service"
    BY <1>1, <1>5 DEF SetService, At
  <2>2. /\ force' = Of[2] /\ disabled' = FALSE
        /\ Mishap(Of[2] # NoCa /\ \E d \in Cas \ {Of[2]} : given[d] # NoPmt, "mixed")
    BY <1>5 DEF SetService
  <2>3. \A c \in Cas : <<"stoppmt", c>> \notin Pending /\ <<"destroy", c>> \notin Pending
    BY <1>2, <2>1
  <2>4. ASSUME Unmixed', NEW c \in Cas, given[c] # NoPmt
        PROVE  Working(c)'
    <3>1. ToldCas /\ ToldStops
      BY <1>0, <2>4, ToldParts DEF Unmixed, Happened
    <3>2. CASE Of[2] # NoCa
      <4>1. c = Of[2]
        BY <2>2, <2>4, <3>2 DEF Mishap, Unmixed, Happened
      <4> QED BY <2>2, <3>2, <4>1 DEF Working
    <3>3. CASE Of[2] = NoCa
      <4>1. Working(c)
        BY <2>3, <2>4, <3>1 DEF ToldCas
      <4>2. force = NoCa
        <5> SUFFICES ASSUME force # NoCa PROVE FALSE
          OBVIOUS
        <5>1. given[force] = NoPmt \/ <<"stoppmt", force>> \in Pending
          <6> DEFINE x == <<op, Of>>
          <6>1. x \in Pending /\ x[1] = "service" /\ force \notin {NoCa, x[2][2]}
            BY <1>2, <2>1, <3>3
          <6> HIDE DEF x
          <6> QED BY <3>1, <6>1 DEF ToldStops
        <5>2. force \in Cas
          BY CasAre
        <5> QED BY <2>3, <2>4, <4>1, <5>1, <5>2 DEF Working
      <4> QED BY <1>4, <2>2, <3>3, <4>1, <4>2 DEF Working
    <3> QED BY <3>2, <3>3
  <2>5. Unmixed' => ToldCas'
    BY <1>4, <2>2, <2>4 DEF ToldCas
  <2> QED BY <1>3, <2>5, ToldParts
<1>6. CASE NoMoreService
  <2>1. op = "noservice"
    BY <1>1, <1>6 DEF NoMoreService, At
  <2>2. <<"noservice", "none">> \in Pending /\ \A c \in Cas : <<"stoppmt", c>> \notin Pending
    <3> DEFINE x == <<op, Of>>
    <3>1. x \in AgendaTasks /\ x[1] = "noservice" /\ x[2] = Of
      BY <1>2, <2>1
    <3> HIDE DEF x
    <3>2. Of = "none"
      BY <3>1 DEF AgendaTasks, CaOps
    <3> QED BY <1>2, <2>1, <3>2
  <2>3. Unmixed' => \A c \in Cas : given[c] = NoPmt
    BY <1>0, <2>2, ToldParts DEF ToldStops, Unmixed, Happened
  <2>4. Unmixed' => ToldCas'
    BY <1>4, <2>3 DEF ToldCas
  <2> QED BY <1>3, <2>4, ToldParts
<1> QED BY <1>5, <1>6

\* The PMT is given to the CAs that work.
LEMMA ToldGives ==
    ASSUME AgendaInv, Served, Listed, Told, [Next]_vars, StartPmt \/ Give \/ NewTable
    PROVE  Told'
<1>0. mishaps \subseteq mishaps'
  BY MishapsGrow
<1>1. UNCHANGED <<force, disabled, listed>>
  BY DEF StartPmt, Give, NewTable, manVars, caVars
<1>2. \A c : Working(c)' <=> Working(c)
  BY <1>1 DEF Working
<1>3. CASE StartPmt
  <2>1. Pops("start", {})
        /\ given' = [given EXCEPT ![Of] = IF Of = Ci => ci.started /\ ci.info
                                          THEN <<service, table["pmt"].prog>> ELSE given[Of]]
    BY <1>3, StartPmtPops DEF StartPmt
  <2>2. /\ Pending = {<<"start", Of>>} \cup Rest /\ Pending' = Rest /\ Of \in Cas
        /\ \A y \in Rest : y[1] \in {"enter", "start", "monitor", "from"}
    BY <2>1, OfType, RestBehind, BehindOf DEF Pops, Heads, CaOps
  <2>3. Working(Of) /\ ~disabled
    BY <2>2, ToldParts, ServedParts DEF ToldWorks, ServedStop
  <2>4. \A c \in Cas : c # Of => given'[c] = given[c]
    BY <2>1, <2>2, CasAre
  <2>5. ToldWorks' /\ ToldStops'
    BY <1>2, <2>2, ToldParts DEF ToldWorks, ToldStops
  <2>6. Unmixed' => ToldCas'
    <3> HAVE Unmixed'
    <3>1. ToldCas
      BY <1>0, ToldParts DEF Unmixed, Happened
    <3>2. \A c \in Cas : <<"stoppmt", c>> \notin Pending /\ <<"destroy", c>> \notin Pending
      BY <2>2
    <3> QED BY <1>1, <1>2, <2>3, <2>4, <3>1, <3>2 DEF ToldCas
  <2> QED BY <2>5, <2>6, ToldParts
<1>4. ASSUME UNCHANGED given,
             \A x \in Pending \cup Pending' : x[1] \notin {"stoppmt", "destroy", "noservice", "service"}
      PROVE  (Unmixed' => ToldCas') /\ ToldStops'
  <2>1. ToldStops'
    BY <1>4 DEF ToldStops
  <2>2. Unmixed' => ToldCas'
    BY <1>0, <1>1, <1>2, <1>4, ToldParts DEF ToldCas, Unmixed, Happened
  <2> QED BY <2>1, <2>2
<1>5. CASE Give
  <2>1. PICK N : Pops("give", N) /\ (N = {} \/ N \subseteq {<<"enter", Ci>>} \cup {<<"start", c>> : c \in In("ts")})
    BY <1>5, GivePops
  <2>2. /\ Pending = {<<"give", "none">>} \cup Rest /\ Pending' = N \cup Rest
        /\ \A y \in Rest : y[1] \in {"monitor", "from"}
    BY <2>1, TaskType, RestBehind, BehindOf DEF Pops, Heads
  <2>3. force = NoCa
    BY <2>2, ToldParts DEF ToldWorks
  <2>4. \A x \in N : x[1] \in {"enter", "start"} /\ (x[1] = "start" => Working(x[2]))
    BY <2>1, <2>3 DEF In, Working
  <2>5. ToldWorks'
    BY <1>1, <1>2, <2>2, <2>3, <2>4 DEF ToldWorks
  <2>6. \A x \in Pending \cup Pending' : x[1] \notin {"stoppmt", "destroy", "noservice", "service"}
    BY <2>2, <2>4
  <2>7. UNCHANGED given
    BY <1>5 DEF Give, caVars
  <2> QED BY <1>4, <2>5, <2>6, <2>7, ToldParts
<1>6. CASE NewTable
  <2>1. PICK N : /\ Pops("new", N)
                 /\ \/ table[Of].monitor /\ Changed(Of) /\ N = NewTsTasks(Of)
                    \/ table[Of].monitor /\ ~Changed(Of) /\ N = {<<"monitor", Of>>}
                    \/ ~table[Of].monitor /\ \E M : FirstTime(M) /\ N = M \cup {<<"monitor", Of>>}
    BY <1>6, NewTablePops
  <2>2. /\ Pending = {<<"new", Of>>} \cup Rest /\ Pending' = N \cup Rest
        /\ \A y \in Rest : y[1] = "from"
    BY <2>1, RestBehind, BehindOf DEF Pops, Heads
  <2>3. \A x \in N : /\ x[1] \notin {"stoppmt", "destroy", "noservice", "service"}
                     /\ x[1] = "start" => x[2] = force /\ force # NoCa
                     /\ x[1] = "give" => force = NoCa
    BY <2>1 DEF NewTsTasks, CloseTasks, FirstTime, Registered
  <2>4. ToldWorks'
    <3>1. \A c : <<"start", c>> \in Pending' => c = force /\ force # NoCa
      BY <2>2, <2>3
    <3>2. <<"give", "none">> \in Pending' => force = NoCa
      BY <2>2, <2>3
    <3> QED BY <1>1, <3>1, <3>2 DEF ToldWorks, Working
  <2>5. \A x \in Pending \cup Pending' : x[1] \notin {"stoppmt", "destroy", "noservice", "service"}
    BY <2>2, <2>3
  <2>6. UNCHANGED given
    BY <1>6 DEF NewTable, caVars
  <2> QED BY <1>4, <2>4, <2>5, <2>6, ToldParts
<1> QED BY <1>3, <1>5, <1>6

\* AM_CAMAN_startService and AM_CAMAN_stopService: those that work are told to stop.
LEMMA ToldCalls ==
    ASSUME AgendaInv, Listed, Told, [Next]_vars,
           StopService \/ \E s \in Services, c \in Cas \cup {NoCa} : StartService(s, c)
    PROVE  Told'
<1>0. mishaps \subseteq mishaps'
  BY MishapsGrow
<1>1. UNCHANGED <<force, disabled, listed, given>>
  BY DEF StopService, StartService, AppCall, AnyCall, manVars, caVars
<1>2. \A c : Working(c)' <=> Working(c)
  BY <1>1 DEF Working
<1>3. PICK N : /\ Starts(N)
               /\ \A x \in N : x[1] \in {"enter", "stoppmt", "service", "noservice"}
               /\ <<"noservice", "none">> \in N =>
                     /\ Registered(force) => <<"stoppmt", force>> \in N
                     /\ force = NoCa => \A c \in In("ts") : <<"stoppmt", c>> \in N
               /\ \A x \in N : x[1] = "service" =>
                     (force # x[2][2] /\ Registered(force) => <<"stoppmt", force>> \in N)
  <2>1. CASE StopService
    <3>1. PICK N : /\ Starts(N) /\ <<"noservice", "none">> \in N
                   /\ N \subseteq {<<"enter", Ci>>, <<"noservice", "none">>}
                                  \cup {<<"stoppmt", c>> : c \in Cas \cup {NoCa}}
                   /\ Registered(force) => <<"stoppmt", force>> \in N
                   /\ force = NoCa => \A c \in In("ts") : <<"stoppmt", c>> \in N
      BY <2>1, StopServiceStarts
    <3>2. \A x \in N : x[1] \in {"enter", "stoppmt", "noservice"}
      BY <3>1
    <3> QED BY <3>1, <3>2
  <2>2. CASE \E s \in Services, c \in Cas \cup {NoCa} : StartService(s, c)
    <3>1. PICK s \in Services, c \in Cas \cup {NoCa} : StartService(s, c)
      BY <2>2
    <3>2. PICK N : /\ Starts(N)
                   /\ N \subseteq {<<"enter", Ci>>, <<"stoppmt", force>>, <<"service", <<s, c>>>>}
                   /\ force # c /\ Registered(force) => <<"stoppmt", force>> \in N
      BY <3>1, StartServiceStarts
    <3>3. \A x \in N : /\ x[1] \in {"enter", "stoppmt", "service"}
                       /\ x[1] = "service" => x[2][2] = c
      BY <3>2
    <3> QED BY <3>2, <3>3
  <2> QED BY <2>1, <2>2
<1>4. Pending = {} /\ Pending' = N
  BY <1>3 DEF Starts, Idle
<1>5. ToldWorks'
  BY <1>3, <1>4 DEF ToldWorks
<1>6. ASSUME Unmixed', NEW c \in Cas, given[c] # NoPmt
      PROVE  Working(c) /\ Registered(c) /\ ~disabled
  <2>1. ToldCas /\ KnownCas
    BY <1>0, <1>6, ToldParts, ListedParts DEF Unmixed, Happened
  <2>2. Working(c) /\ InList(c) /\ ~disabled
    BY <1>4, <1>6, <2>1 DEF ToldCas, KnownCas
  <2> QED BY <2>2, CasAre
<1>7. Unmixed' => ToldCas'
  BY <1>1, <1>2, <1>6 DEF ToldCas
<1>8. Unmixed' => ToldStops'
  <2> HAVE Unmixed'
  <2>1. <<"noservice", "none">> \in N => \A c \in Cas : given[c] # NoPmt => <<"stoppmt", c>> \in N
    BY <1>3, <1>6 DEF Working, In
  <2>2. ASSUME NEW x \in N, x[1] = "service", force \notin {NoCa, x[2][2]}, given[force] # NoPmt
        PROVE  <<"stoppmt", force>> \in N
    <3>1. force \in Cas
      BY <2>2, CasAre
    <3> QED BY <1>3, <1>6, <2>2, <3>1
  <2> QED BY <1>1, <1>4, <2>1, <2>2 DEF ToldStops
<1> QED BY <1>5, <1>7, <1>8, ToldParts

LEMMA ToldNext == ASSUME AgendaInv, Removed, Listed, Served, Told, [Next]_vars PROVE Told'
BY ToldElse, ToldRemoval, ToldStopPmt, ToldList, ToldMatching, ToldService, ToldGives, ToldCalls
   DEF ToldElse0

-----------------------------------------------------------------------------
(* The watch.                                                                *)

Calm == ~Happened({"raced", "timeout", "lost", "paused"})
Eventful(t) == <<"new", t>> \in tsevt \/ <<"mon", t>> \in tsevt \/ <<"start", t>> \in tsevt
WatchTables ==
    \A t \in Tables : table[t].open =>
        \/ table[t].run \/ Eventful(t)
        \/ dmx.at # "idle" /\ dmx.table = t
        \/ <<"closets", "none">> \in Pending
        \/ <<"runfirst", t>> \in Pending \/ <<"runagain", t>> \in Pending
Seen ==
    \/ table["pat"].monitor
    \/ <<"mon", "pat">> \in tsevt \/ <<"start", "pat">> \in tsevt
    \/ <<"again", "pat">> \in Pending \/ <<"runagain", "pat">> \in Pending
    \/ /\ <<"monitor", "pat">> \in Pending
       /\ <<"first", "pmt">> \notin Pending /\ <<"runfirst", "pmt">> \notin Pending
Following == \/ service = NoService \/ table["pmt"].open \/ NewTs \in tsevt
             \/ <<"closets", "none">> \in Pending
WatchPat ==
    /\ Seen => Following
    /\ <<"handled", "ts">> \in Pending => <<"closets", "none">> \in Pending \/ ~Seen
WatchFirst ==
    \A t \in {"pat", "cat"} : <<"first", t>> \in Pending \/ <<"runfirst", t>> \in Pending =>
        ~table[t].open \/ <<"closets", "none">> \in Pending
Received == table["pat"].monitor \/ table["pat"].got # {}
WatchNew ==
    \/ <<"new", "pat">> \in tsevt \/ <<"new", "pat">> \in Pending
    \/ dmx.at = "end" /\ dmx.table = "pat"
    => Received

LEMMA WatchedParts ==
    /\ Watched <=> (Calm => WatchTables /\ WatchPat /\ WatchFirst /\ WatchNew)
    /\ Watched' <=> (Calm' => WatchTables' /\ WatchPat' /\ WatchFirst' /\ WatchNew')
<1>1. /\ Do("closets") = <<"closets", "none">>
      /\ \A op, x : For(op, x) = <<op, x>>
      /\ \A k, t : Evt(k, t) = <<k, t>>
  BY DEF Do, For, Evt
<1>2. \A t : Events(t) = {<<"new", t>>, <<"mon", t>>, <<"start", t>>}
  BY <1>1 DEF Events
<1>3. (PatSeen <=> Seen) /\ (PatSeen' <=> Seen')
  BY <1>1 DEF PatSeen, Seen, Waits
<1>4. /\ \A t \in Tables : Events(t) \cap tsevt # {} <=> Eventful(t)
      /\ \A t \in Tables : Events(t) \cap tsevt' # {} <=> Eventful(t)'
  BY <1>2 DEF Eventful
<1>5. Watched <=> (Calm => WatchTables /\ WatchPat /\ WatchFirst /\ WatchNew)
  <2> DEFINE G(t) == {Do("closets"), For("runfirst", t), For("runagain", t)} \cap Pending # {}
  <2>1. \A t \in Tables : G(t) <=> \/ <<"closets", "none">> \in Pending
                                   \/ <<"runfirst", t>> \in Pending \/ <<"runagain", t>> \in Pending
    BY <1>1
  <2>2. WatchTables <=> \A t \in Tables : table[t].open =>
              \/ table[t].run \/ Events(t) \cap tsevt # {}
              \/ dmx.at # "idle" /\ dmx.table = t
              \/ G(t)
    BY <1>4, <2>1 DEF WatchTables
  <2> HIDE <1>2, <1>4, <2>1
  <2> QED BY <1>1, <1>3, <2>2 DEF Watched, Calm, WatchPat, WatchFirst, WatchNew, Received, Following, Waits
<1>6. Watched' <=> (Calm' => WatchTables' /\ WatchPat' /\ WatchFirst' /\ WatchNew')
  <2> DEFINE G(t) == {Do("closets"), For("runfirst", t), For("runagain", t)} \cap Pending' # {}
  <2>1. \A t \in Tables : G(t) <=> \/ <<"closets", "none">> \in Pending'
                                   \/ <<"runfirst", t>> \in Pending' \/ <<"runagain", t>> \in Pending'
    BY <1>1
  <2>2. WatchTables' <=> \A t \in Tables : table'[t].open =>
              \/ table'[t].run \/ Events(t) \cap tsevt' # {}
              \/ dmx'.at # "idle" /\ dmx'.table = t
              \/ G(t)
    BY <1>4, <2>1 DEF WatchTables
  <2>3. \A t : Events(t)' = Events(t) /\ For("runfirst", t)' = For("runfirst", t)
    BY DEF Events, Evt, For
  <2> QED BY <1>1, <1>3, <2>2, <2>3 DEF Watched, Calm, WatchPat, WatchFirst, WatchNew, Received, Following, Waits
<1> QED BY <1>5, <1>6

WatchOps == {"closets", "runfirst", "runagain", "first", "again", "handled", "monitor", "new"}

LEMMA WatchFrame ==
    ASSUME Watched, Apart(WatchOps), UNCHANGED <<table, tsevt, dmx, service>>, mishaps \subseteq mishaps'
    PROVE  Watched'
<1>1. \A op \in WatchOps : \A x : <<op, x>> \in Pending' <=> <<op, x>> \in Pending
  BY ApartKeeps
<1>2. \A x : /\ <<"closets", x>> \in Pending' <=> <<"closets", x>> \in Pending
             /\ <<"runfirst", x>> \in Pending' <=> <<"runfirst", x>> \in Pending
             /\ <<"runagain", x>> \in Pending' <=> <<"runagain", x>> \in Pending
             /\ <<"first", x>> \in Pending' <=> <<"first", x>> \in Pending
             /\ <<"again", x>> \in Pending' <=> <<"again", x>> \in Pending
             /\ <<"handled", x>> \in Pending' <=> <<"handled", x>> \in Pending
             /\ <<"monitor", x>> \in Pending' <=> <<"monitor", x>> \in Pending
             /\ <<"new", x>> \in Pending' <=> <<"new", x>> \in Pending
  BY <1>1 DEF WatchOps
<1>3. Calm' => Calm
  BY DEF Calm, Happened
<1>4. WatchTables => WatchTables'
  BY <1>2 DEF WatchTables, Eventful
<1>5. WatchPat => WatchPat'
  BY <1>2 DEF WatchPat, Seen, Following
<1>6. (WatchFirst => WatchFirst') /\ (WatchNew => WatchNew')
  BY <1>2 DEF WatchFirst, WatchNew, Received
<1> QED BY <1>3, <1>4, <1>5, <1>6, WatchedParts

LEMMA WatchElse ==
    ASSUME AgendaInv, Watched, [Next]_vars,
           ~StopTable, ~CloseTables, ~StartTable, ~RunTable, ~TimeOut, ~Handling,
           ~SetService, ~NoMoreService, ~MonLock, ~MonWake, ~FendEvent, ~Section, ~Close
    PROVE  Watched'
<1> DEFINE Same == UNCHANGED <<table, tsevt, dmx, service>>
<1>0. Apart(WatchOps) /\ Same => Watched'
  BY WatchFrame, MishapsGrow
<1>1. CASE Synced
  <2>1. Same
    BY <1>1 DEF Synced, manVars, tableVars
  <2>2. Apart(WatchOps)
    BY <1>1, ReturnsBeyond DEF Apart, WatchOps
  <2> QED BY <1>0, <2>1, <2>2
<1>2. CASE \/ Enter \/ Arrange \/ Unmatch \/ Match \/ Collect \/ Give \/ StartPmt \/ StopPmt
  <2>1. Same
    BY <1>2 DEF Enter, Arrange, Unmatch, Match, Collect, Give, StartPmt, StopPmt, manVars, tableVars
  <2>2. Apart(WatchOps)
    BY <1>2, WorkBeyond, ReturnsBeyond DEF Apart, WatchOps
  <2> QED BY <1>0, <2>1, <2>2
<1>3. CASE \/ OpenCi \/ Register \/ Disable \/ Uncall \/ StopCi \/ CloseCa \/ Receive \/ Unlist \/ Destroy
  <2>1. Same
    BY <1>3 DEF OpenCi, Register, Disable, Uncall, StopCi, CloseCa, Receive, Unlist, Destroy, manVars,
       tableVars
  <2>2. Apart(WatchOps)
    BY <1>3, ReturnsBeyond DEF Apart, WatchOps
  <2> QED BY <1>0, <2>1, <2>2
<1>4. CASE ListCa \/ TakeMsg \/ SetPause \/ Quit
  <2>1. Same
    BY <1>4 DEF ListCa, TakeMsg, SetPause, Quit, manVars, tableVars
  <2>2. Apart(WatchOps)
    BY <1>4, ReturnsBeyond DEF Apart, WatchOps
  <2> QED BY <1>0, <2>1, <2>2
<1>5. CASE \/ \E c \in Cas : \/ RegisterCA(c) \/ UnregisterCA(c) \/ OpenCA(c) \/ CloseCA(c)
                             \/ StopCA(c) \/ PutMsg(c) \/ GetMsg(c)
  <2>1. Same
    BY <1>5 DEF RegisterCA, UnregisterCA, OpenCA, CloseCA, StopCA, PutMsg, GetMsg, AppCall, AnyCall,
       manVars, tableVars
  <2>2. Apart(WatchOps)
    BY <1>5, CallsBeyond DEF Apart, WatchOps, RemoveOps
  <2> QED BY <1>0, <2>1, <2>2
<1>6. CASE (\E s \in Services, c \in Cas \cup {NoCa} : StartService(s, c))
           \/ StopService \/ Pause \/ Resume
  <2>1. Same
    BY <1>6 DEF StartService, StopService, Pause, Resume, AppCall, AnyCall, manVars, tableVars
  <2>2. Apart(WatchOps)
    BY <1>6, OthersBeyond DEF Apart, WatchOps
  <2> QED BY <1>0, <2>1, <2>2
<1>7. CASE Joined \/ MonTop \/ Cam \/ \E t \in Tables : Change(t)
  <2>1. Same
    BY <1>7 DEF Joined, MonTop, Cam, CamPolls, CamInfo, CamSends, CamAdds, Change, manVars, tableVars
  <2>2. Apart(WatchOps)
    BY <1>7, OthersBeyond DEF Apart, WatchOps, RemoveOps
  <2> QED BY <1>0, <2>1, <2>2
<1>8. CASE UNCHANGED vars
  BY <1>0, <1>8, ApartSame DEF vars, workVars, manVars, tableVars
<1> HIDE DEF Same
<1> QED BY <1>1, <1>2, <1>3, <1>4, <1>5, <1>6, <1>7, <1>8
        DEF Next, Work, Tabling, CallingCas, Ending, Calls

\* What a step that only stops a table, or has a section of it, leaves of the watch.
TablesLike ==
    \A t \in Tables : /\ table'[t].open = table[t].open /\ table'[t].monitor = table[t].monitor
                      /\ table[t].got \subseteq table'[t].got

LEMMA WatchLike ==
    ASSUME Calm, Watched, Apart(WatchOps), UNCHANGED <<tsevt, service>>, TablesLike
    PROVE  /\ WatchPat' /\ WatchFirst' /\ (Received => Received')
           /\ UNCHANGED dmx => WatchNew'
           /\ \A op \in {"closets", "runfirst", "runagain", "new"} : \A x :
                 <<op, x>> \in Pending' <=> <<op, x>> \in Pending
<1>1. \A op \in WatchOps : \A x : <<op, x>> \in Pending' <=> <<op, x>> \in Pending
  BY ApartKeeps
<1>2. \A x : /\ <<"closets", x>> \in Pending' <=> <<"closets", x>> \in Pending
             /\ <<"runfirst", x>> \in Pending' <=> <<"runfirst", x>> \in Pending
             /\ <<"runagain", x>> \in Pending' <=> <<"runagain", x>> \in Pending
             /\ <<"first", x>> \in Pending' <=> <<"first", x>> \in Pending
             /\ <<"again", x>> \in Pending' <=> <<"again", x>> \in Pending
             /\ <<"handled", x>> \in Pending' <=> <<"handled", x>> \in Pending
             /\ <<"monitor", x>> \in Pending' <=> <<"monitor", x>> \in Pending
             /\ <<"new", x>> \in Pending' <=> <<"new", x>> \in Pending
  BY <1>1 DEF WatchOps
<1>3. WatchTables /\ WatchPat /\ WatchFirst /\ WatchNew
  BY WatchedParts
<1>4. {"pat", "cat", "pmt"} \subseteq Tables
  BY DEF Tables
<1>5. (Seen' <=> Seen) /\ (Following' <=> Following)
  BY <1>2, <1>4 DEF Seen, Following, TablesLike
<1>6. WatchPat' /\ WatchFirst'
  BY <1>2, <1>3, <1>4, <1>5 DEF WatchPat, WatchFirst, TablesLike
<1>7. Received => Received'
  <2>1. /\ table'["pat"].monitor = table["pat"].monitor
        /\ table["pat"].got \subseteq table'["pat"].got
    BY <1>4 DEF TablesLike
  <2> QED BY <2>1 DEF Received
<1>8. UNCHANGED dmx => WatchNew'
  BY <1>2, <1>3, <1>7 DEF WatchNew
<1>9. \A op \in {"closets", "runfirst", "runagain", "new"} : \A x :
         <<op, x>> \in Pending' <=> <<op, x>> \in Pending
  BY <1>2
<1> QED BY <1>6, <1>7, <1>8, <1>9

\* table_stop, and a table that is late.
LEMMA WatchStops ==
    ASSUME AgendaInv, Tabled, Watched, [Next]_vars, StopTable \/ TimeOut
    PROVE  Watched'
<1>0. mishaps \subseteq mishaps' /\ table \in [Tables -> TableType]
  BY MishapsGrow, TablesAre
<1>1. PICK op \in {"stop", "timeout"} : Heads(op) /\ At(op)
  BY StopTablePops, TimeOutPops DEF StopTable, TimeOut, Pops
<1>2. /\ table' = [table EXCEPT ![Of] = [table[Of] EXCEPT !.run = FALSE]]
      /\ UNCHANGED <<tsevt, service, dmx>> /\ Of \in Tables
  BY <1>1, OfType DEF StopTable, TimeOut, Set, manVars
<1>3. /\ \A t \in Tables \ {Of} : table'[t] = table[t]
      /\ table'[Of] = [table[Of] EXCEPT !.run = FALSE] /\ table[Of] \in TableType
  BY <1>0, <1>2
<1>4. TablesLike /\ \A t \in Tables : t # Of \/ ~table[t].run => table'[t].run = table[t].run
  BY <1>3 DEF TablesLike, TableType
<1>5. Apart(WatchOps)
  BY WorkBeyond DEF Apart, WatchOps
<1>6. ASSUME Calm' PROVE Calm /\ (table[Of].run => <<"closets", "none">> \in Pending)
  <2>1. Calm
    BY <1>0, <1>6 DEF Calm, Happened
  <2>2. CASE StopTable
    <3>1. op = "stop"
      BY <1>1, <2>2 DEF StopTable, At
    <3> QED BY <1>1, <1>2, <2>1, <3>1, TabledParts DEF TabledTasks, Heads
  <2>3. CASE TimeOut
    BY <1>6, <2>1, <2>3 DEF TimeOut, Mishap, Calm, Happened
  <2> QED BY <2>2, <2>3
<1>7. Calm' => WatchTables'
  <2> HAVE Calm'
  <2>1. \A op2 \in {"closets", "runfirst", "runagain", "new"} : \A x :
          <<op2, x>> \in Pending' <=> <<op2, x>> \in Pending
    BY <1>2, <1>4, <1>5, <1>6, WatchLike
  <2>2. WatchTables
    BY <1>6, WatchedParts
  <2>3. ASSUME NEW t \in Tables, table[t].open,
               t = Of /\ table[Of].run
        PROVE  <<"closets", "none">> \in Pending'
    BY <1>6, <2>1, <2>3
  <2>4. \A t \in Tables : Eventful(t)' <=> Eventful(t)
    BY <1>2 DEF Eventful
  <2> QED BY <1>2, <1>4, <2>1, <2>2, <2>3, <2>4 DEF WatchTables, TablesLike
<1> QED BY <1>2, <1>4, <1>5, <1>6, <1>7, WatchLike, WatchedParts

\* The callback.
LEMMA WatchSection ==
    ASSUME AgendaInv, Watched, [Next]_vars, Section
    PROVE  Watched'
<1>0. mishaps \subseteq mishaps' /\ table \in [Tables -> TableType] /\ dmx.table \in Tables
      /\ (Calm' => Calm) /\ "pat" \in Tables
  BY MishapsGrow, TablesAre DEF Calm, Happened, Tables
<1>1. UNCHANGED <<agenda, service>> /\ Pending' = Pending
  BY DEF Section, Capture, SectionDecodes, SectionEnds, workVars, manVars, Pending
<1>2. Apart(WatchOps)
  BY <1>1, ApartSame
<1>3. Calm => WatchTables /\ WatchPat /\ WatchFirst /\ WatchNew
  BY WatchedParts
<1>4. CASE \E t \in Tables : Capture(t)
  <2>1. UNCHANGED <<table, tsevt>> /\ dmx.at = "idle" /\ dmx'.at = "lock"
    BY <1>4 DEF Capture, NoSection, tableVars, manVars
  <2>2. TablesLike
    BY <2>1 DEF TablesLike
  <2>3. Calm => WatchPat' /\ WatchFirst' /\ (Received => Received')
    BY <1>1, <1>2, <2>1, <2>2, WatchLike
  <2>4. Calm => WatchTables'
    BY <1>1, <1>3, <2>1 DEF WatchTables, Eventful
  <2>5. Calm => WatchNew'
    BY <1>1, <1>3, <2>1, <2>3 DEF WatchNew
  <2> QED BY <1>0, <2>3, <2>4, <2>5, WatchedParts
<1>5. CASE SectionDecodes
  <2>1. /\ table' = [table EXCEPT ![dmx.table].got = table[dmx.table].got \cup {dmx.ver}]
        /\ UNCHANGED tsevt /\ dmx.at = "lock" /\ dmx'.at = "end" /\ dmx'.table = dmx.table
    <3>1. dmx \in [at : {"idle", "lock", "end"}, table : Tables, ver : Versions, copy : SUBSET AllEvents]
      BY DEF AgendaInv, TypeOK
    <3> QED BY <1>5, <3>1 DEF SectionDecodes, manVars
  <2>2. /\ \A t \in Tables \ {dmx.table} : table'[t] = table[t]
        /\ table'[dmx.table] = [table[dmx.table] EXCEPT !.got = table[dmx.table].got \cup {dmx.ver}]
        /\ table[dmx.table] \in TableType
    BY <1>0, <2>1
  <2>3. TablesLike /\ dmx.ver \in table'[dmx.table].got /\ \A t \in Tables : table'[t].run = table[t].run
    BY <2>2 DEF TablesLike, TableType
  <2>4. Calm => WatchPat' /\ WatchFirst' /\ (Received => Received')
    BY <1>1, <1>2, <2>1, <2>3, WatchLike
  <2>5. Calm => WatchTables'
    BY <1>1, <1>3, <2>1, <2>3 DEF WatchTables, Eventful, TablesLike
  <2>6. dmx.table = "pat" => Received'
    BY <2>3 DEF Received
  <2>7. Calm => WatchNew'
    BY <1>1, <1>3, <2>1, <2>4, <2>6 DEF WatchNew
  <2> QED BY <1>0, <2>4, <2>5, <2>7, WatchedParts
<1>6. CASE SectionEnds
  <2>1. /\ table' = [table EXCEPT ![dmx.table].run = FALSE] /\ dmx.at = "end" /\ dmx'.at = "idle"
        /\ Mishap(dmx.copy # tsevt \/ Evt("new", dmx.table) \notin tsevt', "raced")
        /\ tsevt' = dmx.copy \cup {Evt("new", dmx.table)} \/ tsevt' = tsevt
    BY <1>6 DEF SectionEnds, NoSection
  <2>2. /\ \A t \in Tables \ {dmx.table} : table'[t] = table[t]
        /\ table'[dmx.table] = [table[dmx.table] EXCEPT !.run = FALSE]
        /\ table[dmx.table] \in TableType
    BY <1>0, <2>1
  <2>3. TablesLike /\ \A t \in Tables : table[t].got = table'[t].got
    BY <2>2 DEF TablesLike, TableType
  <2>4. SUFFICES ASSUME Calm' PROVE WatchTables' /\ WatchPat' /\ WatchFirst' /\ WatchNew'
    BY WatchedParts
  <2>5. tsevt' = tsevt \cup {<<"new", dmx.table>>}
    <3>1. dmx.copy = tsevt /\ Evt("new", dmx.table) \in tsevt'
      BY <2>1, <2>4 DEF Mishap, Calm, Happened
    <3> QED BY <2>1, <3>1 DEF Evt
  <2>6. WatchTables /\ WatchPat /\ WatchFirst /\ WatchNew
    BY <1>0, <1>3, <2>4
  <2>7. WatchTables'
    <3>1. \A t \in Tables : Eventful(t) => Eventful(t)'
      BY <2>5 DEF Eventful
    <3>2. \A t \in Tables : t = dmx.table => Eventful(t)'
      BY <2>5 DEF Eventful
    <3> QED BY <1>1, <2>2, <2>3, <2>6, <3>1, <3>2 DEF WatchTables, TablesLike
  <2>8. {"pat", "cat", "pmt"} \subseteq Tables
    BY DEF Tables
  <2>9. (Seen' => Seen) /\ (Following => Following')
    BY <1>1, <2>3, <2>5, <2>8 DEF Seen, Following, TablesLike
  <2>10. WatchPat' /\ WatchFirst'
    BY <1>1, <2>3, <2>6, <2>8, <2>9 DEF WatchPat, WatchFirst, TablesLike
  <2>11. Received => Received'
    BY <2>3, <2>8 DEF Received, TablesLike
  <2>12. WatchNew'
    BY <1>1, <2>1, <2>5, <2>6, <2>11 DEF WatchNew
  <2> QED BY <2>7, <2>10, <2>12
<1> QED BY <1>4, <1>5, <1>6 DEF Section

\* The end of close_ts: nothing is watched any more.
LEMMA WatchCloses ==
    ASSUME AgendaInv, Tabled, Watched, [Next]_vars, CloseTables
    PROVE  Watched'
<1>1. /\ Pops("closets", {}) /\ tsevt' = tsevt \cap {NewTs} /\ table' = [t \in Tables |-> Closed]
      /\ UNCHANGED dmx
  BY CloseTablesPops DEF CloseTables
<1>2. Pending' = Rest /\ \A y \in Rest : y[1] \in {"first", "handled", "from", "quit"}
  BY <1>1, RestBehind, BehindOf DEF Pops
<1>3. \A t \in Tables : ~table'[t].open /\ ~table'[t].monitor
  BY <1>1 DEF Closed
<1>4. dmx'.at = "idle"
  <2>1. Tabled' /\ dmx'.table \in Tables
    BY <1>1, TabledNext, TablesAre
  <2> QED BY <1>3, <2>1, TabledParts DEF TabledTables
<1>5. {"pat", "cat", "pmt"} \subseteq Tables
  BY DEF Tables
<1>6. \A t \in Tables, k \in {"new", "mon", "start"} : <<k, t>> \notin tsevt'
  BY <1>1 DEF NewTs, Evt, Tables
<1>7. ~Seen'
  BY <1>2, <1>3, <1>5, <1>6 DEF Seen
<1>8. WatchTables' /\ WatchPat' /\ WatchFirst'
  BY <1>3, <1>5, <1>7 DEF WatchTables, WatchPat, WatchFirst
<1>9. WatchNew'
  BY <1>2, <1>4, <1>5, <1>6 DEF WatchNew
<1> QED BY <1>8, <1>9, WatchedParts

\* A table is to be received.
LEMMA WatchStarts ==
    ASSUME AgendaInv, Watched, [Next]_vars, StartTable
    PROVE  Watched'
<1>0. mishaps \subseteq mishaps' /\ table \in [Tables -> TableType]
  BY MishapsGrow, TablesAre
<1>1. PICK op \in {"first", "again"} :
         At(op) /\ Pops(op, (IF table[Of].open THEN SyncTask ELSE {}) \cup {<<RunOp(op), Of>>})
  BY StartTablePops
<1>2. /\ table' = [table EXCEPT ![Of] = [table[Of] EXCEPT !.run = FALSE]]
      /\ tsevt' = tsevt \ Events(Of)
      /\ UNCHANGED <<service, dmx>> /\ Of \in Tables
  BY <1>1, OfType DEF StartTable, Set, Pops
<1>3. /\ \A t \in Tables \ {Of} : table'[t] = table[t]
      /\ table'[Of] = [table[Of] EXCEPT !.run = FALSE] /\ table[Of] \in TableType
  BY <1>0, <1>2
<1>4. /\ \A t \in Tables : /\ table'[t].open = table[t].open /\ table'[t].monitor = table[t].monitor
                           /\ table'[t].got = table[t].got
      /\ \A t \in Tables : t # Of => table'[t].run = table[t].run
  BY <1>3 DEF TableType
<1>5. /\ Pending = {<<op, Of>>} \cup Rest
      /\ \A z : z[1] # "sync" => (z \in Pending' <=> z = <<RunOp(op), Of>> \/ z \in Rest)
  <2>1. \A z \in SyncTask : z[1] = "sync"
    BY DEF SyncTask
  <2> QED BY <1>1, <2>1 DEF Pops, Heads
<1>6. RunOp(op) = IF op = "first" THEN "runfirst" ELSE "runagain"
  BY DEF RunOp
<1>7. {"pat", "cat", "pmt"} \subseteq Tables
  BY DEF Tables
<1>8. /\ tsevt' \subseteq tsevt
      /\ \A k, t : t # Of => (<<k, t>> \in tsevt' <=> <<k, t>> \in tsevt)
      /\ NewTs \in tsevt' <=> NewTs \in tsevt
  BY <1>2 DEF Events, Evt, NewTs, Tables
<1>9. (Calm' => Calm) /\ (Calm => WatchTables /\ WatchPat /\ WatchFirst /\ WatchNew)
  BY <1>0, WatchedParts DEF Calm, Happened
<1>10. <<"closets", "none">> \in Pending' <=> <<"closets", "none">> \in Pending
  BY <1>5, <1>6
<1>11. Calm' => WatchTables'
  <2> HAVE Calm'
  <2>1. WatchTables
    BY <1>9
  <2>2. ASSUME NEW t \in Tables, t # Of, table'[t].open
        PROVE  \/ table'[t].run \/ Eventful(t)'
               \/ dmx'.at # "idle" /\ dmx'.table = t
               \/ <<"closets", "none">> \in Pending'
               \/ <<"runfirst", t>> \in Pending' \/ <<"runagain", t>> \in Pending'
    <3>1. Eventful(t)' <=> Eventful(t)
      BY <1>8, <2>2 DEF Eventful
    <3>2. \A o \in {"runfirst", "runagain"} : <<o, t>> \in Pending => <<o, t>> \in Pending'
      BY <1>5
    <3> QED BY <1>2, <1>4, <1>10, <2>1, <2>2, <3>1, <3>2 DEF WatchTables
  <2>3. <<"runfirst", Of>> \in Pending' \/ <<"runagain", Of>> \in Pending'
    BY <1>5, <1>6
  <2> DEFINE G(t) == \/ table'[t].run \/ Eventful(t)'
                     \/ dmx'.at # "idle" /\ dmx'.table = t
                     \/ <<"closets", "none">> \in Pending'
                     \/ <<"runfirst", t>> \in Pending' \/ <<"runagain", t>> \in Pending'
  <2>4. \A t \in Tables : table'[t].open => G(t)
    BY <2>2, <2>3
  <2> QED BY <2>4 DEF WatchTables
<1>12. (Seen' => Seen) /\ (Following => Following')
  <2>1. Following => Following'
    BY <1>2, <1>4, <1>7, <1>8, <1>10 DEF Following
  <2>2. <<"again", "pat">> \in Pending' => <<"again", "pat">> \in Pending
    BY <1>5, <1>6
  <2>3. <<"runagain", "pat">> \in Pending' =>
          <<"runagain", "pat">> \in Pending \/ <<"again", "pat">> \in Pending
    BY <1>5, <1>6, <1>1
  <2>4. <<"monitor", "pat">> \in Pending' => <<"monitor", "pat">> \in Pending
    BY <1>5, <1>6
  <2>5. <<"first", "pmt">> \in Pending => <<"first", "pmt">> \in Pending' \/ <<"runfirst", "pmt">> \in Pending'
    BY <1>1, <1>5, <1>6
  <2>6. <<"runfirst", "pmt">> \in Pending => <<"runfirst", "pmt">> \in Pending'
    BY <1>1, <1>5
  <2> QED BY <1>4, <1>7, <1>8, <2>1, <2>2, <2>3, <2>4, <2>5, <2>6 DEF Seen
<1>13. <<"handled", "ts">> \in Pending' => <<"handled", "ts">> \in Pending
  BY <1>5, <1>6
<1>14. Calm' => WatchPat'
  BY <1>9, <1>10, <1>12, <1>13 DEF WatchPat
<1>15. \A t : <<"first", t>> \in Pending' \/ <<"runfirst", t>> \in Pending' =>
                 <<"first", t>> \in Pending \/ <<"runfirst", t>> \in Pending
  BY <1>1, <1>5, <1>6
<1>16. Calm' => WatchFirst'
  BY <1>4, <1>7, <1>9, <1>10, <1>15 DEF WatchFirst
<1>17. <<"new", "pat">> \in Pending' => <<"new", "pat">> \in Pending
  BY <1>5, <1>6
<1>18. Calm' => WatchNew'
  BY <1>2, <1>4, <1>7, <1>8, <1>9, <1>17 DEF WatchNew, Received
<1> QED BY <1>11, <1>14, <1>16, <1>18, WatchedParts

\* A table is received for the first time.
LEMMA WatchFirstTime ==
    ASSUME AgendaInv, Tabled, InUse, Watched, [Next]_vars, RunTable, At("runfirst")
    PROVE  Watched'
<1>0. mishaps \subseteq mishaps' /\ table \in [Tables -> TableType] /\ dmx.table \in Tables
  BY MishapsGrow, TablesAre
<1>1. Pops("runfirst", {})
  BY RunTablePops DEF At
<1>2. /\ Pending = {<<"runfirst", Of>>} \cup Rest /\ Pending' = Rest /\ Of \in Tables
      /\ \A y \in Rest : Before(<<"runfirst", Of>>, y)
      /\ \A y \in Rest : y[1] \in {"first", "handled", "monitor", "from"}
  BY <1>1, OfType, RestBehind, BehindOf DEF Pops, Heads
<1>3. \A y \in Rest : /\ y[1] = "first" => Of = "pat" /\ y[2] = "cat"
                      /\ y[1] = "handled" => Of # "pmt"
  BY <1>2 DEF Before
<1>4. /\ \A t \in Tables \ {Of} : table'[t] = table[t]
      /\ table'[Of].open /\ table'[Of].run /\ table'[Of].monitor = FALSE
      /\ UNCHANGED <<tsevt, service, dmx>>
  BY <1>0, <1>2 DEF RunTable, Set, At, Closed, manVars
<1>5. {"pat", "cat", "pmt"} \subseteq Tables
  BY DEF Tables
<1>6. SUFFICES ASSUME Calm' PROVE WatchTables' /\ WatchPat' /\ WatchFirst' /\ WatchNew'
  BY WatchedParts
<1>7. WatchTables /\ WatchPat /\ WatchFirst /\ WatchNew /\ ~Happened({"raced"})
  BY <1>0, <1>6, WatchedParts DEF Calm, Happened
<1>8. /\ <<"closets", "none">> \notin Pending /\ <<"closets", "none">> \notin Pending'
      /\ \A t : <<"runagain", t>> \notin Pending /\ <<"again", t>> \notin Pending'
      /\ \A t : t # Of => <<"runfirst", t>> \notin Pending
      /\ <<"runagain", "pat">> \notin Pending' /\ <<"new", "pat">> \notin Pending'
      /\ \A t : <<"runfirst", t>> \notin Pending'
  BY <1>2
<1>9. WatchTables'
  <2>1. \A t \in Tables : Eventful(t)' <=> Eventful(t)
    BY <1>4 DEF Eventful
  <2> QED BY <1>4, <1>7, <1>8, <2>1 DEF WatchTables
<1>10. WatchPat'
  <2>1. CASE Of = "pmt"
    <3>1. <<"handled", "ts">> \notin Pending'
      BY <1>2, <1>3, <2>1
    <3> QED BY <1>4, <2>1, <3>1 DEF WatchPat, Following
  <2>2. CASE Of # "pmt"
    <3>1. table'["pmt"] = table["pmt"] /\ (table'["pat"].monitor => table["pat"].monitor)
      BY <1>4, <1>5, <2>2
    <3>2. <<"first", "pmt">> \notin Pending /\ <<"runfirst", "pmt">> \notin Pending
      BY <1>2, <1>3, <2>2
    <3>3. <<"monitor", "pat">> \in Pending' => <<"monitor", "pat">> \in Pending
      BY <1>2
    <3>4. (Seen' => Seen) /\ (Following => Following')
      BY <1>4, <1>8, <3>1, <3>2, <3>3 DEF Seen, Following
    <3>5. <<"handled", "ts">> \in Pending' => <<"handled", "ts">> \in Pending
      BY <1>2
    <3> QED BY <1>7, <1>8, <3>4, <3>5 DEF WatchPat
  <2> QED BY <2>1, <2>2
<1>11. WatchFirst'
  <2>1. ASSUME NEW t \in {"pat", "cat"}, <<"first", t>> \in Pending' \/ <<"runfirst", t>> \in Pending'
        PROVE  ~table'[t].open
    <3>1. <<"first", t>> \in Rest
      BY <1>2, <1>8, <2>1
    <3>2. Of = "pat" /\ t = "cat" /\ <<"first", t>> \in Pending
      BY <1>2, <1>3, <3>1
    <3>3. ~table["cat"].open
      BY <1>7, <1>8, <3>2 DEF WatchFirst
    <3> QED BY <1>4, <1>5, <3>2, <3>3
  <2> QED BY <2>1 DEF WatchFirst
<1>12. WatchNew'
  <2>1. CASE Of # "pat"
    <3>1. table'["pat"] = table["pat"]
      BY <1>4, <1>5, <2>1
    <3> QED BY <1>4, <1>7, <1>8, <3>1 DEF WatchNew, Received
  <2>2. CASE Of = "pat"
    <3>1. ~table["pat"].open
      BY <1>2, <1>7, <1>8, <2>2 DEF WatchFirst
    <3>2. <<"new", "pat">> \notin tsevt
      BY <1>5, <1>7, <3>1, InUseParts DEF NewOpen, NewOf, Opens, Evt
    <3>3. dmx.at # "end" \/ dmx.table # "pat"
      BY <3>1, TabledParts DEF TabledTables
    <3> QED BY <1>4, <1>8, <3>2, <3>3 DEF WatchNew
  <2> QED BY <2>1, <2>2
<1> QED BY <1>9, <1>10, <1>11, <1>12

\* A table is received again.
LEMMA WatchAgain ==
    ASSUME AgendaInv, Watched, [Next]_vars, RunTable, At("runagain")
    PROVE  Watched'
<1>0. mishaps \subseteq mishaps' /\ table \in [Tables -> TableType]
  BY MishapsGrow, TablesAre
<1>1. Pops("runagain", {})
  BY RunTablePops DEF At
<1>2. /\ Pending = {<<"runagain", Of>>} \cup Rest /\ Pending' = Rest /\ Of \in Tables
      /\ \A y \in Rest : y[1] = "again"
  BY <1>1, OfType, RestBehind, BehindOf DEF Pops, Heads
<1>3. UNCHANGED <<tsevt, service, dmx>>
  BY DEF RunTable, manVars
<1>4. \/ ~table[Of].open /\ table' = table
      \/ /\ table[Of].open
         /\ \E g : table' = [table EXCEPT ![Of] = [table[Of] EXCEPT !.run = TRUE, !.monitor = TRUE, !.got = g]]
  <2>1. table' = [table EXCEPT ![Of] = IF ~table[Of].open THEN table[Of]
            ELSE [table[Of] EXCEPT !.run = TRUE, !.monitor = TRUE,
                     !.got = IF Of # "pmt" /\ table[Of].monitor THEN table[Of].got ELSE {}]]
    BY DEF RunTable, Set, At
  <2>2. ~table[Of].open => table' = table
    BY <1>0, <1>2, <2>1
  <2> QED BY <2>1, <2>2
<1>5. /\ \A t \in Tables \ {Of} : table'[t] = table[t]
      /\ \A t \in Tables : table'[t].open = table[t].open
      /\ table'[Of].open => table'[Of].run /\ table'[Of].monitor
      /\ ~table[Of].open => table' = table
  BY <1>0, <1>2, <1>4 DEF TableType
<1>6. {"pat", "cat", "pmt"} \subseteq Tables
  BY DEF Tables
<1>7. SUFFICES ASSUME Calm' PROVE WatchTables' /\ WatchPat' /\ WatchFirst' /\ WatchNew'
  BY WatchedParts
<1>8. WatchTables /\ WatchPat /\ WatchFirst /\ WatchNew
  BY <1>0, <1>7, WatchedParts DEF Calm, Happened
<1>9. /\ \A t : /\ <<"first", t>> \notin Pending' /\ <<"first", t>> \notin Pending
                /\ <<"runfirst", t>> \notin Pending' /\ <<"runfirst", t>> \notin Pending
                /\ <<"monitor", t>> \notin Pending' /\ <<"new", t>> \notin Pending'
                /\ <<"runagain", t>> \notin Pending'
                /\ t # Of => <<"runagain", t>> \notin Pending
                /\ <<"again", t>> \in Pending' => <<"again", t>> \in Pending
      /\ <<"closets", "none">> \notin Pending /\ <<"handled", "ts">> \notin Pending'
  BY <1>2
<1>10. WatchTables'
  <2>1. \A t \in Tables : Eventful(t)' <=> Eventful(t)
    BY <1>3 DEF Eventful
  <2> QED BY <1>3, <1>5, <1>8, <1>9, <2>1 DEF WatchTables
<1>11. WatchPat'
  <2>1. table'["pat"].monitor => Seen
    <3>1. CASE Of = "pat"
      <4>1. <<"runagain", "pat">> \in Pending
        BY <1>2, <3>1
      <4> QED BY <4>1 DEF Seen
    <3>2. CASE Of # "pat"
      BY <1>5, <1>6, <3>2 DEF Seen
    <3> QED BY <3>1, <3>2
  <2>2. Seen' => Seen
    BY <1>3, <1>9, <2>1 DEF Seen
  <2>3. Following => Following'
    BY <1>3, <1>5, <1>6, <1>9 DEF Following
  <2> QED BY <1>8, <1>9, <2>2, <2>3 DEF WatchPat
<1>12. WatchFirst'
  BY <1>9 DEF WatchFirst
<1>13. WatchNew'
  <2>1. Received => Received'
    <3>1. CASE Of = "pat"
      BY <1>5, <1>6, <3>1 DEF Received
    <3>2. CASE Of # "pat"
      BY <1>5, <1>6, <3>2 DEF Received
    <3> QED BY <3>1, <3>2
  <2> QED BY <1>3, <1>8, <1>9, <2>1 DEF WatchNew
<1> QED BY <1>10, <1>11, <1>12, <1>13

\* The thread looks at its events.
LEMMA WatchLooks ==
    ASSUME AgendaInv, Watched, [Next]_vars, Look
    PROVE  Watched'
<1>0. (Calm' => Calm) /\ (Calm => WatchTables /\ WatchPat /\ WatchFirst /\ WatchNew)
  BY MishapsGrow, WatchedParts DEF Calm, Happened
<1>1. PICK N : /\ Pops("from", N)
               /\ \/ \E t \in Tables, k \in 1 .. 4 :
                        Evt("new", t) \in tsevt /\ N = {<<"new", t>>, <<"from", k>>}
                  \/ \A x \in N : \E t \in Tables :
                        x = <<"again", t>> /\ Evt("start", t) \in tsevt
  BY LookPops
<1>2. Pending = {<<"from", Of>>} \cup Rest /\ Pending' = N \cup Rest
  BY <1>1 DEF Pops, Heads
<1>3. /\ \A x \in N : x[1] \in {"new", "from", "again"}
      /\ \A t : <<"new", t>> \in N => <<"new", t>> \in tsevt
      /\ \A t : <<"again", t>> \in N => <<"start", t>> \in tsevt
  <2>1. CASE \E t \in Tables, k \in 1 .. 4 :
               Evt("new", t) \in tsevt /\ N = {<<"new", t>>, <<"from", k>>}
    <3>1. PICK t \in Tables, k \in 1 .. 4 : Evt("new", t) \in tsevt /\ N = {<<"new", t>>, <<"from", k>>}
      BY <2>1
    <3>2. \A x \in N : x = <<"new", t>> \/ x = <<"from", k>>
      BY <3>1
    <3>3. \A u : /\ <<"new", u>> \in N => u = t
                 /\ <<"again", u>> \notin N
      BY <3>2
    <3>4. <<"new", t>> \in tsevt
      BY <3>1 DEF Evt
    <3>5. \A x \in N : x[1] \in {"new", "from", "again"}
      BY <3>2
    <3>6. ASSUME NEW u, <<"new", u>> \in N PROVE <<"new", u>> \in tsevt
      <4>1. u = t
        BY <3>3, <3>6
      <4> QED BY <3>4, <4>1
    <3>7. \A u : <<"again", u>> \notin N
      BY <3>3
    <3> QED BY <3>5, <3>6, <3>7
  <2>2. CASE \A x \in N : \E t \in Tables : x = <<"again", t>> /\ Evt("start", t) \in tsevt
    <3>1. \A x \in N : x = <<"again", x[2]>> /\ Evt("start", x[2]) \in tsevt
      BY <2>2
    <3>2. \A u : /\ <<"again", u>> \in N => Evt("start", u) \in tsevt
                 /\ <<"new", u>> \notin N
      BY <3>1
    <3>3. \A x \in N : x[1] \in {"new", "from", "again"}
      BY <3>1
    <3>4. \A u : <<"again", u>> \in N => <<"start", u>> \in tsevt
      BY <3>2 DEF Evt
    <3> QED BY <3>2, <3>3, <3>4
  <2> QED BY <1>1, <2>1, <2>2
<1>4. /\ \A z : z[1] \notin {"new", "from", "again"} => (z \in Pending' <=> z \in Pending)
      /\ \A t : <<"new", t>> \in Pending' => <<"new", t>> \in Pending \/ <<"new", t>> \in tsevt
      /\ \A t : <<"again", t>> \in Pending' => <<"again", t>> \in Pending \/ <<"start", t>> \in tsevt
  BY <1>2, <1>3
<1>5. \A x : /\ <<"closets", x>> \in Pending' <=> <<"closets", x>> \in Pending
             /\ <<"runfirst", x>> \in Pending' <=> <<"runfirst", x>> \in Pending
             /\ <<"runagain", x>> \in Pending' <=> <<"runagain", x>> \in Pending
             /\ <<"first", x>> \in Pending' <=> <<"first", x>> \in Pending
             /\ <<"handled", x>> \in Pending' <=> <<"handled", x>> \in Pending
             /\ <<"monitor", x>> \in Pending' <=> <<"monitor", x>> \in Pending
  BY <1>4
<1>6. UNCHANGED <<table, tsevt, dmx, service>>
  BY DEF Look, manVars, tableVars
<1>7. WatchTables => WatchTables'
  BY <1>5, <1>6 DEF WatchTables, Eventful
<1>8. WatchPat => WatchPat'
  <2>1. (Seen' => Seen) /\ (Following' <=> Following)
    BY <1>4, <1>5, <1>6 DEF Seen, Following
  <2> QED BY <1>5, <2>1 DEF WatchPat
<1>9. (WatchFirst => WatchFirst') /\ (WatchNew => WatchNew')
  BY <1>4, <1>5, <1>6 DEF WatchFirst, WatchNew, Received
<1> QED BY <1>0, <1>7, <1>8, <1>9, WatchedParts

\* A table is compared with what is known, or used for the first time.
LEMMA WatchNewTable ==
    ASSUME AgendaInv, Watched, [Next]_vars, NewTable
    PROVE  Watched'
<1>0. (Calm' => Calm) /\ (Calm => WatchTables /\ WatchPat /\ WatchFirst /\ WatchNew)
  BY MishapsGrow, WatchedParts DEF Calm, Happened
<1>1. PICK N : /\ Pops("new", N)
               /\ \/ table[Of].monitor /\ Changed(Of) /\ N = NewTsTasks(Of)
                  \/ table[Of].monitor /\ ~Changed(Of) /\ N = {<<"monitor", Of>>}
                  \/ ~table[Of].monitor /\ \E M : FirstTime(M) /\ N = M \cup {<<"monitor", Of>>}
  BY NewTablePops
<1>2. /\ Pending = {<<"new", Of>>} \cup Rest /\ Pending' = N \cup Rest /\ Of \in Tables
      /\ \A y \in Rest : y[1] = "from"
  BY <1>1, OfType, RestBehind, BehindOf DEF Pops, Heads
<1>3. UNCHANGED <<table, tsevt, dmx, service>>
  BY DEF NewTable, manVars
<1>4. WatchTables => WatchTables'
  <2>1. \A t : <<"closets", "none">> \notin Pending /\ <<"runfirst", t>> \notin Pending
               /\ <<"runagain", t>> \notin Pending
    BY <1>2
  <2> QED BY <1>3, <2>1 DEF WatchTables, Eventful
<1>5. /\ \A x \in N : /\ x # <<"handled", "ts">> /\ x[1] \notin {"new", "again", "runagain", "runfirst"}
                      /\ x = <<"monitor", "pat">> => Of = "pat"
                      /\ x[1] = "first" => <<"closets", "none">> \in N \/ x[2] = "pmt"
  BY <1>1, <1>2 DEF NewTsTasks, CloseTasks, FirstTime, Tables
<1>6. /\ <<"handled", "ts">> \notin Pending' /\ <<"new", "pat">> \notin Pending'
      /\ <<"again", "pat">> \notin Pending' /\ <<"runagain", "pat">> \notin Pending'
      /\ \A t : <<"runfirst", t>> \notin Pending'
      /\ <<"monitor", "pat">> \in Pending' => Of = "pat"
      /\ \A t : <<"first", t>> \in Pending' => <<"closets", "none">> \in Pending' \/ t = "pmt"
  BY <1>2, <1>5
<1>7. WatchFirst'
  BY <1>6 DEF WatchFirst
<1>8. WatchNew => WatchNew'
  BY <1>3, <1>6 DEF WatchNew, Received
<1>9. <<"closets", "none">> \notin Pending
  BY <1>2
<1>10. ASSUME WatchPat, WatchNew PROVE Seen' => Following'
  <2>1. CASE <<"closets", "none">> \in N
    BY <1>2, <2>1 DEF Following
  <2>2. Seen => Following'
    BY <1>3, <1>9, <1>10 DEF WatchPat, Following
  <2>3. ASSUME Seen', ~Seen, <<"closets", "none">> \notin N PROVE service = NoService
    <3>1. /\ <<"monitor", "pat">> \in Pending' /\ <<"first", "pmt">> \notin Pending'
      BY <1>3, <1>6, <2>3 DEF Seen
    <3>2. Of = "pat" /\ ~table["pat"].monitor
      BY <1>6, <2>3, <3>1 DEF Seen
    <3>3. table["pat"].got # {}
      BY <1>2, <1>10, <3>2 DEF WatchNew, Received
    <3>4. PICK M : FirstTime(M) /\ N = M \cup {<<"monitor", Of>>}
      BY <1>1, <3>2
    <3>5. <<"first", "pmt">> \notin M
      BY <1>2, <3>1, <3>4
    <3> QED BY <3>2, <3>3, <3>4, <3>5 DEF FirstTime
  <2> QED BY <1>3, <2>1, <2>2, <2>3 DEF Following
<1>11. WatchPat /\ WatchNew => WatchPat'
  BY <1>6, <1>10 DEF WatchPat
<1> QED BY <1>0, <1>4, <1>7, <1>8, <1>11, WatchedParts

\* It is to be looked at again.
LEMMA WatchMonitors ==
    ASSUME AgendaInv, Watched, [Next]_vars, MonitorTable
    PROVE  Watched'
<1>0. (Calm' => Calm) /\ (Calm => WatchTables /\ WatchPat /\ WatchFirst /\ WatchNew)
  BY MishapsGrow, WatchedParts DEF Calm, Happened
<1>1. /\ Pops("monitor", {}) /\ UNCHANGED <<table, dmx, service>>
      /\ tsevt' = (tsevt \cup {<<"mon", Of>>}) \ {<<"new", Of>>}
  BY MonitorTablePops DEF MonitorTable, Evt
<1>2. /\ Pending = {<<"monitor", Of>>} \cup Rest /\ Pending' = Rest /\ Of \in Tables
      /\ \A y \in Rest : y[1] = "from"
  BY <1>1, OfType, RestBehind, BehindOf DEF Pops, Heads
<1>3. /\ \A x \in Pending' : x[1] = "from"
      /\ \A x \in Pending : x[1] \in {"monitor", "from"}
  BY <1>2
<1>4. <<"closets", "none">> \notin Pending /\ \A t : <<"runfirst", t>> \notin Pending
                                                    /\ <<"runagain", t>> \notin Pending
                                                    /\ <<"first", t>> \notin Pending
  BY <1>3
<1>5. \A t \in Tables : Eventful(t) => Eventful(t)'
  BY <1>1 DEF Eventful
<1>6. WatchTables => WatchTables'
  BY <1>1, <1>4, <1>5 DEF WatchTables
<1>7. Of = "pat" => Seen
  BY <1>2, <1>4 DEF Seen
<1>8. Seen' => Seen
  BY <1>1, <1>3, <1>7 DEF Seen
<1>9. Following => Following'
  BY <1>1, <1>2, <1>4 DEF Following, NewTs, Evt, Tables
<1>10. WatchPat => WatchPat'
  BY <1>3, <1>8, <1>9 DEF WatchPat
<1>11. WatchFirst'
  BY <1>3 DEF WatchFirst
<1>12. WatchNew => WatchNew'
  BY <1>1, <1>3 DEF WatchNew, Received
<1> QED BY <1>0, <1>6, <1>10, <1>11, <1>12, WatchedParts

\* An event has been handled.
LEMMA WatchHandled ==
    ASSUME AgendaInv, Watched, [Next]_vars, Handled
    PROVE  Watched'
<1>0. (Calm' => Calm) /\ (Calm => WatchTables /\ WatchPat /\ WatchFirst /\ WatchNew)
  BY MishapsGrow, WatchedParts DEF Calm, Happened
<1>1. /\ Pops("handled", {}) /\ UNCHANGED <<table, dmx, service>>
      /\ tsevt' = tsevt \ {<<"new", Of>>}
      /\ Mishap(Of # "ts" /\ tsevt' # tsevt, "lost")
  BY HandledPops DEF Handled, Evt, tableVars
<1>2. /\ Pending = {<<"handled", Of>>} \cup Rest /\ Pending' = Rest
      /\ \A y \in Rest : y[1] = "from"
  BY <1>1, RestBehind, BehindOf DEF Pops, Heads
<1>3. /\ \A x \in Pending' : x[1] = "from"
      /\ \A x \in Pending : x[1] \in {"handled", "from"}
  BY <1>2
<1>4. <<"closets", "none">> \notin Pending /\ \A t : <<"runfirst", t>> \notin Pending
                                                    /\ <<"runagain", t>> \notin Pending
  BY <1>3
<1>5. SUFFICES ASSUME Calm' PROVE WatchTables' /\ WatchPat' /\ WatchFirst' /\ WatchNew'
  BY WatchedParts
<1>6. Of = "ts" \/ tsevt' = tsevt
  BY <1>1, <1>5 DEF Mishap, Calm, Happened
<1>7. \A t \in Tables, k \in {"new", "mon", "start"} : <<k, t>> \in tsevt' <=> <<k, t>> \in tsevt
  BY <1>1, <1>6 DEF Tables
<1>8. WatchTables'
  BY <1>0, <1>1, <1>4, <1>5, <1>7 DEF WatchTables, Eventful
<1>9. "pat" \in Tables
  BY DEF Tables
<1>10. Seen' => Seen
  BY <1>1, <1>3, <1>7, <1>9 DEF Seen
<1>11. WatchPat'
  <2>1. CASE Of = "ts"
    <3>1. ~Seen
      BY <1>0, <1>2, <1>4, <1>5, <2>1 DEF WatchPat
    <3> QED BY <1>10, <3>1 DEF WatchPat
  <2>2. CASE tsevt' = tsevt
    <3>1. Following => Following'
      BY <1>1, <1>4, <2>2 DEF Following
    <3> QED BY <1>0, <1>3, <1>5, <1>10, <3>1 DEF WatchPat
  <2> QED BY <1>6, <2>1, <2>2
<1>12. WatchFirst'
  BY <1>3 DEF WatchFirst
<1>13. WatchNew'
  BY <1>0, <1>1, <1>3, <1>5 DEF WatchNew, Received
<1> QED BY <1>8, <1>11, <1>12, <1>13

\* The service is set or stopped, the thread waits or wakes up, the frontend has an event,
\* AM_CAMAN_Close begins.
LEMMA WatchEvents ==
    ASSUME AgendaInv, Watched, [Next]_vars,
           SetService \/ NoMoreService \/ MonLock \/ MonWake \/ FendEvent \/ Close
    PROVE  Watched'
<1>0. (Calm' => Calm) /\ (Calm => WatchTables /\ WatchPat /\ WatchFirst /\ WatchNew)
  BY MishapsGrow, WatchedParts DEF Calm, Happened
<1>1. {"pat", "cat", "pmt"} \subseteq Tables
  BY DEF Tables
<1>2. UNCHANGED <<table, dmx>>
  BY DEF SetService, NoMoreService, MonLock, MonWake, FendEvent, Close, AppCall, AnyCall, tableVars
<1>3. CASE SetService \/ NoMoreService
  <2>1. PICK op \in {"service", "noservice"} : Pops(op, {})
    BY <1>3, SetServicePops, NoMoreServicePops
  <2>2. Pending = {<<op, Of>>} /\ Pending' = {}
    BY <2>1, RestBehind, BehindOf DEF Pops, Heads
  <2>3. \A x \in Pending : x[1] \in {"service", "noservice"}
    BY <2>2
  <2>4. /\ tsevt' \subseteq tsevt \cup {NewTs} /\ tsevt \subseteq tsevt'
        /\ NewTs \in tsevt' \/ service' = NoService
    BY <1>3 DEF SetService, NoMoreService
  <2>5. Following'
    BY <2>4 DEF Following
  <2>6. \A t : <<"closets", "none">> \notin Pending /\ <<"runfirst", t>> \notin Pending
               /\ <<"runagain", t>> \notin Pending
    BY <2>3
  <2>7. WatchTables => WatchTables'
    BY <1>2, <2>4, <2>6 DEF WatchTables, Eventful
  <2>8. WatchPat' /\ WatchFirst'
    BY <2>2, <2>5 DEF WatchPat, WatchFirst
  <2>9. WatchNew => WatchNew'
    BY <1>2, <2>2, <2>4 DEF WatchNew, Received, NewTs, Evt
  <2> QED BY <1>0, <2>7, <2>8, <2>9, WatchedParts
<1>4. CASE MonLock
  <2>1. PICK due \in SUBSET {t \in Tables : Evt("mon", t) \in tsevt} :
          tsevt' = (tsevt \ {Evt("mon", t) : t \in due}) \cup {Evt("start", t) : t \in due}
    BY <1>4 DEF MonLock
  <2>2. PICK N : Starts(N) /\ N \subseteq {<<"timeout", t>> : t \in {u \in Tables : table[u].run}}
    BY <1>4, MonLockStarts
  <2>3. Pending = {} /\ \A x \in Pending' : x[1] = "timeout"
    BY <2>2 DEF Starts, Idle
  <2>4. UNCHANGED service
    BY <1>4 DEF MonLock
  <2>5. /\ \A t \in Tables : /\ <<"new", t>> \in tsevt' <=> <<"new", t>> \in tsevt
                             /\ <<"mon", t>> \in tsevt' => <<"mon", t>> \in tsevt
                             /\ <<"mon", t>> \in tsevt => <<"mon", t>> \in tsevt' \/ <<"start", t>> \in tsevt'
                             /\ <<"start", t>> \in tsevt => <<"start", t>> \in tsevt'
                             /\ <<"start", t>> \in tsevt' => <<"start", t>> \in tsevt \/ <<"mon", t>> \in tsevt
        /\ NewTs \in tsevt' <=> NewTs \in tsevt
    BY <2>1 DEF Evt, NewTs
  <2>6. WatchTables => WatchTables'
    BY <1>2, <2>3, <2>5 DEF WatchTables, Eventful
  <2>7. (Seen' => Seen) /\ (Following => Following')
    BY <1>1, <1>2, <2>3, <2>4, <2>5 DEF Seen, Following
  <2>8. WatchPat => WatchPat'
    BY <2>3, <2>7 DEF WatchPat
  <2>9. WatchFirst' /\ (WatchNew => WatchNew')
    BY <1>1, <1>2, <2>3, <2>5 DEF WatchFirst, WatchNew, Received
  <2> QED BY <1>0, <2>6, <2>8, <2>9, WatchedParts
<1>5. ASSUME Pending = {}, UNCHANGED <<tsevt, service>>,
             \A x \in Pending' : /\ x[1] \in {"stop", "closets", "first", "handled", "from", "quit"}
                                 /\ x[1] \in {"first", "handled"} => <<"closets", "none">> \in Pending'
      PROVE  Watched'
  <2>1. WatchTables => WatchTables'
    BY <1>2, <1>5 DEF WatchTables, Eventful
  <2>2. (Seen' => Seen) /\ (Following => Following')
    BY <1>2, <1>5 DEF Seen, Following
  <2>3. <<"handled", "ts">> \in Pending' => <<"closets", "none">> \in Pending'
    BY <1>5
  <2>4. WatchPat => WatchPat'
    BY <2>2, <2>3 DEF WatchPat
  <2>5. WatchFirst' /\ (WatchNew => WatchNew')
    BY <1>2, <1>5 DEF WatchFirst, WatchNew, Received
  <2> QED BY <1>0, <2>1, <2>4, <2>5, WatchedParts
<1>6. CASE MonWake
  <2>1. PICK N : /\ Starts(N)
                 /\ \/ N = {} /\ tsevt' = {} /\ mpc' = "top"
                    \/ mpc' = "run" /\ NewTs \notin tsevt' /\ N = {<<"from", 1>>}
                    \/ mpc' = "run" /\ NewTs \in tsevt' /\ N = NewTsTasks("ts") \cup {<<"from", 1>>}
    BY <1>6, MonWakeStarts
  <2>2. Pending = {} /\ Pending' = N
    BY <2>1 DEF Starts, Idle
  <2>3. \A x \in N : /\ x[1] \in {"stop", "closets", "first", "handled", "from", "quit"}
                     /\ x[1] \in {"first", "handled"} => <<"closets", "none">> \in N
    BY <2>1 DEF NewTsTasks, CloseTasks
  <2>4. Calm' => tsevt' = tsevt
    BY <1>6 DEF MonWake, Mishap, Calm, Happened
  <2>5. UNCHANGED service
    BY <1>6 DEF MonWake
  <2> QED BY <1>5, <2>2, <2>3, <2>4, <2>5, WatchedParts
<1>7. CASE Close
  <2>1. Pending = {} /\ Pending' = CloseTasks \cup {<<"quit", "none">>}
    BY <1>7, CloseStarts DEF Starts, Idle
  <2>2. \A x \in Pending' : x[1] \in {"stop", "closets", "quit"}
    BY <2>1 DEF CloseTasks
  <2>3. UNCHANGED <<tsevt, service>>
    BY <1>7 DEF Close, AppCall, AnyCall, manVars
  <2> QED BY <1>5, <2>1, <2>2, <2>3
<1>8. CASE FendEvent
  <2>1. tsevt' = tsevt \cup {NewTs} /\ UNCHANGED <<agenda, service>>
    BY <1>8 DEF FendEvent, workVars
  <2>2. Pending' = Pending
    BY <2>1 DEF Pending
  <2>3. \A t \in Tables, k \in {"new", "mon", "start"} : <<k, t>> \in tsevt' <=> <<k, t>> \in tsevt
    BY <2>1 DEF NewTs, Evt, Tables
  <2>4. WatchTables => WatchTables'
    BY <1>2, <2>2, <2>3 DEF WatchTables, Eventful
  <2>5. (Seen' => Seen) /\ Following'
    BY <1>1, <1>2, <2>1, <2>2, <2>3 DEF Seen, Following
  <2>6. WatchPat => WatchPat'
    BY <2>2, <2>5 DEF WatchPat
  <2>7. (WatchFirst => WatchFirst') /\ (WatchNew => WatchNew')
    BY <1>1, <1>2, <2>2, <2>3 DEF WatchFirst, WatchNew, Received
  <2> QED BY <1>0, <2>4, <2>6, <2>7, WatchedParts
<1> QED BY <1>3, <1>4, <1>6, <1>7, <1>8

LEMMA WatchedNext == ASSUME AgendaInv, Tabled, InUse, Watched, [Next]_vars PROVE Watched'
<1>1. RunTable => At("runfirst") \/ At("runagain")
  BY DEF RunTable
<1> QED BY <1>1, WatchElse, WatchStops, WatchSection, WatchCloses, WatchStarts, WatchFirstTime, WatchAgain,
       WatchLooks, WatchNewTable, WatchMonitors, WatchHandled, WatchEvents DEF Handling

-----------------------------------------------------------------------------
(* The theorems.                                                             *)

LEMMA Nothing == Range(<< >>) = {}
BY GoodNone

LEMMA InitTypes == Init => TypeOK
<1> SUFFICES ASSUME Init PROVE TypeOK
  OBVIOUS
<1>1. /\ lock \in {Nobody, "mon", "app"} /\ agenda \in Seq(AgendaTasks)
      /\ mpc \in {"top", "lock", "late", "wait", "run", "gone"}
      /\ apc \in {"idle", "run", "join", "remove", "over"}
      /\ tsevt \subseteq AllEvents /\ {quit, paused, disabled} \subseteq BOOLEAN
      /\ service \in Services \cup {NoService} /\ force \in Cas \cup {NoCa}
      /\ mishaps \subseteq Mishaps
  <2>1. << >> \in Seq(AgendaTasks)
    OBVIOUS
  <2>2. agenda \in Seq(AgendaTasks)
    BY <2>1 DEF Init
  <2>3. lock = Nobody /\ mpc = "top" /\ apc = "idle"
    BY DEF Init
  <2>4. quit \in BOOLEAN /\ paused \in BOOLEAN /\ disabled \in BOOLEAN
    BY DEF Init
  <2>5. tsevt \subseteq AllEvents /\ mishaps \subseteq Mishaps
    BY DEF Init
  <2>6. service \in Services \cup {NoService} /\ force \in Cas \cup {NoCa}
    BY DEF Init
  <2> QED BY <2>2, <2>3, <2>4, <2>5, <2>6
<1>2. /\ listed \in [Cas -> {"none", "man", "ts", "tmp"}]
      /\ {status, bound, opened} \subseteq [Cas -> BOOLEAN]
      /\ given \in [Cas -> {NoPmt} \cup (Services \cup {NoService}) \X Services]
      /\ msgs \in [Cas -> 0 .. MaxMsgs]
  <2>1. 0 \in 0 .. MaxMsgs
    BY BoundsAssumption
  <2> QED BY <2>1 DEF Init
<1>3. 0 \in Versions
  BY BoundsAssumption DEF Versions
<1>4. /\ table \in [Tables -> [open : BOOLEAN, run : BOOLEAN, monitor : BOOLEAN,
                               got : SUBSET Versions, pid : Versions \cup {-1},
                               prog : Services \cup {NoService}]]
      /\ ver \in [Tables -> Versions \cup {-1}] /\ air \in [Tables -> Versions]
      /\ tlock \in [Tables -> {Nobody, "mon", "dmx"}]
  BY <1>3 DEF Init, Closed
<1>5. dmx \in [at : {"idle", "lock", "end"}, table : Tables, ver : Versions, copy : SUBSET AllEvents]
  BY <1>3 DEF Init, NoSection, Tables
<1>6. clock \in {Nobody, "mon", "app", "cam"} /\ cilock \in {Nobody, "app", "cam"}
      /\ cam \in {"none", "poll", "ci", "ca", "man"}
  BY DEF Init
<1>7. ci \in [started : BOOLEAN, quit : BOOLEAN, called : BOOLEAN, info : BOOLEAN,
              send : BOOLEAN, enabled : BOOLEAN, pmt : BOOLEAN, freed : BOOLEAN]
  BY DEF Init
<1>8. spent \in [calls : 0 .. MaxCalls, changes : 0 .. MaxChanges,
                 fend : 0 .. MaxFend, rounds : 0 .. MaxRounds, msgs : 0 .. MaxMsgs]
  <2>1. /\ 0 \in 0 .. MaxCalls /\ 0 \in 0 .. MaxChanges /\ 0 \in 0 .. MaxFend
        /\ 0 \in 0 .. MaxRounds /\ 0 \in 0 .. MaxMsgs
    BY BoundsAssumption
  <2> QED BY <2>1 DEF Init
<1> QED BY <1>1, <1>2, <1>4, <1>5, <1>6, <1>7, <1>8 DEF TypeOK

LEMMA InitAgenda == Init => AgendaInv /\ Pending = {}
<1> SUFFICES ASSUME Init PROVE AgendaInv /\ Pending = {}
  OBVIOUS
<1>1. agenda = << >> /\ lock = Nobody /\ mpc = "top" /\ apc = "idle"
  BY DEF Init
<1>2. Pending = {}
  BY <1>1, Nothing DEF Pending
<1>3. Owned /\ Ordered
  BY <1>1, <1>2 DEF Owned, Ordered, Nobody
<1> QED BY <1>2, <1>3, InitTypes DEF AgendaInv

LEMMA InitInv == Init => CamanInv
<1> SUFFICES ASSUME Init PROVE CamanInv
  OBVIOUS
<1>1. AgendaInv /\ Pending = {}
  BY InitAgenda
<1>2. /\ tsevt = {} /\ quit = FALSE /\ disabled = FALSE /\ force = NoCa
      /\ dmx.at = "idle" /\ mpc = "top"
      /\ \A t \in Tables : table[t] = Closed /\ tlock[t] = Nobody
      /\ \A c \in Cas : /\ listed[c] = "man" /\ status[c] = FALSE /\ opened[c] = FALSE
                        /\ given[c] = NoPmt /\ msgs[c] = 0
  BY DEF Init, NoSection
<1>3. ~Closed.open /\ ~Closed.run /\ ~Closed.monitor
  BY DEF Closed
<1>4. {"pat", "cat", "pmt"} \subseteq Tables
  BY DEF Tables
<1>5. Tabled
  BY <1>1, <1>2, <1>3, <1>4, TabledParts DEF TabledTasks, TabledTables
<1>6. InUse
  BY <1>1, <1>2, InUseParts DEF Held, NewOpen, Nobody
<1>7. ClosedDown
  BY <1>1, <1>2 DEF ClosedDown
<1>8. Served
  <2>1. NoPmt[1] = NoPmt[2]
    BY DEF NoPmt
  <2> QED BY <1>1, <1>2, <1>3, <1>4, <2>1, ServedParts DEF ServedStop, ServedPmt, ServedRun, ServedTasks, ServedCas
<1>9. Watched
  BY <1>1, <1>2, <1>3, <1>4, WatchedParts DEF WatchTables, WatchPat, WatchFirst, WatchNew, Seen
<1>10. Removed
  BY <1>1 DEF Removed, Waits
<1>11. Listed
  BY <1>1, <1>2, ListedParts DEF CalledCas, KnownCas, OpenCas, ForcedTasks, ForcedCa, InList
<1>12. Polled
  <2>1. /\ cam = "none" /\ ci.started = FALSE /\ ci.freed = FALSE
    BY DEF Init
  <2>2. status[Ci] = FALSE
    BY <1>2, CaAssumption
  <2> QED BY <1>1, <2>1, <2>2 DEF Polled, Waits
<1>13. Told
  BY <1>1, <1>2, ToldParts DEF ToldWorks, ToldCas, ToldStops
<1>14. Counted
  <2>1. spent.msgs = 0 /\ cam = "none"
    BY DEF Init
  <2> QED BY <1>1, <1>2, <2>1 DEF Counted, Waits
<1> QED BY <1>1, <1>5, <1>6, <1>7, <1>8, <1>9, <1>10, <1>11, <1>12, <1>13, <1>14 DEF CamanInv, TableInv

LEMMA NextInv == CamanInv /\ [Next]_vars => CamanInv'
BY AgendaNext, TabledNext, CountedNext, InUseNext, DownNext, ServedNext, WatchedNext, RemovedNext, ListedNext,
   PolledNext, ToldNext DEF CamanInv, TableInv

\* The invariant of the manager: what the holder of man->lock has yet to do agrees with the tables,
\* the service, the CAs and the CI, however the four threads interleave.
THEOREM CamanCorrect == Spec => []CamanInv
<1>1. Init => CamanInv
  BY InitInv
<1>2. CamanInv /\ [Next]_vars => CamanInv'
  BY NextInv
<1> QED BY <1>1, <1>2, PTL DEF Spec

\* The fields of AM_CAMAN_Ts_t, of the CAs and of the CI have the values the code gives them.
THEOREM TypeCorrect == Spec => []TypeOK
<1>1. CamanInv => TypeOK
  BY DEF CamanInv, AgendaInv
<1> QED BY <1>1, CamanCorrect, PTL

\* Nobody holds man->lock, or removes the CAs: then nothing waits to be done.
LEMMA QuietIs == ASSUME CamanInv, Quiet PROVE Pending = {}
<1>1. agenda = << >>
  BY DEF CamanInv, AgendaInv, Owned, Quiet
<1> QED BY <1>1, Nothing DEF Pending

\* ca_ci_startpmt is called with the PMT of the service that AM_CAMAN_startService has set, and after
\* AM_CAMAN_stopService no CA works on a service.
THEOREM ServiceCorrect == Spec => []PmtOfService
<1>1. CamanInv => PmtOfService
  <2> SUFFICES ASSUME CamanInv PROVE PmtOfService
    OBVIOUS
  <2>1. {"paused", "raced"} \cap mishaps = {} => \A c \in Cas : given[c][1] = given[c][2]
    BY ServedParts DEF CamanInv, Orderly, Happened, ServedCas
  <2>2. "mixed" \notin mishaps => Unmixed
    BY DEF Unmixed, Happened
  <2>3. disabled /\ "mixed" \notin mishaps => \A c \in Cas : given[c] = NoPmt
    BY <2>2, ToldParts DEF CamanInv, ToldCas
  <2> QED BY <2>1, <2>3 DEF PmtOfService
<1> QED BY <1>1, CamanCorrect, PTL

\* While caman_thread sleeps, its tables are being received or have an event that lets it receive
\* them again; the PMT of a service has been asked for when the PAT is known.
THEOREM WatchCorrect == Spec => []TablesWatched
<1>1. CamanInv => TablesWatched
  <2> SUFFICES ASSUME CamanInv PROVE TablesWatched
    OBVIOUS
  <2> SUFFICES ASSUME Quiet, dmx.at = "idle", {"raced", "timeout", "lost", "paused"} \cap mishaps = {},
                      NewTs \notin tsevt
               PROVE  /\ \A t \in Tables : table[t].open => table[t].run \/ Events(t) \cap tsevt # {}
                      /\ service # NoService /\ Evt("mon", "pat") \in tsevt => table["pmt"].open
    BY DEF TablesWatched
  <2>1. WatchTables /\ WatchPat
    BY WatchedParts DEF CamanInv, Calm, Happened
  <2>2. Pending = {}
    BY QuietIs
  <2>3. \A t \in Tables : Eventful(t) => Events(t) \cap tsevt # {}
    BY DEF Eventful, Events, Evt
  <2>4. \A t \in Tables : table[t].open => table[t].run \/ Events(t) \cap tsevt # {}
    BY <2>1, <2>2, <2>3 DEF WatchTables
  <2>5. service # NoService /\ Evt("mon", "pat") \in tsevt => table["pmt"].open
    BY <2>1, <2>2 DEF WatchPat, Seen, Following, Evt
  <2> QED BY <2>4, <2>5
<1> QED BY <1>1, CamanCorrect, PTL

\* section_handler has a table that is open, the thread the lock of one that is; a CA in ca_force is
\* registered; ca_ci_destroy frees what no thread of the CAM uses; AM_CAMAN_Close leaves no table
\* running and no callback.
THEOREM FreedCorrect == Spec => []NothingFreedIsUsed
<1>1. CamanInv => NothingFreedIsUsed
  <2> SUFFICES ASSUME CamanInv PROVE NothingFreedIsUsed
    OBVIOUS
  <2>1. dmx.at # "idle" => table[dmx.table].open
    BY TabledParts DEF CamanInv, TableInv, TabledTables
  <2>2. "raced" \notin mishaps => \A t \in Tables : tlock[t] = "mon" => table[t].open
    BY InUseParts DEF CamanInv, TableInv, Held, NewOpen, Opens, Happened
  <2>3. "dangling" \notin mishaps => force = NoCa \/ Registered(force)
    BY ListedParts DEF CamanInv, ForcedCa, Happened
  <2>4. ci.freed => cam = "none"
    BY DEF CamanInv, Polled
  <2>5. "matched" \notin mishaps /\ Quiet => \A c \in Cas : opened[c] => Registered(c)
    BY QuietIs, ListedParts, CasAre DEF CamanInv, OpenCas, Happened
  <2>6. apc = "over" /\ "restarted" \notin mishaps => dmx.at = "idle" /\ \A t \in Tables : ~table[t].run
    <3>1. apc = "over" => quit
      BY DEF CamanInv, AgendaInv, Owned
    <3>2. ~Closed.run
      BY DEF Closed
    <3> QED BY <3>1, <3>2 DEF CamanInv, TableInv, ClosedDown, Happened
  <2> QED BY <2>1, <2>2, <2>3, <2>4, <2>5, <2>6 DEF NothingFreedIsUsed
<1> QED BY <1>1, CamanCorrect, PTL

\* A CI that is open polls its CAM, and ca_ci.c has the function that takes the CAM's messages.
THEOREM HeardCorrect == Spec => []OpenCaIsHeard
<1>1. CamanInv => OpenCaIsHeard
  <2> SUFFICES ASSUME CamanInv, status[Ci], Quiet, {"matched", "reopened", "nocam"} \cap mishaps = {}
               PROVE  cam # "none" /\ ci.called /\ ci.send /\ ci.enabled
    BY DEF OpenCaIsHeard
  <2>1. ~Waits("closed", Ci)
    BY QuietIs DEF Waits
  <2>2. ci.started /\ ~ci.quit /\ ci.called /\ ci.send /\ ci.enabled
    BY <2>1 DEF CamanInv, Polled, Happened
  <2> QED BY <2>2 DEF CamanInv, Polled
<1> QED BY <1>1, CamanCorrect, PTL

============================================================================
