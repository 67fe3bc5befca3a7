--------------------------- MODULE AmTfileProofs ---------------------------
(* Proofs about AmTfile.                                                     *)
EXTENDS AmTfile, SequenceTheorems, FiniteSetTheorems, TLAPS

----------------------------------------------------------------------------
(* Arithmetic modulo the size of the ring.                                   *)

LEMMA ModDef ==
    ASSUME NEW n \in Nat \ {0}, NEW x \in Int
    PROVE  /\ x % n \in 0 .. n - 1 /\ x \div n \in Int
           /\ x = ((x \div n) * n) + (x % n)
  BY Z3

LEMMA ModUnique ==
    ASSUME NEW n \in Nat \ {0}, NEW x \in Int, NEW q \in Int, NEW r \in 0 .. n - 1,
           x = (q * n) + r
    PROVE  x % n = r
<1> DEFINE p == x \div n
           s == x % n
<1>1. p \in Int /\ s \in 0 .. n - 1 /\ x = (p * n) + s
  BY ModDef
<1> HIDE DEF p, s
<1>2. ASSUME NEW i \in Int, NEW j \in Int, i > j
      PROVE  (i * n) - (j * n) >= n
  <2>1. (i - j) >= 1 /\ (i - j) \in Int
    BY <1>2
  <2>2. (i - j) * n = (i * n) - (j * n)
    BY <1>2
  <2>3. ASSUME NEW d \in Int, d >= 1 PROVE d * n >= n
    BY <2>3, Z3
  <2> QED BY <2>1, <2>2, <2>3
<1>3. ~(p > q)
  <2> SUFFICES ASSUME p > q PROVE FALSE
    OBVIOUS
  <2>1. (p * n) - (q * n) >= n
    BY <1>1, <1>2
  <2>2. (p * n) \in Int /\ (q * n) \in Int
    BY <1>1
  <2> QED BY <1>1, <2>1, <2>2
<1>4. ~(q > p)
  <2> SUFFICES ASSUME q > p PROVE FALSE
    OBVIOUS
  <2>1. (q * n) - (p * n) >= n
    BY <1>1, <1>2
  <2>2. (p * n) \in Int /\ (q * n) \in Int
    BY <1>1
  <2> QED BY <1>1, <2>1, <2>2
<1>5. p = q
  BY <1>1, <1>3, <1>4
<1>6. s = r
  BY <1>1, <1>5
<1> QED BY <1>6 DEF s

LEMMA ModSmall ==
    ASSUME NEW n \in Nat \ {0}, NEW x \in 0 .. n - 1
    PROVE  x % n = x
  BY Z3

LEMMA ModShift ==
    ASSUME NEW n \in Nat \ {0}, NEW x \in Int, NEW q \in Int
    PROVE  ((q * n) + x) % n = x % n
<1> DEFINE p == x \div n
           r == x % n
<1>1. p \in Int /\ r \in 0 .. n - 1 /\ x = (p * n) + r
  BY ModDef
<1> HIDE DEF p, r
<1>2. (q + p) * n = (q * n) + (p * n)
  BY <1>1
<1>3. (q * n) + x = ((q + p) * n) + r
  <2>1. q * n \in Int /\ p * n \in Int
    BY <1>1
  <2> QED BY <1>1, <1>2, <2>1
<1>4. (q * n) + x \in Int /\ q + p \in Int
  BY <1>1
<1>5. ((q * n) + x) % n = r
  BY <1>1, <1>3, <1>4, ModUnique
<1> QED BY <1>5 DEF r

LEMMA ModAdd ==
    ASSUME NEW n \in Nat \ {0}, NEW x \in Int, NEW y \in Int
    PROVE  (x + y) % n = ((x % n) + y) % n
<1> DEFINE p == x \div n
           r == x % n
<1>1. p \in Int /\ r \in 0 .. n - 1 /\ x = (p * n) + r
  BY ModDef
<1> HIDE DEF p, r
<1>2. x + y = (p * n) + (r + y) /\ r + y \in Int
  <2>1. p * n \in Int
    BY <1>1
  <2> QED BY <1>1, <2>1
<1>3. ((p * n) + (r + y)) % n = (r + y) % n
  BY <1>1, <1>2, ModShift
<1> QED BY <1>2, <1>3 DEF r

LEMMA ModOnce ==
    ASSUME NEW n \in Nat \ {0}, NEW x \in Int, n <= x, x < n + n
    PROVE  x % n = x - n
  BY Z3

LEMMA ModBack ==
    ASSUME NEW n \in Nat \ {0}, NEW a \in 0 .. n - 1, NEW e \in 0 .. n - 1,
           NEW b \in Int, b = (a + e) % n
    PROVE  e = IF b >= a THEN b - a ELSE n - a + b
<1>1. CASE a + e < n
  <2>1. (a + e) % n = a + e
    BY <1>1, ModSmall
  <2> QED BY <2>1
<1>2. CASE ~(a + e < n)
  <2>1. (a + e) % n = a + e - n
    BY <1>2, Z3
  <2> QED BY <2>1, <1>2
<1> QED BY <1>1, <1>2

\* Two places that are d apart.
LEMMA ModApart ==
    ASSUME NEW n \in Nat \ {0}, NEW x \in Int, NEW d \in Nat
    PROVE  LET a == x % n
               b == (x + d) % n
           IN  /\ d % n = IF b >= a THEN b - a ELSE n - a + b
               /\ d % n <= d
<1> DEFINE a == x % n
           e == d % n
           b == (x + d) % n
<1>1. a \in 0 .. n - 1 /\ e \in 0 .. n - 1 /\ d \in Int
  BY ModDef
<1>2. b = (a + e) % n
  <2>1. b = (a + d) % n
    BY ModAdd, <1>1
  <2>2. a \in Int
    BY <1>1
  <2>3. (d + a) % n = (e + a) % n
    <3> HIDE DEF a
    <3> QED BY <1>1, <2>2, ModAdd
  <2> HIDE DEF a, e, b
  <2>4. d + a = a + d /\ e + a = a + e
    BY <1>1
  <2> QED BY <2>1, <2>3, <2>4
<1>3. e <= d
  <2>1. CASE d < n
    BY <2>1, ModSmall
  <2>2. CASE ~(d < n)
    BY <2>2, <1>1
  <2> QED BY <2>1, <2>2
<1> HIDE DEF a, e, b
<1> QED BY <1>1, <1>2, <1>3, ModBack DEF a, b, e

----------------------------------------------------------------------------
(* The least element of a set of natural numbers, and with it induction: both *)
(* about sets, so that they can be instantiated.                             *)

LEMMA Least ==
    ASSUME NEW T \in SUBSET Nat, T # {}
    PROVE  \E m \in T : \A k \in T : m <= k
<1> DEFINE D == {0 .. k : k \in T}
           R == StrictSubsetOrdering(Nat)
<1>1. D \subseteq FiniteSubsetsOf(Nat)
  <2>1. \A k \in T : IsFiniteSet(0 .. k) /\ 0 .. k \in SUBSET Nat
    BY FS_Interval
  <2> QED BY <2>1 DEF FiniteSubsetsOf
<1>2. IsWellFoundedOn(R, FiniteSubsetsOf(Nat))
  BY FS_StrictSubsetOrderingWellFounded
<1>3. PICK X \in D : \A Y \in D : ~ (<<Y, X>> \in R)
  <2>1. D # {}
    OBVIOUS
  <2> HIDE DEF R, D
  <2> QED BY <1>1, <1>2, <2>1, WFMin
<1>4. PICK m \in T : X = 0 .. m
  BY <1>3
<1>5. ASSUME NEW k \in T, k < m PROVE FALSE
  <2>1. 0 .. k \in D
    OBVIOUS
  <2>2. 0 .. k \subseteq 0 .. m /\ m \in 0 .. m /\ m \notin 0 .. k
    BY <1>5
  <2>3. <<0 .. k, 0 .. m>> \in R
    BY <2>2 DEF StrictSubsetOrdering
  <2> QED BY <2>1, <2>3, <1>3, <1>4
<1> QED BY <1>5

LEMMA Induct ==
    ASSUME NEW T \in SUBSET Nat, 0 \in T, \A n \in T : n + 1 \in T
    PROVE  T = Nat
<1> SUFFICES ASSUME Nat \ T # {} PROVE FALSE
  OBVIOUS
<1>1. PICK m \in Nat \ T : \A k \in Nat \ T : m <= k
  BY Least
<1>2. m # 0 /\ m - 1 \in Nat /\ m - 1 \in T
  BY <1>1
<1>3. (m - 1) + 1 \in T
  BY <1>2
<1>4. (m - 1) + 1 = m
  BY <1>1
<1> QED BY <1>3, <1>4

----------------------------------------------------------------------------
(* What a number of removals takes out of the list of fragments.             *)

LEMMA Sums ==
    ASSUME NEW L \in Nat, NEW s \in [1 .. L -> Int]
    PROVE  \E f \in [0 .. L -> Int] : f[0] = 0 /\ \A k \in 1 .. L : f[k] = f[k - 1] + s[k]
<1> DEFINE Good(m, g) == g[0] = 0 /\ \A k \in 1 .. m : g[k] = g[k - 1] + s[k]
           T == {m \in Nat : m <= L => \E g \in [0 .. m -> Int] : Good(m, g)}
<1>1. 0 \in T
  <2>1. [k \in 0 .. 0 |-> 0] \in [0 .. 0 -> Int] /\ Good(0, [k \in 0 .. 0 |-> 0])
    OBVIOUS
  <2> QED BY <2>1
<1>2. ASSUME NEW m \in Nat, m + 1 <= L, NEW g \in [0 .. m -> Int], Good(m, g)
      PROVE  \E h \in [0 .. m + 1 -> Int] : Good(m + 1, h)
  <2> DEFINE h == [k \in 0 .. m + 1 |-> IF k = m + 1 THEN g[m] + s[m + 1] ELSE g[k]]
  <2>1. h \in [0 .. m + 1 -> Int]
    BY <1>2
  <2>2. ASSUME NEW k \in 1 .. m + 1 PROVE h[k] = h[k - 1] + s[k]
    <3>1. k - 1 \in 0 .. m + 1 /\ k \in 0 .. m + 1 /\ h[k - 1] = g[k - 1]
      OBVIOUS
    <3>2. CASE k = m + 1
      <4>1. h[k] = g[m] + s[m + 1] /\ k - 1 = m
        BY <3>1, <3>2
      <4> QED BY <3>1, <3>2, <4>1
    <3>3. CASE k # m + 1
      <4>1. k \in 1 .. m /\ h[k] = g[k]
        BY <3>1, <3>3
      <4> QED BY <1>2, <3>1, <4>1
    <3> QED BY <3>2, <3>3
  <2>3. h[0] = 0
    BY <1>2
  <2> HIDE DEF h
  <2> QED BY <2>1, <2>2, <2>3
<1> HIDE DEF Good
<1>3. \A m \in T : m + 1 \in T
  <2> SUFFICES ASSUME NEW m \in T, m + 1 <= L
               PROVE  \E h \in [0 .. m + 1 -> Int] : Good(m + 1, h)
    OBVIOUS
  <2>1. m \in Nat /\ m <= L
    OBVIOUS
  <2>2. PICK g \in [0 .. m -> Int] : Good(m, g)
    BY <2>1
  <2> QED BY <1>2, <2>1, <2>2
<1>4. T = Nat
  <2>1. T \in SUBSET Nat
    OBVIOUS
  <2> HIDE DEF T
  <2> QED BY <1>1, <1>3, <2>1, Induct
<1>5. \E g \in [0 .. L -> Int] : Good(L, g)
  BY <1>4
<1> QED BY <1>5 DEF Good

LEMMA FragmentType ==
    ASSUME Types, NEW k \in 1 .. Len(frags)
    PROVE  frags[k].start \in Int /\ frags[k].end \in Int /\ frags[k].after \in Int
<1>1. frags[k] \in FragmentSet
  BY ElementOfSeq DEF Types
<1> QED BY <1>1 DEF FragmentSet

LEMMA FragmentSizeInt ==
    ASSUME Types, NEW k \in DOMAIN frags
    PROVE  FragmentSize(frags[k]) \in Int
<1>1. frags[k] \in FragmentSet
  BY DEF Types
<1> QED BY <1>1 DEF Types, FragmentSet, FragmentSize

LEMMA RemovedSpec ==
    ASSUME Types
    PROVE  /\ Removed \in [0 .. Len(frags) -> Int]
           /\ Removed[0] = 0
           /\ \A k \in 1 .. Len(frags) : Removed[k] = Removed[k - 1] + FragmentSize(frags[k])
<1> DEFINE L == Len(frags)
           s == [k \in 1 .. L |-> FragmentSize(frags[k])]
           Is(f) == f = [k \in 0 .. L |-> IF k = 0 THEN 0
                                          ELSE f[k - 1] + FragmentSize(frags[k])]
<1>1. L \in Nat /\ DOMAIN frags = 1 .. L
  BY DEF Types
<1>2. s \in [1 .. L -> Int]
  BY <1>1, FragmentSizeInt
<1>3. PICK f \in [0 .. L -> Int] : f[0] = 0 /\ \A k \in 1 .. L : f[k] = f[k - 1] + s[k]
  <2> HIDE DEF L, s
  <2> QED BY <1>1, <1>2, Sums
<1>4. Is(f)
  <2>1. \A k \in 0 .. L : f[k] = IF k = 0 THEN 0 ELSE f[k - 1] + FragmentSize(frags[k])
    BY <1>3, <1>1
  <2> QED BY <2>1, <1>3
<1>5. Removed = CHOOSE g : Is(g)
  BY DEF Removed
<1>6. Is(Removed)
  <2> HIDE DEF Is
  <2> QED BY <1>4, <1>5
<1> DEFINE R == Removed
<1>7. DOMAIN R = 0 .. L /\ \A k \in 0 .. L : R[k] = IF k = 0 THEN 0 ELSE R[k - 1] + FragmentSize(frags[k])
  BY <1>6
<1> HIDE DEF R, L
<1> DEFINE T == {m \in Nat : m <= L => R[m] \in Int}
<1>8. T = Nat
  <2>1. 0 \in T
    BY <1>1, <1>7
  <2>2. \A n \in T : n + 1 \in T
    <3> SUFFICES ASSUME NEW n \in T, n + 1 <= L PROVE R[n + 1] \in Int
      OBVIOUS
    <3>1. n + 1 \in 0 .. L /\ n + 1 # 0 /\ (n + 1) - 1 = n /\ R[n] \in Int
      BY <1>1
    <3>2. R[n + 1] = R[n] + FragmentSize(frags[n + 1])
      BY <1>7, <3>1
    <3> QED BY <3>1, <3>2, <1>1, FragmentSizeInt
  <2>3. T \in SUBSET Nat
    OBVIOUS
  <2> HIDE DEF T
  <2> QED BY <2>1, <2>2, <2>3, Induct
<1>9. \A k \in 0 .. L : R[k] \in Int
  BY <1>1, <1>8
<1>10. R \in [0 .. L -> Int]
  <2>1. R = [k \in 0 .. L |-> R[k]]
    BY <1>6 DEF R, L
  <2> QED BY <2>1, <1>9
<1> QED BY <1>1, <1>7, <1>10 DEF R, L

----------------------------------------------------------------------------
(* What the operators of the subfiles and of the timer return.               *)

Fds == [sub : DOMAIN disk, pos : Nat]

LEMMA FdTypes ==
    ASSUME Types
    PROVE  /\ rfd \in Fds /\ wfd \in Fds /\ wfd.pos <= Len(disk[wfd.sub])
           /\ disk \in Seq(Seq(Nat)) /\ DOMAIN disk = 1 .. Len(disk) /\ Len(disk) \in Nat \ {0}
<1>1. disk \in Seq(Seq(Nat)) /\ DOMAIN disk = 1 .. Len(disk) /\ Len(disk) \in Nat
  BY DEF Types
<1>2. rfd.sub \in DOMAIN disk /\ wfd.sub \in DOMAIN disk /\ wfd.pos \in 0 .. Len(disk[wfd.sub])
  BY DEF Types, TypeOK
<1>3. rfd \in Fds /\ wfd \in Fds
  <2>1. rfd \in [sub : Nat, pos : Nat] /\ wfd \in [sub : Nat, pos : Nat]
    BY DEF Types
  <2> HIDE DEF Types
  <2> QED BY <1>2, <2>1 DEF Fds
<1>4. Len(disk[wfd.sub]) \in Nat
  BY <1>1, <1>2
<1> QED BY <1>1, <1>2, <1>3, <1>4

LEMMA SubSeekType ==
    ASSUME Types, NEW fd \in Fds, NEW offset \in Int
    PROVE  /\ SubSeek(fd, offset) \in Fds
           /\ SubSeek(fd, 0) = [sub |-> 1, pos |-> 0]
<1>1. 1 \in DOMAIN disk
  BY FdTypes
<1>2. SubSize \in Nat \ {0}
  BY SizeAssumption
<1>3. offset % SubSize \in Nat
  BY <1>2, ModDef
<1>4. 0 \div SubSize = 0 /\ 0 % SubSize = 0
  BY <1>2, Z3
<1>5. SubSeek(fd, offset) \in Fds
  <2>1. CASE offset < 0
    BY <1>1, <2>1 DEF SubSeek, Fds
  <2>2. CASE ~(offset < 0)
    <3> DEFINE sub == (offset \div SubSize) + 1
               pos == offset % SubSize
    <3>1. SubSeek(fd, offset) = IF sub \in DOMAIN disk THEN [sub |-> sub, pos |-> pos] ELSE fd
      BY <2>2 DEF SubSeek
    <3>2. pos \in Nat
      BY <1>3
    <3> HIDE DEF sub, pos
    <3> QED BY <3>1, <3>2 DEF Fds
  <2> QED BY <2>1, <2>2
<1> QED BY <1>1, <1>4, <1>5 DEF SubSeek

LEMMA SubReadType ==
    ASSUME Types, NEW fd \in Fds, NEW n \in Int
    PROVE  /\ SubRead(fd, n) \in Seq(Nat)
           /\ After(ReadAt(fd), SubRead(fd, n)) \in Fds
<1> DEFINE at == ReadAt(fd)
<1>1. at \in Fds
  BY FdTypes DEF ReadAt, Fds
<1>2. disk[at.sub] \in Seq(Nat) /\ Len(disk[at.sub]) \in Nat /\ at.pos \in Nat
  BY <1>1, FdTypes DEF Fds
<1>3. SubRead(fd, n) \in Seq(Nat)
  <2> DEFINE to == Minimum(at.pos + n, Len(disk[at.sub]))
  <2>1. to \in Int /\ to <= Len(disk[at.sub])
    BY <1>2 DEF Minimum
  <2>2. SubRead(fd, n) = SubSeq(disk[at.sub], at.pos + 1, to)
    BY DEF SubRead
  <2> HIDE DEF at, to
  <2>3. \A i \in at.pos + 1 .. to : disk[at.sub][i] \in Nat
    BY <1>2, <2>1
  <2>4. at.pos + 1 \in Int
    BY <1>2
  <2> QED BY <2>1, <2>2, <2>3, <2>4, SubSeqProperties
<1>4. Len(SubRead(fd, n)) \in Nat
  BY <1>3, LenProperties
<1> HIDE DEF at
<1>5. After(at, SubRead(fd, n)) \in Fds
  BY <1>1, <1>4 DEF After, Fds
<1> QED BY <1>3, <1>5 DEF at

LEMMA UnitsType ==
    ASSUME NEW from \in Nat, NEW n \in Nat
    PROVE  Units(from, n) \in Seq(Nat) /\ Len(Units(from, n)) = n
  BY DEF Units

\* What is written at the descriptor stays within the subfile it ends in.
LEMMA SubWriteType ==
    ASSUME Types, NEW fd \in Fds, fd.pos <= Len(disk[fd.sub]), NEW data \in Seq(Nat)
    PROVE  LET at == WriteAt(fd)
               d  == SubWrite(at, data)
               w  == After(at, data)
           IN  /\ d \in Seq(Seq(Nat)) /\ DOMAIN disk \subseteq DOMAIN d
               /\ w \in [sub : DOMAIN d, pos : Nat] /\ w.pos <= Len(d[w.sub])
<1> DEFINE at == WriteAt(fd)
           d  == SubWrite(at, data)
           w  == After(at, data)
           L  == Len(data)
<1>1. L \in Nat
  BY LenProperties
<1>2. SubSize \in Nat \ {0} /\ fd.sub \in DOMAIN disk /\ fd.pos \in Nat
  BY SizeAssumption DEF Fds
<1>3. /\ at \in [sub : 1 .. Len(disk) + 1, pos : Nat]
      /\ at.sub \in DOMAIN disk => at.pos <= Len(disk[at.sub])
      /\ at.sub \notin DOMAIN disk => at.pos = 0 /\ at.sub = Len(disk) + 1
  <2>1. CASE fd.pos >= SubSize
    <3>1. at = [sub |-> fd.sub + 1, pos |-> 0]
      BY <2>1 DEF WriteAt
    <3>2. \A i \in DOMAIN disk : Len(disk[i]) \in Nat
      BY FdTypes
    <3> HIDE DEF at
    <3>3. at.sub = fd.sub + 1 /\ at.pos = 0
      BY <3>1
    <3>4. fd.sub \in 1 .. Len(disk) /\ Len(disk) \in Nat /\ DOMAIN disk = 1 .. Len(disk)
      BY <1>2, FdTypes
    <3>5. at \in [sub : 1 .. Len(disk) + 1, pos : Nat]
      BY <3>1, <3>4
    <3>6. at.sub \in DOMAIN disk => at.pos <= Len(disk[at.sub])
      BY <3>2, <3>3
    <3>7. at.sub \notin DOMAIN disk => at.sub = Len(disk) + 1
      BY <3>3, <3>4
    <3> QED BY <3>3, <3>5, <3>6, <3>7
  <2>2. CASE ~(fd.pos >= SubSize)
    <3>1. at = fd
      BY <2>2 DEF WriteAt
    <3> QED BY <1>2, <3>1, FdTypes DEF Fds
  <2> QED BY <2>1, <2>2
<1> HIDE DEF at
<1>4. w = [sub |-> at.sub, pos |-> at.pos + L]
  BY <1>3 DEF After
<1>5. CASE at.sub \in DOMAIN disk
  <2> DEFINE old == disk[at.sub]
             head == SubSeq(old, 1, at.pos)
             rest == SubSeq(old, at.pos + L + 1, Len(old))
  <2>1. old \in Seq(Nat) /\ Len(old) \in Nat /\ at.pos \in Nat /\ at.pos <= Len(old)
    BY <1>3, <1>5, FdTypes
  <2> HIDE DEF old
  <2>2. head \in Seq(Nat) /\ Len(head) = at.pos
    <3>1. \A i \in 1 .. at.pos : old[i] \in Nat
      BY <2>1
    <3>2. Len(head) = IF 1 <= at.pos THEN at.pos - 1 + 1 ELSE 0
      BY <2>1, <3>1, SubSeqProperties
    <3> QED BY <2>1, <3>1, <3>2, SubSeqProperties
  <2>3. rest \in Seq(Nat)
    <3>1. \A i \in at.pos + L + 1 .. Len(old) : old[i] \in Nat
      BY <2>1, <1>1
    <3>2. at.pos + L + 1 \in Int
      BY <2>1, <1>1
    <3> QED BY <2>1, <3>1, <3>2, SubSeqProperties
  <2> HIDE DEF head, rest
  <2>4. head \o data \in Seq(Nat) /\ Len(head \o data) = at.pos + L
    BY <2>2, ConcatProperties
  <2>5. (head \o data) \o rest \in Seq(Nat) /\ Len((head \o data) \o rest) >= at.pos + L
    <3>1. Len((head \o data) \o rest) = Len(head \o data) + Len(rest) /\ Len(rest) \in Nat
      BY <2>3, <2>4, ConcatProperties
    <3> QED BY <2>1, <1>1, <2>3, <2>4, <3>1, ConcatProperties
  <2>6. d = [disk EXCEPT ![at.sub] = (head \o data) \o rest]
    BY <1>5 DEF SubWrite, Overlay, head, rest, old
  <2>7. d \in Seq(Seq(Nat)) /\ DOMAIN d = DOMAIN disk /\ d[at.sub] = (head \o data) \o rest
    BY <1>5, <2>5, <2>6, FdTypes
  <2> HIDE DEF d, w
  <2> QED BY <1>1, <1>3, <1>4, <1>5, <2>5, <2>7 DEF d, w, at
<1>6. CASE at.sub \notin DOMAIN disk
  <2>1. d = Append(disk, data)
    BY <1>6 DEF SubWrite
  <2>2. d \in Seq(Seq(Nat)) /\ DOMAIN d = 1 .. Len(disk) + 1 /\ d[Len(disk) + 1] = data
    BY <2>1, FdTypes
  <2> HIDE DEF d, w
  <2>3. w \in [sub : DOMAIN d, pos : Nat] /\ w.pos <= Len(d[w.sub])
    BY <1>1, <1>3, <1>4, <1>6, <2>2
  <2>4. DOMAIN disk \subseteq DOMAIN d
    BY <2>2, FdTypes
  <2> QED BY <2>2, <2>3, <2>4 DEF d, w, at
<1> QED BY <1>5, <1>6

\* The last fragment is closed at e, and one begins at the offset o.
Added(f, e, o, a) ==
    /\ Len(f) = Len(frags) + 1
    /\ f[Len(frags) + 1].start = o /\ f[Len(frags) + 1].after = a
    /\ f[Len(frags)].start = frags[Len(frags)].start
    /\ f[Len(frags)].end = e
    /\ f[Len(frags)].after = frags[Len(frags)].after
    /\ \A k \in 1 .. Len(frags) - 1 : f[k] = frags[k]

LEMMA AddFragmentSpec ==
    ASSUME Types, NEW e \in Int, NEW o \in Int, NEW a \in Int, NEW f, f = AddFragment(e, o, a)
    PROVE  /\ f \in Seq(FragmentSet) /\ (f = <<>> <=> frags = <<>>)
           /\ frags = <<>> \/ Refused(o) => f = frags
           /\ frags # <<>> /\ ~Refused(o) => Added(f, e, o, a)
<1> DEFINE n == Len(frags)
           g == [frags EXCEPT ![n].end = e]
<1>1. frags \in Seq(FragmentSet) /\ n \in Nat /\ (n = 0 <=> frags = <<>>)
  BY DEF Types
<1>2. CASE frags = <<>> \/ Refused(o)
  BY <1>1, <1>2 DEF AddFragment
<1>3. CASE frags # <<>> /\ ~Refused(o)
  <2>1. f = Append(g, Fragment(o, a))
    BY <1>1, <1>3 DEF AddFragment
  <2>2. n \in 1 .. n /\ n # 0
    BY <1>1, <1>3
  <2>3. [frags[n] EXCEPT !.end = e] \in FragmentSet /\ Fragment(o, a) \in FragmentSet
    <3>1. frags[n] \in [start : Int, end : Int, after : Int]
      <4> HIDE DEF n
      <4>1. frags[n] \in FragmentSet
        BY <1>1, <2>2, ElementOfSeq DEF n
      <4> QED BY <4>1 DEF FragmentSet
    <3> QED BY <3>1 DEF FragmentSet, Fragment
  <2>4. /\ g \in Seq(FragmentSet) /\ Len(g) = n
        /\ g[n] = [frags[n] EXCEPT !.end = e]
        /\ \A k \in 1 .. n - 1 : g[k] = frags[k]
    BY <1>1, <2>2, <2>3
  <2> HIDE DEF g
  <2>5. /\ f \in Seq(FragmentSet) /\ Len(f) = n + 1 /\ f[n + 1] = Fragment(o, a)
        /\ \A k \in 1 .. n : f[k] = g[k]
    BY <1>1, <2>1, <2>3, <2>4
  <2>6. f # <<>>
    BY <1>1, <2>5
  <2>7. f[n + 1].start = o /\ f[n + 1].after = a
    BY <2>5 DEF Fragment
  <2>8. f[n].start = frags[n].start /\ f[n].end = e /\ f[n].after = frags[n].after
    <3>1. frags[n] \in [start : Int, end : Int, after : Int]
      <4> HIDE DEF n
      <4>1. frags[n] \in FragmentSet
        BY <1>1, <2>2, ElementOfSeq DEF n
      <4> QED BY <4>1 DEF FragmentSet
    <3>2. f[n] = [frags[n] EXCEPT !.end = e]
      BY <2>2, <2>4, <2>5
    <3> QED BY <3>1, <3>2
  <2> QED BY <1>1, <1>3, <2>2, <2>4, <2>5, <2>6, <2>7, <2>8 DEF Added
<1> QED BY <1>2, <1>3

LEMMA RemainingSpec ==
    ASSUME Types, NEW k \in Nat, k = 0 \/ k < Len(frags)
    PROVE  LET f == SubSeq(frags, k + 1, Len(frags))
           IN  /\ f \in Seq(FragmentSet) /\ Len(f) = Len(frags) - k
               /\ \A i \in 1 .. Len(f) : f[i] = frags[k + i]
               /\ f = <<>> <=> frags = <<>>
<1> DEFINE n == Len(frags)
           f == SubSeq(frags, k + 1, n)
<1>1. frags \in Seq(FragmentSet) /\ n \in Nat /\ (n = 0 <=> frags = <<>>)
  BY DEF Types
<1>2. \A i \in k + 1 .. n : frags[i] \in FragmentSet
  BY <1>1, ElementOfSeq
<1>3. /\ f \in Seq(FragmentSet)
      /\ Len(f) = IF k + 1 <= n THEN n - (k + 1) + 1 ELSE 0
      /\ \A i \in 1 .. n - (k + 1) + 1 : f[i] = frags[(k + 1) + i - 1]
  <2>1. k + 1 \in Int /\ n \in Int
    BY <1>1
  <2> HIDE DEF n
  <2> QED BY <1>2, <2>1, SubSeqProperties
<1> HIDE DEF f
<1>4. Len(f) = n - k
  BY <1>1, <1>3
<1>5. \A i \in 1 .. Len(f) : f[i] = frags[k + i]
  <2> SUFFICES ASSUME NEW i \in 1 .. Len(f) PROVE f[i] = frags[k + i]
    OBVIOUS
  <2>1. i \in 1 .. n - (k + 1) + 1 /\ (k + 1) + i - 1 = k + i
    BY <1>1, <1>4
  <2> QED BY <1>3, <2>1
<1>6. f = <<>> <=> frags = <<>>
  <2>1. f = <<>> <=> Len(f) = 0
    BY <1>3, EmptySeq
  <2> QED BY <1>1, <1>4, <2>1
<1> QED BY <1>3, <1>4, <1>5, <1>6 DEF f

\* What a read changes, whatever it asked for.
LEMMA DeliverType ==
    ASSUME Types, size > 0, NEW n \in Nat, Deliver(n)
    PROVE  /\ read' \in Int /\ avail' \in Int /\ due' \in Int
           /\ got' \in Seq(Nat) /\ rfd' \in Fds
<1> DEFINE todo  == Minimum(n, avail)
           split == IF read + todo > size THEN size - read ELSE 0
           head  == SubRead(rfd, split)
           short == Len(head) # split
           fd1   == IF split > 0 THEN After(ReadAt(rfd), head) ELSE rfd
           fd2   == IF split > 0 THEN SubSeek(fd1, 0) ELSE rfd
           tail  == SubRead(fd2, todo - split)
           fd3   == After(ReadAt(fd2), tail)
           from  == IF split > 0 THEN 0 ELSE read
           r     == IF short THEN read + Len(head)
                    ELSE IF tail # <<>> THEN (from + Len(tail)) % size ELSE from
<1>1. size \in Nat \ {0} /\ read \in Int /\ avail \in Int /\ stream \in Nat
  BY DEF Types, TypeOK
<1>2. todo \in Int /\ split \in Int
  BY <1>1 DEF Minimum
<1>3. rfd \in Fds
  BY FdTypes
<1>4. /\ read' = r
      /\ got' = IF short THEN head ELSE head \o tail
      /\ rfd' = IF short THEN fd1 ELSE IF r = 0 THEN SubSeek(fd3, 0) ELSE fd3
      /\ avail' = IF short \/ tail # <<>> THEN avail - Len(got') ELSE avail
      /\ due' = stream - avail
  BY DEF Deliver
<1> HIDE DEF todo, split
<1>5. head \in Seq(Nat) /\ fd1 \in Fds
  BY <1>2, <1>3, SubReadType
<1> HIDE DEF head, fd1
<1>6. fd2 \in Fds
  BY <1>3, <1>5, SubSeekType
<1> HIDE DEF fd2
<1>7. tail \in Seq(Nat) /\ fd3 \in Fds
  <2>1. todo - split \in Int
    BY <1>2
  <2> QED BY <1>6, <2>1, SubReadType
<1> HIDE DEF tail, fd3
<1>8. head \o tail \in Seq(Nat) /\ Len(head) \in Nat /\ Len(tail) \in Nat
  BY <1>5, <1>7, ConcatProperties, LenProperties
<1>9. SubSeek(fd3, 0) \in Fds
  BY <1>7, SubSeekType
<1>10. r \in Int
  <2>1. from \in Int
    BY <1>1
  <2> HIDE DEF from
  <2>2. from + Len(tail) \in Int /\ read + Len(head) \in Int
    BY <1>1, <1>8, <2>1
  <2>3. (from + Len(tail)) % size \in Int
    BY <1>1, <2>2, ModDef
  <2> HIDE DEF short
  <2> QED BY <2>1, <2>2, <2>3
<1> HIDE DEF r, short
<1>11. got' \in Seq(Nat)
  BY <1>4, <1>5, <1>8
<1>12. Len(got') \in Nat
  BY <1>11, LenProperties
<1> QED BY <1>1, <1>4, <1>5, <1>7, <1>9, <1>10, <1>11, <1>12

----------------------------------------------------------------------------
(* The types.                                                                *)

LEMMA TypesInit == Init => Types
<1> SUFFICES ASSUME Init PROVE Types
  OBVIOUS
<1>1. Size \in Nat \ {0}
  BY SizeAssumption
<1>2. disk = << <<>> >> /\ disk \in Seq(Seq(Nat)) /\ DOMAIN disk = {1} /\ disk[1] = <<>>
  BY DEF Init
<1>3. timer \in {"never", "late", "on"} /\ (timer = "on" <=> frags # <<>>) /\ frags \in Seq(FragmentSet)
  <2>1. PICK t \in Timers : /\ timer = (IF t = "open" THEN "on" ELSE t)
                            /\ frags = IF t = "open" THEN <<Fragment(0, 0)>> ELSE <<>>
    BY DEF Init
  <2>2. t \in {"never", "open", "late"}
    BY TimersAssumption
  <2>3. Fragment(0, 0) \in FragmentSet
    BY DEF Fragment, FragmentSet
  <2> QED BY <2>1, <2>2, <2>3
<1>4. TypeOK
  <2>0. size \in Int /\ avail = 0 /\ total = 0 /\ start = 0 /\ read = 0 /\ write = 0
    BY <1>1 DEF Init
  <2>1. {size, avail, total, start, read, write} \subseteq Int
    BY <2>0
  <2>4. /\ rateKnown \in BOOLEAN /\ wpc = "idle" /\ rpc = "idle" /\ signalled \in BOOLEAN
        /\ mishaps \subseteq Mishaps
    BY DEF Init
  <2>2. /\ rfd.sub \in DOMAIN disk /\ rfd.pos \in Nat
        /\ wfd.sub \in DOMAIN disk /\ wfd.pos \in 0 .. Len(disk[wfd.sub])
    BY <1>2 DEF Init
  <2>3. \A i \in DOMAIN disk : \A j \in DOMAIN disk[i] : disk[i][j] \in Nat
    BY <1>2
  <2> QED BY <1>3, <2>1, <2>2, <2>3, <2>4 DEF TypeOK
<1>5. req \in RequestSet
  BY DEF Init, NoReq, RequestSet
<1>6. /\ size \in Nat /\ stream \in Nat /\ want \in Nat /\ due \in Int /\ got \in Seq(Nat)
      /\ rfd \in [sub : Nat, pos : Nat] /\ wfd \in [sub : Nat, pos : Nat]
  BY <1>1 DEF Init
<1> QED BY <1>2, <1>3, <1>4, <1>5, <1>6 DEF Types

\* What a write makes of the subfiles.
LEMMA DiskStep ==
    ASSUME Types, NEW fd \in Fds, fd.pos <= Len(disk[fd.sub]), NEW data \in Seq(Nat),
           disk' = SubWrite(WriteAt(fd), data), wfd' = After(WriteAt(fd), data), rfd' = rfd
    PROVE  /\ disk' \in Seq(Seq(Nat))
           /\ \A i \in DOMAIN disk' : \A j \in DOMAIN disk'[i] : disk'[i][j] \in Nat
           /\ rfd'.sub \in DOMAIN disk' /\ rfd'.pos \in Nat
           /\ wfd'.sub \in DOMAIN disk' /\ wfd'.pos \in 0 .. Len(disk'[wfd'.sub])
           /\ rfd' \in [sub : Nat, pos : Nat] /\ wfd' \in [sub : Nat, pos : Nat]
<1>1. /\ disk' \in Seq(Seq(Nat)) /\ DOMAIN disk \subseteq DOMAIN disk'
      /\ wfd' \in [sub : DOMAIN disk', pos : Nat] /\ wfd'.pos <= Len(disk'[wfd'.sub])
  BY SubWriteType
<1>2. rfd \in [sub : DOMAIN disk, pos : Nat]
  BY FdTypes DEF Fds
<1>3. DOMAIN disk' \subseteq Nat
  BY <1>1
<1>4. \A i \in DOMAIN disk' : disk'[i] \in Seq(Nat) /\ Len(disk'[i]) \in Nat
  BY <1>1
<1> QED BY <1>1, <1>2, <1>3, <1>4

LEMMA FragsStep ==
    ASSUME Types, NEW e \in Int, NEW o \in Int, NEW a \in Int,
           frags' = frags \/ frags' = AddFragment(e, o, a), timer' = timer
    PROVE  frags' \in Seq(FragmentSet) /\ (timer' = "on" <=> frags' # <<>>)
<1>1. timer = "on" <=> frags # <<>>
  BY DEF Types, TypeOK
<1>2. frags \in Seq(FragmentSet)
  BY DEF Types
<1> QED BY <1>1, <1>2, AddFragmentSpec

\* A move of a descriptor.
LEMMA MoveStep ==
    ASSUME Types, NEW fd \in Fds
    PROVE  fd.sub \in DOMAIN disk /\ fd.pos \in Nat /\ fd \in [sub : Nat, pos : Nat]
<1>1. DOMAIN disk \subseteq Nat
  BY FdTypes
<1> QED BY <1>1 DEF Fds

LEMMA TypesWrite == RingInv /\ Write => Types'
<1> SUFFICES ASSUME RingInv, Write PROVE Types'
  OBVIOUS
<1> USE DEF RingInv
<1>0. /\ size \in Nat /\ stream \in Nat /\ req \in RequestSet /\ write \in Int /\ total \in Int
      /\ start \in Int /\ read \in Int /\ avail \in Int
  BY DEF Types, TypeOK
<1>1. CASE WriteBegin
  <2>1. PICK n \in Chunks :
          LET len  == Minimum(n, size)
              wrap == write + len >= size
              len1 == IF wrap THEN size - write ELSE len
          IN  /\ req' = [len1 |-> len1, len2 |-> len - len1, done |-> 0,
                         wrap |-> wrap, failed |-> FALSE]
              /\ wpc' \in {"first", "second"}
              /\ mishaps' \subseteq mishaps \cup {"overrun"}
    BY <1>1 DEF WriteBegin, Mishap
  <2>2. n \in Nat
    BY ChunksAssumption
  <2>3. size > 0 /\ write \in 0 .. size - 1
    <3>1. size > 0 /\ write = stream % size
      BY <1>1 DEF WriteBegin, Placed
    <3> QED BY <1>0, <3>1, ModDef
  <2>4. req' \in RequestSet
    BY <1>0, <2>1, <2>2, <2>3 DEF RequestSet, Minimum
  <2> QED BY <1>1, <2>1, <2>4 DEF WriteBegin, Types, TypeOK, Mishaps, ringVars, readerVars, timerVars
<1>2. CASE WriteFirst
  <2>1. PICK k \in Reaches(req.len1), second \in BOOLEAN :
          LET at     == WriteAt(wfd)
              data   == Units(stream, k)
              failed == k # req.len1
              forced == req.wrap \/ (failed /\ k > 0)
              offset == IF req.wrap /\ ~failed THEN 0 ELSE write + k
          IN  /\ disk' = SubWrite(at, data)
              /\ wfd' = After(at, data)
              /\ frags' = IF forced \/ second
                          THEN AddFragment(write + k, offset, stream + k) ELSE frags
              /\ req' = [req EXCEPT !.done = k, !.failed = failed]
              /\ wpc' \in {"adjust", "second"}
              /\ mishaps' \subseteq mishaps \cup {"drift", "refused"}
    BY <1>2 DEF WriteFirst, Mishap
  <2>2. k \in Nat
    BY <1>0, FaultsAssumption DEF Reaches, RequestSet
  <2>3. Units(stream, k) \in Seq(Nat)
    BY <1>0, <2>2, UnitsType
  <2>4. wfd \in Fds /\ wfd.pos <= Len(disk[wfd.sub])
    BY FdTypes
  <2>5. rfd' = rfd /\ timer' = timer
    BY <1>2 DEF WriteFirst, readerVars
  <2>6. /\ disk' \in Seq(Seq(Nat))
        /\ \A i \in DOMAIN disk' : \A j \in DOMAIN disk'[i] : disk'[i][j] \in Nat
        /\ rfd'.sub \in DOMAIN disk' /\ rfd'.pos \in Nat
        /\ wfd'.sub \in DOMAIN disk' /\ wfd'.pos \in 0 .. Len(disk'[wfd'.sub])
        /\ rfd' \in [sub : Nat, pos : Nat] /\ wfd' \in [sub : Nat, pos : Nat]
    BY <2>1, <2>3, <2>4, <2>5, DiskStep
  <2>7. frags' \in Seq(FragmentSet) /\ (timer' = "on" <=> frags' # <<>>)
    <3>1. write + k \in Int /\ stream + k \in Int /\ 0 \in Int
      BY <1>0, <2>2
    <3>2. \E o \in Int : frags' = frags \/ frags' = AddFragment(write + k, o, stream + k)
      BY <2>1, <3>1
    <3> QED BY <2>5, <3>1, <3>2, FragsStep
  <2>8. req' \in RequestSet
    BY <1>0, <2>1, <2>2 DEF RequestSet
  <2> QED BY <1>2, <2>1, <2>6, <2>7, <2>8
          DEF WriteFirst, Types, TypeOK, Mishaps, ringVars, readerVars
<1>3. CASE WriteSecond
  <2>1. PICK k \in Reaches(req.len2) :
          LET at   == WriteAt(SubSeek(wfd, 0))
              data == Units(stream + req.done, k)
          IN  /\ disk' = SubWrite(at, data)
              /\ wfd' = After(at, data)
              /\ frags' = AddFragment(k, k, stream + req.done + k)
              /\ req' = [req EXCEPT !.done = @ + k, !.failed = k # req.len2]
              /\ mishaps' \subseteq mishaps \cup {"drift", "refused"}
    BY <1>3 DEF WriteSecond, Mishap
  <2>2. k \in Nat /\ req.done \in Nat
    BY <1>0, FaultsAssumption DEF Reaches, RequestSet
  <2>3. Units(stream + req.done, k) \in Seq(Nat)
    <3>1. stream + req.done \in Nat
      BY <1>0, <2>2
    <3> QED BY <2>2, <3>1, UnitsType
  <2>4. SubSeek(wfd, 0) \in Fds /\ SubSeek(wfd, 0).pos <= Len(disk[SubSeek(wfd, 0).sub])
    <3>1. wfd \in Fds /\ Len(disk[1]) \in Nat /\ 1 \in DOMAIN disk
      BY FdTypes
    <3>2. SubSeek(wfd, 0) = [sub |-> 1, pos |-> 0] /\ SubSeek(wfd, 0) \in Fds
      BY <3>1, SubSeekType
    <3> QED BY <3>1, <3>2
  <2>5. rfd' = rfd /\ timer' = timer
    BY <1>3 DEF WriteSecond, readerVars
  <2>6. /\ disk' \in Seq(Seq(Nat))
        /\ \A i \in DOMAIN disk' : \A j \in DOMAIN disk'[i] : disk'[i][j] \in Nat
        /\ rfd'.sub \in DOMAIN disk' /\ rfd'.pos \in Nat
        /\ wfd'.sub \in DOMAIN disk' /\ wfd'.pos \in 0 .. Len(disk'[wfd'.sub])
        /\ rfd' \in [sub : Nat, pos : Nat] /\ wfd' \in [sub : Nat, pos : Nat]
    BY <2>1, <2>3, <2>4, <2>5, DiskStep
  <2>7. frags' \in Seq(FragmentSet) /\ (timer' = "on" <=> frags' # <<>>)
    <3>1. k \in Int /\ stream + req.done + k \in Int
      BY <1>0, <2>2
    <3> QED BY <2>1, <2>5, <3>1, FragsStep
  <2>8. req' \in RequestSet
    <3>1. req.done + k \in Nat /\ (k # req.len2) \in BOOLEAN
      BY <2>2
    <3>2. req' = [req EXCEPT !.done = req.done + k, !.failed = k # req.len2]
      BY <2>1
    <3> QED BY <1>0, <3>1, <3>2 DEF RequestSet
  <2> QED BY <1>3, <2>1, <2>6, <2>7, <2>8
          DEF WriteSecond, Types, TypeOK, Mishaps, ringVars, readerVars
<1>4. CASE WriteNothing
  BY <1>4 DEF WriteNothing, Types, TypeOK, ringVars, readerVars, timerVars
<1>5. CASE WriteAdjust
  <2> DEFINE n     == req.done
             rleft == size - avail
             sleft == size - total
             moved == n > sleft
             w     == (write + n) % size
             s(k)  == IF ~moved THEN start ELSE IF k > 0 THEN frags[k + 1].start ELSE w
             t0(k) == IF ~moved THEN total ELSE total - (IF k > 0 THEN Removed[k] ELSE n)
             t(k)  == IF t0(k) < size THEN Minimum(t0(k) + n, size) ELSE t0(k)
             a0    == IF n > rleft THEN avail - (n - rleft) ELSE avail
             a     == IF a0 < size THEN Minimum(a0 + n, size) ELSE a0
             reset(k) == n > rleft \/ a > t(k)
  <2>1. PICK k \in IF moved /\ timer = "on" THEN Removals(n) ELSE {0} :
          /\ start' = s(k) /\ total' = t(k) /\ write' = w
          /\ read' = (IF reset(k) THEN s(k) ELSE read)
          /\ avail' = Minimum(a, t(k))
          /\ frags' = SubSeq(frags, k + 1, Len(frags))
          /\ signalled' = (signalled \/ Wakes(a0))
          /\ mishaps' = mishaps \cup Mishap(reset(k), "overrun")
                            \cup Mishap(moved /\ k = 0 /\ sleft > 0, "ragged")
    BY <1>5 DEF WriteAdjust
  <2>2. k \in Nat /\ (k = 0 \/ k < Len(frags))
    <3>1. Len(frags) \in Nat
      BY DEF Types
    <3> QED BY <2>1, <3>1 DEF Removals
  <2>3. size \in Nat \ {0} /\ n \in Nat
    BY <1>0, <1>5 DEF WriteAdjust, Requested, RequestSet
  <2>4. w \in Int
    <3>1. write + n \in Int
      BY <1>0, <2>3
    <3> QED BY <2>3, <3>1, ModDef
  <2> HIDE DEF w
  <2>5. s(k) \in Int
    <3>1. k > 0 => frags[k + 1].start \in Int
      <4>1. Len(frags) \in Nat
        BY DEF Types
      <4> QED BY <2>2, <4>1, FragmentType
    <3> QED BY <1>0, <2>4, <3>1
  <2>6. t(k) \in Int
    <3>1. k > 0 => Removed[k] \in Int
      <4>1. Len(frags) \in Nat
        BY DEF Types
      <4> QED BY <2>2, <4>1, RemovedSpec
    <3>2. t0(k) \in Int
      BY <1>0, <2>3, <3>1
    <3> HIDE DEF t0
    <3> QED BY <1>0, <2>3, <3>2 DEF Minimum
  <2>7. total' \in Int /\ write' \in Int /\ start' \in Int /\ avail' \in Int /\ read' \in Int
    <3>1. a \in Int
      BY <1>0, <2>3 DEF Minimum
    <3> HIDE DEF a, t, s, reset
    <3> QED BY <1>0, <2>1, <2>4, <2>5, <2>6, <3>1 DEF Minimum
  <2>8. frags' \in Seq(FragmentSet) /\ (timer' = "on" <=> frags' # <<>>)
    <3>1. timer = "on" <=> frags # <<>>
      BY DEF Types, TypeOK
    <3>2. timer' = timer
      BY <1>5 DEF WriteAdjust
    <3> QED BY <2>1, <2>2, <3>1, <3>2, RemainingSpec
  <2>9. wfd'.sub \in DOMAIN disk /\ wfd'.pos \in 0 .. Len(disk[wfd'.sub]) /\ wfd' \in [sub : Nat, pos : Nat]
    <3>1. wfd \in Fds /\ 1 \in DOMAIN disk /\ Len(disk[1]) \in Nat
      BY FdTypes
    <3>2. SubSeek(wfd, 0) = [sub |-> 1, pos |-> 0]
      BY <3>1, SubSeekType
    <3>3. wfd' = wfd \/ wfd' = SubSeek(wfd, 0)
      BY <1>5 DEF WriteAdjust
    <3>4. CASE wfd' = wfd
      BY <3>4 DEF Types, TypeOK
    <3>5. CASE wfd' = SubSeek(wfd, 0)
      BY <3>1, <3>2, <3>5
    <3> QED BY <3>3, <3>4, <3>5
  <2>10. stream' \in Nat
    <3>1. stream' = stream + n
      BY <1>5 DEF WriteAdjust
    <3> QED BY <1>0, <2>3, <3>1
  <2>11. mishaps' \subseteq Mishaps /\ signalled' \in BOOLEAN
    BY <2>1 DEF Types, TypeOK, Mishaps, Mishap, Wakes
  <2> HIDE DEF n, rleft, sleft, moved, w, s, t, a, reset
  <2> QED BY <1>5, <2>7, <2>8, <2>9, <2>10, <2>11
          DEF WriteAdjust, Types, TypeOK, readerVars
<1>6. CASE WriteHangs
  <2>1. mishaps' \subseteq Mishaps
    BY <1>6 DEF WriteHangs, Types, TypeOK, Mishaps, Mishap
  <2> QED BY <1>6, <2>1 DEF WriteHangs, Types, TypeOK, ringVars, readerVars, timerVars
<1>7. CASE WriteDone
  <2>1. size' \in Nat /\ rateKnown' \in BOOLEAN
    BY <1>0, <1>7, ProductsAssumption DEF WriteDone, Minimum, Types, TypeOK
  <2>2. req' \in RequestSet
    BY <1>7 DEF WriteDone, NoReq, RequestSet
  <2> QED BY <1>7, <2>1, <2>2 DEF WriteDone, Types, TypeOK, readerVars, timerVars
<1> QED BY <1>1, <1>2, <1>3, <1>4, <1>5, <1>6, <1>7 DEF Write

LEMMA TypesReader == RingInv /\ (Reader \/ TimeStart) => Types'
<1> SUFFICES ASSUME RingInv, Reader \/ TimeStart PROVE Types'
  OBVIOUS
<1>0. /\ Types
      /\ size \in Nat /\ stream \in Nat /\ write \in Int /\ total \in Int
      /\ start \in Int /\ read \in Int /\ avail \in Int /\ want \in Nat
  BY DEF Types, TypeOK, RingInv
<1>1. CASE Read
  <2>1. PICK n \in Nat : size > 0 /\ Deliver(n)
    BY <1>1, ChunksAssumption DEF Read, Locking
  <2>2. /\ read' \in Int /\ avail' \in Int /\ due' \in Int
        /\ got' \in Seq(Nat) /\ rfd' \in Fds
    BY <1>0, <2>1, DeliverType
  <2>3. rfd'.sub \in DOMAIN disk /\ rfd'.pos \in Nat /\ rfd' \in [sub : Nat, pos : Nat]
    BY <1>0, <2>2, MoveStep
  <2> QED BY <1>0, <1>1, <2>2, <2>3 DEF Read, Types, TypeOK, writerVars, timerVars
<1>2. CASE ReadWait
  <2>1. want' \in Nat
    BY <1>2, ChunksAssumption DEF ReadWait
  <2> QED BY <1>0, <1>2, <2>1 DEF ReadWait, Types, TypeOK, ringVars, writerVars, timerVars
<1>3. CASE ReadWoken
  <2>1. /\ read' \in Int /\ avail' \in Int /\ due' \in Int
        /\ got' \in Seq(Nat) /\ rfd' \in Fds
    <3>1. CASE avail > 0
      BY <1>0, <1>3, <3>1, DeliverType DEF ReadWoken, Locking
    <3>2. CASE ~(avail > 0)
      <4>1. avail' = 0 /\ read' = read /\ rfd' = rfd /\ due' = due /\ got' = got
        BY <1>3, <3>2 DEF ReadWoken
      <4>2. rfd \in Fds
        BY <1>0, FdTypes
      <4> QED BY <1>0, <4>1, <4>2 DEF Types, Fds
    <3> QED BY <3>1, <3>2
  <2>2. rfd'.sub \in DOMAIN disk /\ rfd'.pos \in Nat /\ rfd' \in [sub : Nat, pos : Nat]
    BY <1>0, <2>1, MoveStep
  <2> QED BY <1>0, <1>3, <2>1, <2>2 DEF ReadWoken, Types, TypeOK, writerVars, timerVars
<1>4. CASE Seek
  <2>1. PICK offset \in Int :
          LET off == IF offset > total THEN total - 1 ELSE IF offset < 0 THEN 0 ELSE offset
              to  == start + off
          IN  /\ read' = IF to < 0 THEN to ELSE to % size
              /\ avail' = total - off
              /\ mishaps' = Moved(read', avail') \cup Mishap(off < 0, "early")
    BY <1>4, OffsetsAssumption DEF Seek
  <2> DEFINE off == IF offset > total THEN total - 1 ELSE IF offset < 0 THEN 0 ELSE offset
             to  == start + off
  <2>2. off \in Int /\ size \in Nat \ {0}
    BY <1>0, <1>4 DEF Seek, Locking
  <2>3. to \in Int
    BY <1>0, <2>2
  <2> HIDE DEF off, to
  <2>4. read' \in Int /\ avail' \in Int
    <3>1. to % size \in Int
      BY <2>2, <2>3, ModDef
    <3> QED BY <1>0, <2>1, <2>2, <2>3, <3>1 DEF off, to
  <2>5. mishaps' \subseteq Mishaps
    BY <1>0, <2>1 DEF Types, TypeOK, Mishaps, Mishap, Moved
  <2>6. rfd' \in Fds
    <3>1. rfd' = SubSeek(rfd, read')
      BY <1>4 DEF Seek
    <3> QED BY <1>0, <2>4, <3>1, FdTypes, SubSeekType
  <2>7. rfd'.sub \in DOMAIN disk /\ rfd'.pos \in Nat /\ rfd' \in [sub : Nat, pos : Nat]
    BY <1>0, <2>6, MoveStep
  <2>8. due' \in Int /\ got' \in Seq(Nat)
    BY <1>0, <1>4, <2>4 DEF Seek
  <2> QED BY <1>0, <1>4, <2>4, <2>5, <2>7, <2>8 DEF Seek, Types, TypeOK, writerVars, timerVars
<1>5. CASE TimeSeek
  <2>1. PICK k \in DOMAIN frags :
          LET from == frags[k].start
          IN  /\ read' = from
              /\ avail' = IF write >= from THEN write - from ELSE size - from + write
              /\ mishaps' \subseteq Moved(read', avail') \cup {"ahead", "full"}
    BY <1>5 DEF TimeSeek, Mishap
  <2>2. frags[k].start \in Int
    <3>1. DOMAIN frags = 1 .. Len(frags)
      BY <1>0 DEF Types
    <3> QED BY <1>0, <3>1, FragmentType
  <2>4. read' \in Int /\ avail' \in Int
    BY <1>0, <2>1, <2>2
  <2>5. mishaps' \subseteq Mishaps
    BY <1>0, <2>1 DEF Types, TypeOK, Mishaps, Mishap, Moved
  <2>6. rfd' \in Fds
    <3>1. rfd' = SubSeek(rfd, read')
      BY <1>5 DEF TimeSeek
    <3> QED BY <1>0, <2>4, <3>1, FdTypes, SubSeekType
  <2>7. rfd'.sub \in DOMAIN disk /\ rfd'.pos \in Nat /\ rfd' \in [sub : Nat, pos : Nat]
    BY <1>0, <2>6, MoveStep
  <2>8. due' \in Int /\ got' \in Seq(Nat)
    BY <1>0, <1>5, <2>4 DEF TimeSeek
  <2> QED BY <1>0, <1>5, <2>4, <2>5, <2>7, <2>8 DEF TimeSeek, Types, TypeOK, writerVars, timerVars
<1>6. CASE TimeStart
  <2>1. Fragment(write, stream) \in FragmentSet
    BY <1>0 DEF Fragment, FragmentSet
  <2>2. frags' \in Seq(FragmentSet) /\ frags' # <<>>
    BY <1>6, <2>1 DEF TimeStart
  <2>3. mishaps' \subseteq Mishaps
    BY <1>0, <1>6 DEF TimeStart, Types, TypeOK, Mishaps, Mishap
  <2> QED BY <1>0, <1>6, <2>2, <2>3 DEF TimeStart, Types, TypeOK, ringVars, writerVars, readerVars
<1> QED BY <1>1, <1>2, <1>3, <1>4, <1>5, <1>6 DEF Reader

----------------------------------------------------------------------------
(* What the reader and TimeStart leave alone.                                *)

LEMMA ReaderFrame ==
    ASSUME Reader
    PROVE  /\ size' = size /\ total' = total /\ start' = start /\ write' = write
           /\ wpc' = wpc /\ req' = req /\ stream' = stream /\ frags' = frags
           /\ size > 0 /\ wpc # "hung"
           /\ mishaps \ {"overrun"} \subseteq mishaps'
<1>1. CASE Read
  BY <1>1 DEF Read, Locking, writerVars, timerVars
<1>2. CASE ReadWait
  BY <1>2 DEF ReadWait, Locking, ringVars, writerVars, timerVars
<1>3. CASE ReadWoken
  BY <1>3 DEF ReadWoken, Locking, writerVars, timerVars
<1>4. CASE Seek
  <2>1. mishaps \ {"overrun"} \subseteq mishaps'
    BY <1>4 DEF Seek, Moved
  <2> QED BY <1>4, <2>1 DEF Seek, Locking, writerVars, timerVars
<1>5. CASE TimeSeek
  <2>1. mishaps \ {"overrun"} \subseteq mishaps'
    BY <1>5 DEF TimeSeek, Moved
  <2> QED BY <1>5, <2>1 DEF TimeSeek, Locking, writerVars, timerVars
<1> QED BY <1>1, <1>2, <1>3, <1>4, <1>5 DEF Reader

----------------------------------------------------------------------------
(* The parts of a write.                                                     *)

LEMMA RequestedWrite == RingInv /\ Write => Requested'
<1> SUFFICES ASSUME RingInv, Write PROVE Requested'
  OBVIOUS
<1>0. Types /\ Requested /\ Placed
  BY DEF RingInv
<1>1. /\ size \in Nat /\ stream \in Nat /\ write \in Int
      /\ req.len1 \in Nat /\ req.len2 \in Nat /\ req.done \in Nat
  BY <1>0 DEF Types, TypeOK, RequestSet
<1>2. CASE WriteBegin
  <2>1. PICK n \in Chunks :
          LET len  == Minimum(n, size)
              wrap == write + len >= size
              len1 == IF wrap THEN size - write ELSE len
          IN  /\ req' = [len1 |-> len1, len2 |-> len - len1, done |-> 0,
                         wrap |-> wrap, failed |-> FALSE]
              /\ wpc' = IF len1 > 0 THEN "first" ELSE "second"
    BY <1>2 DEF WriteBegin
  <2> DEFINE len  == Minimum(n, size)
             wrap == write + len >= size
             len1 == IF wrap THEN size - write ELSE len
  <2>2. size > 0 /\ write \in 0 .. size - 1 /\ size' = size /\ write' = write
    <3>1. size > 0 /\ write = stream % size /\ size' = size /\ write' = write
      BY <1>0, <1>2 DEF WriteBegin, Placed, ringVars
    <3> QED BY <1>1, <3>1, ModDef
  <2>3. len \in 1 .. size
    <3>1. n \in Nat \ {0}
      BY ChunksAssumption
    <3> QED BY <1>1, <2>2, <3>1 DEF Minimum
  <2>4. /\ len1 \in Nat /\ len1 > 0 /\ len1 + (len - len1) <= size /\ write + len1 <= size
        /\ wrap <=> write + len1 = size
        /\ len - len1 > 0 => wrap
    <3> HIDE DEF len
    <3> QED BY <1>1, <2>2, <2>3
  <2>5. /\ req'.len1 = len1 /\ req'.len2 = len - len1 /\ req'.done = 0 /\ req'.wrap = wrap
        /\ wpc' = "first"
    BY <2>1, <2>4
  <2> HIDE DEF len, wrap, len1
  <2>6. len - len1 + len1 = len /\ len \in Nat
    BY <2>3, <2>4
  <2> QED BY <1>1, <2>2, <2>3, <2>4, <2>5, <2>6 DEF Requested
<1>3. CASE WriteFirst
  <2>1. PICK k \in Reaches(req.len1) :
          /\ req' = [req EXCEPT !.done = k, !.failed = k # req.len1]
          /\ wpc' = IF k # req.len1 \/ req.len2 = 0 THEN "adjust" ELSE "second"
    BY <1>3 DEF WriteFirst
  <2>2. k \in 0 .. req.len1
    BY <1>1, <2>1 DEF Reaches
  <2>3. /\ req'.len1 = req.len1 /\ req'.len2 = req.len2 /\ req'.done = k
        /\ req'.wrap = req.wrap
    BY <1>0, <2>1 DEF Types, RequestSet
  <2>4. size' = size /\ write' = write /\ wpc = "first"
    BY <1>3 DEF WriteFirst, ringVars
  <2> QED BY <1>0, <1>1, <2>1, <2>2, <2>3, <2>4 DEF Requested
<1>4. CASE WriteSecond
  <2>1. PICK k \in Reaches(req.len2) :
          req' = [req EXCEPT !.done = @ + k, !.failed = k # req.len2]
    BY <1>4 DEF WriteSecond
  <2>2. k \in 0 .. req.len2
    BY <1>1, <2>1 DEF Reaches
  <2>3. /\ req'.len1 = req.len1 /\ req'.len2 = req.len2 /\ req'.done = req.done + k
        /\ req'.wrap = req.wrap
    BY <1>0, <2>1 DEF Types, RequestSet
  <2>4. size' = size /\ write' = write /\ wpc = "second" /\ wpc' = "adjust"
    BY <1>4 DEF WriteSecond, ringVars
  <2> QED BY <1>0, <1>1, <2>2, <2>3, <2>4 DEF Requested
<1>5. CASE WriteNothing
  BY <1>0, <1>5 DEF WriteNothing, Requested, ringVars
<1>6. CASE WriteAdjust
  BY <1>0, <1>6 DEF WriteAdjust, Requested
<1>7. CASE WriteHangs
  BY <1>0, <1>7 DEF WriteHangs, Requested, ringVars
<1>8. CASE WriteDone
  BY <1>8 DEF WriteDone, Requested
<1> QED BY <1>2, <1>3, <1>4, <1>5, <1>6, <1>7, <1>8 DEF Write

LEMMA PartsKeep ==
    RingInv /\ Write /\ wpc \in {"first", "second"} =>
        /\ wpc' \in {"second", "adjust"} /\ stream' = stream
        /\ UNCHANGED <<ringVars, readerVars>> /\ mishaps \subseteq mishaps'
        /\ req'.len1 = req.len1 /\ req'.len2 = req.len2
<1> SUFFICES ASSUME RingInv, Write, wpc \in {"first", "second"}
             PROVE  /\ wpc' \in {"second", "adjust"} /\ stream' = stream
                    /\ UNCHANGED <<ringVars, readerVars>> /\ mishaps \subseteq mishaps'
                    /\ req'.len1 = req.len1 /\ req'.len2 = req.len2
  OBVIOUS
<1>1. req \in RequestSet
  BY DEF RingInv, Types
<1>2. CASE WriteFirst
  <2>1. PICK k \in Reaches(req.len1) :
          /\ req' = [req EXCEPT !.done = k, !.failed = k # req.len1]
          /\ wpc' = IF k # req.len1 \/ req.len2 = 0 THEN "adjust" ELSE "second"
    BY <1>2 DEF WriteFirst
  <2>2. mishaps \subseteq mishaps' /\ stream' = stream /\ UNCHANGED <<ringVars, readerVars>>
    BY <1>2 DEF WriteFirst
  <2> QED BY <1>1, <2>1, <2>2 DEF RequestSet
<1>3. CASE WriteSecond
  <2>1. PICK k \in Reaches(req.len2) :
          req' = [req EXCEPT !.done = @ + k, !.failed = k # req.len2]
    BY <1>3 DEF WriteSecond
  <2>2. /\ wpc' = "adjust" /\ mishaps \subseteq mishaps' /\ stream' = stream
        /\ UNCHANGED <<ringVars, readerVars>>
    BY <1>3 DEF WriteSecond
  <2> QED BY <1>1, <2>1, <2>2 DEF RequestSet
<1>4. WriteFirst \/ WriteSecond
  BY DEF Write, WriteBegin, WriteNothing, WriteAdjust, WriteHangs, WriteDone
<1> QED BY <1>2, <1>3, <1>4

LEMMA RequestedStep == RingInv /\ [Next]_vars => Requested'
<1> SUFFICES ASSUME RingInv, [Next]_vars PROVE Requested'
  OBVIOUS
<1>0. Requested
  BY DEF RingInv
<1>1. CASE Write
  BY <1>1, RequestedWrite
<1>2. CASE Reader
  BY <1>0, <1>2, ReaderFrame DEF Requested
<1>3. CASE TimeStart
  BY <1>0, <1>3 DEF TimeStart, Requested, ringVars, writerVars
<1>4. CASE UNCHANGED vars
  BY <1>0, <1>4 DEF vars, Requested, ringVars, writerVars
<1> QED BY <1>1, <1>2, <1>3, <1>4 DEF Next

----------------------------------------------------------------------------
(* The offsets and lengths of the ring.                                      *)

LEMMA SubReadLen ==
    ASSUME Types, NEW fd \in Fds, NEW n \in Nat
    PROVE  Len(SubRead(fd, n)) \in 0 .. n
<1> DEFINE at == ReadAt(fd)
           to == Minimum(at.pos + n, Len(disk[at.sub]))
<1>1. at \in Fds
  BY FdTypes DEF ReadAt, Fds
<1>2. disk[at.sub] \in Seq(Nat) /\ Len(disk[at.sub]) \in Nat /\ at.pos \in Nat
  BY <1>1, FdTypes DEF Fds
<1>3. to \in Int /\ to <= at.pos + n /\ to <= Len(disk[at.sub])
  BY <1>2 DEF Minimum
<1>4. SubRead(fd, n) = SubSeq(disk[at.sub], at.pos + 1, to)
  BY DEF SubRead
<1> HIDE DEF at, to
<1>5. Len(SubSeq(disk[at.sub], at.pos + 1, to)) = IF at.pos + 1 <= to THEN to - (at.pos + 1) + 1 ELSE 0
  <2>1. \A i \in at.pos + 1 .. to : disk[at.sub][i] \in Nat
    BY <1>2, <1>3
  <2>2. at.pos + 1 \in Int
    BY <1>2
  <2> QED BY <1>3, <2>1, <2>2, SubSeqProperties
<1> QED BY <1>2, <1>3, <1>4, <1>5

\* A read stays within the ring, and takes no more than there is.
LEMMA DeliverBounds ==
    ASSUME Types, size > 0, NEW n \in Nat, Deliver(n), 0 <= avail, read \in 0 .. size
    PROVE  /\ read' \in 0 .. size /\ 0 <= avail' /\ avail' <= avail
           /\ read + avail < size => read' + avail' <= read + avail
<1> DEFINE todo  == Minimum(n, avail)
           split == IF read + todo > size THEN size - read ELSE 0
           head  == SubRead(rfd, split)
           short == Len(head) # split
           fd1   == IF split > 0 THEN After(ReadAt(rfd), head) ELSE rfd
           fd2   == IF split > 0 THEN SubSeek(fd1, 0) ELSE rfd
           tail  == SubRead(fd2, todo - split)
           from  == IF split > 0 THEN 0 ELSE read
           r     == IF short THEN read + Len(head)
                    ELSE IF tail # <<>> THEN (from + Len(tail)) % size ELSE from
<1>1. size \in Nat \ {0} /\ read \in Int /\ avail \in Nat
  BY DEF Types, TypeOK
<1>2. todo \in Nat /\ todo <= avail /\ split \in Nat /\ split <= todo /\ split <= size - read
      /\ (read + avail < size => split = 0)
  BY <1>1 DEF Minimum
<1>3. /\ read' = r
      /\ got' = IF short THEN head ELSE head \o tail
      /\ avail' = IF short \/ tail # <<>> THEN avail - Len(got') ELSE avail
  BY DEF Deliver
<1>4. rfd \in Fds
  BY FdTypes
<1> HIDE DEF todo, split
<1>5. head \in Seq(Nat) /\ Len(head) \in 0 .. split /\ fd1 \in Fds
  BY <1>2, <1>4, SubReadLen, SubReadType
<1> HIDE DEF head, fd1
<1>6. fd2 \in Fds
  BY <1>4, <1>5, SubSeekType
<1> HIDE DEF fd2
<1>7. tail \in Seq(Nat) /\ Len(tail) \in 0 .. todo - split
  <2>1. todo - split \in Nat
    BY <1>2
  <2>2. todo - split \in Int
    BY <2>1
  <2> QED BY <1>6, <2>1, <2>2, SubReadLen, SubReadType
<1> HIDE DEF tail
<1>8. Len(head \o tail) = Len(head) + Len(tail)
  BY <1>5, <1>7, ConcatProperties
<1>9. CASE short
  <2>1. read' = read + Len(head) /\ avail' = avail - Len(head)
    BY <1>3, <1>9
  <2>2. Len(head) < split
    BY <1>2, <1>5, <1>9
  <2> QED BY <1>1, <1>2, <1>5, <2>1, <2>2
<1>10. CASE ~short /\ tail # <<>>
  <2>1. read' = (from + Len(tail)) % size /\ avail' = avail - (Len(head) + Len(tail))
    BY <1>3, <1>8, <1>10
  <2>2. Len(head) = split
    BY <1>10
  <2>3. 0 <= avail' /\ avail' <= avail
    BY <1>1, <1>2, <1>5, <1>7, <2>1, <2>2
  <2>4. from \in 0 .. size
    BY <1>1
  <2>5. read' \in 0 .. size - 1
    <3> HIDE DEF from
    <3>1. from + Len(tail) \in Int
      BY <1>7, <2>4
    <3> QED BY <1>1, <2>1, <3>1, ModDef
  <2>6. ASSUME read + avail < size PROVE read' + avail' <= read + avail
    <3>1. split = 0 /\ from = read
      BY <1>2, <2>6
    <3>2. read + Len(tail) \in 0 .. size - 1
      BY <1>1, <1>2, <1>7, <2>6, <3>1
    <3>3. (read + Len(tail)) % size = read + Len(tail)
      BY <1>1, <3>2, ModSmall
    <3>4. read' = read + Len(tail)
      BY <2>1, <3>1, <3>3
    <3> QED BY <1>1, <1>5, <1>7, <2>1, <2>2, <3>1, <3>4
  <2> QED BY <1>1, <2>3, <2>5, <2>6
<1>11. CASE ~short /\ ~(tail # <<>>)
  <2>1. read' = from /\ avail' = avail /\ Len(tail) = 0
    BY <1>3, <1>11
  <2>2. read' \in 0 .. size
    BY <1>1, <2>1
  <2>3. read + avail < size => read' = read
    BY <1>2, <2>1
  <2> QED BY <1>1, <2>1, <2>2, <2>3
<1> QED BY <1>9, <1>10, <1>11

\* What the removals remove of the ring is at most what lies between the fragments.
LEMMA RemovedBound ==
    ASSUME Types, Fragmented, size > 0, frags # <<>>
    PROVE  \A k \in 0 .. Len(frags) - 1 :
              /\ Removed[k] \in Nat /\ Removed[k] <= frags[k + 1].after - frags[1].after
              /\ Without({"late", "refused"}) => Removed[k] = frags[k + 1].after - frags[1].after
<1> DEFINE L == Len(frags)
           a(k) == frags[k].after
           Clean == Without({"late", "refused"})
           P(k) == /\ Removed[k] \in Nat /\ Removed[k] <= a(k + 1) - a(1)
                   /\ Clean => Removed[k] = a(k + 1) - a(1)
           T == {k \in Nat : k <= L - 1 => P(k)}
<1>1. L \in Nat \ {0} /\ DOMAIN frags = 1 .. L
  BY DEF Types
<1>2. \A k \in 1 .. L : a(k) \in Int /\ frags[k].start \in Int /\ frags[k].end \in Int
  BY FragmentType
<1>3. Removed[0] = 0 /\ \A k \in 1 .. L : Removed[k] = Removed[k - 1] + FragmentSize(frags[k])
  BY RemovedSpec
<1>4. \A k \in 1 .. L - 1 : /\ FragmentSize(frags[k]) \in 0 .. a(k + 1) - a(k)
                            /\ Clean => FragmentSize(frags[k]) = a(k + 1) - a(k)
  <2> SUFFICES ASSUME NEW k \in 1 .. L - 1
               PROVE  /\ FragmentSize(frags[k]) \in 0 .. a(k + 1) - a(k)
                      /\ Clean => FragmentSize(frags[k]) = a(k + 1) - a(k)
    OBVIOUS
  <2>1. FragmentSize(frags[k]) \in 0 .. a(k + 1) - a(k)
    BY DEF Fragmented
  <2>2. k \in 1 .. L /\ k + 1 \in 1 .. L
    BY <1>1
  <2>3. ASSUME Clean PROVE FragmentSize(frags[k]) = a(k + 1) - a(k)
    <3>1. frags[k].end - frags[k].start = a(k + 1) - a(k)
      BY <2>3 DEF Fragmented
    <3>2. a(k) <= a(k + 1)
      BY <1>1, <2>2 DEF Fragmented
    <3> QED BY <1>2, <2>2, <3>1, <3>2 DEF FragmentSize
  <2> QED BY <2>1, <2>3
<1> HIDE DEF Clean
<1>5. 0 \in T
  BY <1>1, <1>2, <1>3
<1>6. \A k \in T : k + 1 \in T
  <2> SUFFICES ASSUME NEW k \in T, k + 1 <= L - 1 PROVE P(k + 1)
    OBVIOUS
  <2>1. k \in Nat /\ P(k) /\ k + 1 \in 1 .. L - 1 /\ (k + 1) - 1 = k
    BY <1>1
  <2>2. Removed[k + 1] = Removed[k] + FragmentSize(frags[k + 1])
    BY <1>1, <1>3, <2>1
  <2>3. /\ FragmentSize(frags[k + 1]) \in 0 .. a((k + 1) + 1) - a(k + 1)
        /\ Clean => FragmentSize(frags[k + 1]) = a((k + 1) + 1) - a(k + 1)
    BY <1>4, <2>1
  <2>4. a(1) \in Int /\ a(k + 1) \in Int /\ a((k + 1) + 1) \in Int
    BY <1>1, <1>2, <2>1
  <2> HIDE DEF a
  <2> QED BY <2>1, <2>2, <2>3, <2>4
<1>7. T = Nat
  <2>1. T \in SUBSET Nat
    OBVIOUS
  <2> HIDE DEF T
  <2> QED BY <1>5, <1>6, <2>1, Induct
<1> QED BY <1>1, <1>7 DEF Clean

\* The write offset after n more units.
LEMMA WriteMoves ==
    ASSUME NEW n \in Nat, size \in Nat \ {0}, stream \in Nat, write = stream % size
    PROVE  (write + n) % size = (stream + n) % size /\ (write + n) % size \in 0 .. size - 1
<1>1. stream \in Int /\ n \in Int /\ write + n \in Int
  <2>1. stream % size \in Int
    BY ModDef
  <2> QED BY <2>1
<1>2. (stream + n) % size = (write + n) % size
  BY <1>1, ModAdd
<1> QED BY <1>1, <1>2, ModDef

LEMMA PlacedAdjust == RingInv /\ WriteAdjust => Placed'
<1> SUFFICES ASSUME RingInv, WriteAdjust, size > 0 PROVE Placed'
  BY DEF RingInv, Requested, WriteAdjust
<1> DEFINE n     == req.done
           rleft == size - avail
           sleft == size - total
           moved == n > sleft
           w     == (write + n) % size
           s(k)  == IF ~moved THEN start ELSE IF k > 0 THEN frags[k + 1].start ELSE w
           t0(k) == IF ~moved THEN total ELSE total - (IF k > 0 THEN Removed[k] ELSE n)
           t(k)  == IF t0(k) < size THEN Minimum(t0(k) + n, size) ELSE t0(k)
           a0    == IF n > rleft THEN avail - (n - rleft) ELSE avail
           a     == IF a0 < size THEN Minimum(a0 + n, size) ELSE a0
           reset(k) == n > rleft \/ a > t(k)
<1>1. PICK k \in IF moved /\ timer = "on" THEN Removals(n) ELSE {0} :
          /\ start' = s(k) /\ total' = t(k) /\ write' = w
          /\ read' = (IF reset(k) THEN s(k) ELSE read)
          /\ avail' = Minimum(a, t(k))
          /\ mishaps' = mishaps \cup Mishap(reset(k), "overrun")
                            \cup Mishap(moved /\ k = 0 /\ sleft > 0, "ragged")
  BY DEF WriteAdjust
<1>2. size' = size /\ stream' = stream + n
  BY DEF WriteAdjust
<1>3. Types /\ Requested /\ Placed /\ Fragmented
  BY DEF RingInv
<1>4. /\ size \in Nat \ {0} /\ stream \in Nat /\ start \in 0 .. size - 1 /\ total \in 0 .. size
      /\ avail \in Int /\ read \in Int
      /\ stream < size => start = 0 /\ total = stream
      /\ write = stream % size
  BY <1>3 DEF Types, TypeOK, Placed
<1>5. n \in 1 .. size
  BY <1>3 DEF WriteAdjust, Types, Requested, RequestSet
<1>6. w = (stream + n) % size /\ w \in 0 .. size - 1 /\ write \in 0 .. size - 1
  <2>1. n \in Nat
    BY <1>5
  <2>2. w = (stream + n) % size /\ w \in 0 .. size - 1
    BY <1>4, <2>1, WriteMoves
  <2>3. write \in 0 .. size - 1
    BY <1>4, ModDef
  <2> QED BY <2>2, <2>3
<1>7. /\ Without({"early", "ahead"})' => Without({"early", "ahead"})
      /\ Without({"ragged", "late", "refused"})' =>
            Without({"ragged", "late", "refused"}) /\ ~(moved /\ k = 0 /\ sleft > 0)
  BY <1>1 DEF Without, Mishap
<1>8. Without({"early", "ahead"}) =>
        /\ 0 <= avail /\ avail <= total /\ read \in 0 .. size
        /\ stream < size => read + avail <= stream
  BY <1>3 DEF Placed
<1>9. Without({"ragged", "late", "refused"}) => (start + total) % size = write
  BY <1>3 DEF Placed
<1> HIDE DEF w
<1>10. CASE ~moved
  <2>1. t(k) = total + n /\ total + n <= size
    BY <1>4, <1>5, <1>10 DEF Minimum
  <2>2. s(k) = start
    BY <1>10
  <2> HIDE DEF s, t
  <2>3. stream' < size' => start' = 0 /\ total' = stream'
    BY <1>1, <1>2, <1>4, <1>5, <2>1, <2>2
  <2>4. ASSUME Without({"early", "ahead"})
        PROVE  /\ 0 <= avail' /\ avail' <= total' /\ read' \in 0 .. size
               /\ stream' < size => read' + avail' <= stream'
    <3>1. 0 <= avail /\ avail <= total /\ read \in 0 .. size
      BY <1>8, <2>4
    <3>2. ~(n > rleft) /\ a = avail + n
      BY <1>4, <1>5, <1>10, <3>1 DEF Minimum
    <3>3. ~reset(k)
      BY <1>4, <1>5, <2>1, <3>1, <3>2
    <3> HIDE DEF a, reset, rleft
    <3>4. read' = read /\ avail' = avail + n
      BY <1>1, <1>4, <1>5, <2>1, <3>1, <3>2, <3>3 DEF Minimum
    <3> QED BY <1>1, <1>2, <1>4, <1>5, <1>8, <2>1, <2>4, <3>1, <3>4
  <2>5. ASSUME Without({"ragged", "late", "refused"}) PROVE (start' + total') % size = w
    <3>1. start + total \in Int /\ n \in Int
      BY <1>4, <1>5
    <3>2. ((start + total) + n) % size = (write + n) % size
      BY <1>4, <1>9, <2>5, <3>1, ModAdd
    <3>3. start' + total' = (start + total) + n
      BY <1>1, <1>4, <1>5, <2>1, <2>2
    <3> QED BY <3>2, <3>3 DEF w
  <2> QED BY <1>1, <1>2, <1>4, <1>5, <1>6, <1>7, <2>1, <2>2, <2>3, <2>4, <2>5 DEF Placed
<1>11. CASE moved
  <2>1. ~(stream' < size')
    BY <1>2, <1>4, <1>5, <1>11
  <2>2. /\ s(k) \in 0 .. size - 1 /\ t(k) \in 0 .. size
        /\ Without({"ragged", "late", "refused"})' => (s(k) + t(k)) % size = w
    <3>1. CASE timer # "on"
      <4>1. k = 0
        BY <1>1, <3>1
      <4>2. s(k) = w /\ t(k) = total
        BY <1>4, <1>5, <1>11, <4>1 DEF Minimum
      <4>3. ASSUME Without({"ragged", "late", "refused"})' PROVE (w + total) % size = w
        <5>1. total = size
          BY <1>4, <1>7, <1>11, <4>1, <4>3
        <5>2. w \in Int /\ 1 \in Int
          BY <1>6
        <5>3. ((1 * size) + w) % size = w % size
          BY <1>4, <5>2, ModShift
        <5>4. w % size = w
          BY <1>4, <1>6, ModSmall
        <5>5. (1 * size) + w = w + total
          BY <1>4, <5>1, <5>2
        <5> QED BY <5>3, <5>4, <5>5
      <4> HIDE DEF s, t
      <4> QED BY <1>4, <1>6, <4>2, <4>3
    <3>2. CASE timer = "on"
      <4> DEFINE L == Len(frags)
                 R == Removed[k]
                 c == frags[k + 1].after
                 first == frags[1].after
      <4>1. L \in Nat /\ frags # <<>> /\ DOMAIN frags = 1 .. L
        BY <1>3, <3>2 DEF Types, TypeOK
      <4>2. k \in 1 .. L - 1 /\ R >= n
        BY <1>1, <1>11, <3>2 DEF Removals
      <4>3. /\ R \in Nat /\ R <= c - first
            /\ Without({"late", "refused"}) => R = c - first
        <5>1. k \in 0 .. L - 1
          BY <4>1, <4>2
        <5> QED BY <1>3, <1>4, <4>1, <5>1, RemovedBound
      <4>4. c \in Int /\ first \in Int /\ frags[k + 1].start \in Int
        <5>1. k + 1 \in 1 .. L /\ 1 \in 1 .. L
          BY <4>1, <4>2
        <5> QED BY <1>3, <5>1, FragmentType
      <4>5. /\ 0 <= c /\ c <= stream + n /\ frags[k + 1].start = c % size
            /\ stream - first <= total
            /\ Without({"late", "refused"}) => stream - first = total
        <5>1. k + 1 \in DOMAIN frags
          BY <4>1, <4>2
        <5>2. Written = stream + n
          BY DEF Written, WriteAdjust
        <5> QED BY <1>3, <1>4, <4>1, <5>1, <5>2 DEF Fragmented
      <4>6. s(k) = c % size
        BY <1>11, <4>2, <4>5
      <4> HIDE DEF R, c, first
      <4>7. t(k) = total - R + n
        <5>1. t0(k) = total - R
          BY <1>11, <4>2 DEF R
        <5>2. t(k) = IF total - R < size THEN Minimum((total - R) + n, size) ELSE total - R
          BY <5>1
        <5> HIDE DEF t
        <5> QED BY <1>4, <1>5, <4>2, <4>3, <5>2 DEF Minimum
      <4> HIDE DEF s, t
      <4>8. t(k) \in 0 .. size
        BY <1>4, <1>5, <4>2, <4>3, <4>4, <4>5, <4>7
      <4>9. s(k) \in 0 .. size - 1
        BY <1>4, <4>4, <4>6, ModDef
      <4>10. ASSUME Without({"ragged", "late", "refused"})' PROVE (s(k) + t(k)) % size = w
        <5>1. Without({"late", "refused"})
          BY <1>7, <4>10 DEF Without
        <5>2. c + t(k) = stream + n
          BY <1>4, <1>5, <4>3, <4>4, <4>5, <4>7, <5>1
        <5>3. t(k) \in Int
          BY <4>8
        <5>4. (c + t(k)) % size = ((c % size) + t(k)) % size
          BY <1>4, <4>4, <5>3, ModAdd
        <5> QED BY <1>6, <4>6, <5>2, <5>4
      <4> QED BY <4>8, <4>9, <4>10
    <3> QED BY <3>1, <3>2
  <2>3. ASSUME Without({"early", "ahead"})
        PROVE  0 <= avail' /\ avail' <= total' /\ read' \in 0 .. size
    <3>1. 0 <= avail /\ avail <= size /\ read \in 0 .. size
      BY <1>4, <1>8, <2>3
    <3>2. a \in 0 .. size
      BY <1>4, <1>5, <3>1 DEF Minimum
    <3> HIDE DEF a, reset, s, t
    <3> QED BY <1>1, <1>4, <2>2, <3>1, <3>2 DEF Minimum
  <2> HIDE DEF s, t, moved
  <2> QED BY <1>1, <1>2, <1>6, <1>7, <2>1, <2>2, <2>3 DEF Placed
<1> QED BY <1>10, <1>11

LEMMA PlacedDone == RingInv /\ WriteDone => Placed'
<1> SUFFICES ASSUME RingInv, WriteDone, size' > 0 PROVE Placed'
  BY DEF Placed
<1>1. Types /\ Placed /\ size > 0
  BY DEF RingInv, Requested, WriteDone
<1>2. /\ size \in Nat \ {0} /\ stream \in Nat /\ write = stream % size
      /\ start \in 0 .. size - 1 /\ total \in 0 .. size /\ read \in Int /\ avail \in Int
  BY <1>1 DEF Types, TypeOK, Placed
<1>3. /\ avail' = avail /\ total' = total /\ start' = start /\ read' = read /\ write' = write
      /\ stream' = stream /\ mishaps' = mishaps
  BY DEF WriteDone
<1>4. CASE size' = size
  BY <1>1, <1>3, <1>4 DEF Placed, Without
<1>5. CASE size' # size
  <2>1. PICK n \in Nat \ {0} : size' = n /\ stream < n /\ n < size
    <3>1. PICK product \in Products : /\ product = 0 \/ product > stream
                                      /\ size' = Minimum(product, size)
      BY <1>5 DEF WriteDone
    <3>2. product \in Nat
      BY ProductsAssumption
    <3> QED BY <1>2, <1>5, <3>1, <3>2 DEF Minimum
  <2>2. stream < size /\ stream \in 0 .. n - 1 /\ stream \in 0 .. size - 1
    BY <1>2, <2>1
  <2>3. start = 0 /\ total = stream
    BY <1>1, <2>2 DEF Placed
  <2>4. stream % size = stream /\ stream % n = stream
    BY <1>2, <2>2, ModSmall
  <2>5. ASSUME Without({"early", "ahead"})
        PROVE  /\ 0 <= avail /\ avail <= total /\ read \in 0 .. n
               /\ stream < n => read + avail <= stream
    <3>1. /\ 0 <= avail /\ avail <= total /\ read \in 0 .. size
          /\ read + avail <= stream
      BY <1>1, <2>2, <2>5 DEF Placed
    <3> QED BY <1>2, <2>1, <3>1
  <2>6. (start + total) % n = write
    BY <1>2, <2>3, <2>4
  <2>7. write = stream % n /\ start \in 0 .. n - 1 /\ total \in 0 .. n
    BY <1>2, <2>2, <2>3, <2>4
  <2>8. Without({"early", "ahead"})' => Without({"early", "ahead"})
    BY <1>3 DEF Without
  <2> QED BY <1>3, <2>1, <2>3, <2>5, <2>6, <2>7, <2>8 DEF Placed
<1> QED BY <1>4, <1>5

LEMMA PlacedReader == RingInv /\ Reader => Placed'
<1> SUFFICES ASSUME RingInv, Reader PROVE Placed'
  OBVIOUS
<1>1. /\ size' = size /\ total' = total /\ start' = start /\ write' = write
      /\ stream' = stream /\ size > 0 /\ mishaps \ {"overrun"} \subseteq mishaps'
  BY ReaderFrame
<1>2. Types /\ Placed /\ Fragmented
  BY DEF RingInv
<1>3. /\ size \in Nat \ {0} /\ stream \in Nat /\ write = stream % size
      /\ start \in 0 .. size - 1 /\ total \in 0 .. size /\ read \in Int /\ avail \in Int
      /\ want \in Nat /\ (stream < size => start = 0 /\ total = stream)
  BY <1>1, <1>2 DEF Types, TypeOK, Placed
<1>4. /\ Without({"early", "ahead"})' => Without({"early", "ahead"})
      /\ Without({"ragged", "late", "refused"})' => Without({"ragged", "late", "refused"})
  BY <1>1 DEF Without
<1>5. Without({"early", "ahead"}) =>
        /\ 0 <= avail /\ avail <= total /\ read \in 0 .. size
        /\ stream < size => read + avail <= stream
  BY <1>1, <1>2 DEF Placed
<1>6. SUFFICES ASSUME Without({"early", "ahead"})'
               PROVE  /\ 0 <= avail' /\ avail' <= total /\ read' \in 0 .. size
                      /\ stream < size => read' + avail' <= stream
  BY <1>1, <1>2, <1>4 DEF Placed
<1>7. /\ 0 <= avail /\ avail <= total /\ read \in 0 .. size
      /\ stream < size => read + avail <= stream
  BY <1>4, <1>5, <1>6
<1>8. ASSUME NEW n \in Nat, Deliver(n)
      PROVE  /\ 0 <= avail' /\ avail' <= total /\ read' \in 0 .. size
             /\ stream < size => read' + avail' <= stream
  <2>1. /\ read' \in 0 .. size /\ 0 <= avail' /\ avail' <= avail
        /\ read + avail < size => read' + avail' <= read + avail
    BY <1>1, <1>2, <1>7, <1>8, DeliverBounds
  <2>2. avail' \in Int /\ read' \in Int
    BY <1>1, <1>2, <1>8, DeliverType
  <2>3. stream < size => read + avail < size
    BY <1>3, <1>7
  <2>4. ASSUME stream < size PROVE read' + avail' <= stream
    <3>1. read' + avail' <= read + avail /\ read + avail <= stream
      BY <1>7, <2>1, <2>3, <2>4
    <3>2. read' + avail' \in Int /\ read + avail \in Int
      BY <1>3, <2>2
    <3> QED BY <1>3, <3>1, <3>2
  <2>5. avail' <= total
    BY <1>3, <1>7, <2>1, <2>2
  <2> QED BY <2>1, <2>4, <2>5
<1>9. CASE Read
  BY <1>8, <1>9, ChunksAssumption DEF Read
<1>10. CASE ReadWait
  BY <1>7, <1>10 DEF ReadWait, ringVars
<1>11. CASE ReadWoken
  <2>1. CASE avail > 0
    BY <1>3, <1>8, <1>11, <2>1 DEF ReadWoken
  <2>2. CASE ~(avail > 0)
    <3>1. avail' = 0 /\ read' = read
      BY <1>11, <2>2 DEF ReadWoken
    <3> QED BY <1>3, <1>7, <2>2, <3>1
  <2> QED BY <2>1, <2>2
<1>12. CASE Seek
  <2>1. PICK offset \in Int :
          LET off == IF offset > total THEN total - 1 ELSE IF offset < 0 THEN 0 ELSE offset
              to  == start + off
          IN  /\ read' = IF to < 0 THEN to ELSE to % size
              /\ avail' = total - off
              /\ mishaps' = Moved(read', avail') \cup Mishap(off < 0, "early")
    BY <1>12, OffsetsAssumption DEF Seek
  <2> DEFINE off == IF offset > total THEN total - 1 ELSE IF offset < 0 THEN 0 ELSE offset
  <2>2. off \in 0 .. total
    <3>1. ~(off < 0)
      BY <1>6, <2>1 DEF Without, Mishap
    <3> QED BY <1>3, <3>1
  <2>3. read' = (start + off) % size /\ avail' = total - off
    BY <1>3, <2>1, <2>2
  <2> HIDE DEF off
  <2>4. start + off \in Int
    BY <1>3, <2>2
  <2>5. read' \in 0 .. size - 1
    BY <1>3, <2>3, <2>4, ModDef
  <2>6. ASSUME stream < size PROVE read' + avail' <= stream
    <3>1. start + off = off /\ off \in 0 .. size - 1
      BY <1>3, <2>2, <2>6
    <3>2. off % size = off
      BY <1>3, <3>1, ModSmall
    <3> QED BY <1>3, <2>2, <2>3, <2>6, <3>1, <3>2
  <2> QED BY <1>3, <2>2, <2>3, <2>5, <2>6
<1>13. CASE TimeSeek
  <2>1. PICK k \in DOMAIN frags :
          LET from == frags[k].start
          IN  /\ read' = from
              /\ avail' = IF write >= from THEN write - from ELSE size - from + write
              /\ mishaps' = Moved(read', avail')
                    \cup Mishap(frags[k].after > stream, "ahead")
                    \cup Mishap(from = write /\ frags[k].after < stream, "full")
    BY <1>13 DEF TimeSeek
  <2> DEFINE c == frags[k].after
             first == frags[1].after
  <2>2. frags # <<>> /\ 1 \in DOMAIN frags /\ 1 <= k /\ DOMAIN frags = 1 .. Len(frags)
    BY <1>2, <2>1 DEF Types
  <2>3. /\ 0 <= c /\ frags[k].start = c % size /\ first <= c /\ stream - first <= total
    BY <1>1, <1>2, <2>2 DEF Fragmented
  <2>4. c \in Int /\ first \in Int
    BY <1>2, <2>2, FragmentType
  <2>5. c <= stream
    <3>1. ~(c > stream)
      BY <1>6, <2>1 DEF Without, Mishap
    <3> QED BY <1>3, <2>4, <3>1
  <2> HIDE DEF c, first
  <2> DEFINE d == stream - c
  <2>6. d \in Nat /\ c + d = stream /\ d <= total
    BY <1>3, <2>3, <2>4, <2>5
  <2>7. /\ d % size = IF write >= c % size THEN write - (c % size)
                                           ELSE size - (c % size) + write
        /\ d % size <= d
    <3> HIDE DEF d
    <3>1. LET x == c % size
              b == (c + d) % size
          IN  /\ d % size = IF b >= x THEN b - x ELSE size - x + b
              /\ d % size <= d
      BY <1>3, <2>4, <2>6, ModApart
    <3> QED BY <1>3, <2>6, <3>1
  <2>8. read' = c % size /\ avail' = d % size
    BY <2>1, <2>3, <2>7 DEF c
  <2> HIDE DEF d
  <2>9. read' \in 0 .. size - 1 /\ avail' \in 0 .. size - 1
    <3>1. d \in Int
      BY <2>6
    <3> QED BY <1>3, <2>4, <2>8, <3>1, ModDef
  <2>10. avail' <= total
    BY <1>3, <2>6, <2>7, <2>8, <2>9
  <2>11. ASSUME stream < size PROVE read' + avail' <= stream
    <3>1. c \in 0 .. size - 1 /\ d \in 0 .. size - 1
      BY <1>3, <2>3, <2>4, <2>5, <2>6, <2>11
    <3>2. c % size = c /\ d % size = d
      BY <1>3, <3>1, ModSmall
    <3> QED BY <1>3, <2>4, <2>6, <2>8, <3>2
  <2>12. 0 <= avail' /\ read' \in 0 .. size
    BY <1>3, <2>9
  <2> QED BY <2>10, <2>11, <2>12
<1> QED BY <1>9, <1>10, <1>11, <1>12, <1>13 DEF Reader

LEMMA PlacedStep == RingInv /\ [Next]_vars => Placed'
<1> SUFFICES ASSUME RingInv, [Next]_vars PROVE Placed'
  OBVIOUS
<1>0. Placed
  BY DEF RingInv
<1> DEFINE Same == UNCHANGED <<ringVars, stream>> /\ mishaps \subseteq mishaps'
<1>1. Same => Placed'
  <2>1. SUFFICES ASSUME Same PROVE Placed'
    OBVIOUS
  <2>2. /\ Without({"early", "ahead"})' => Without({"early", "ahead"})
        /\ Without({"ragged", "late", "refused"})' => Without({"ragged", "late", "refused"})
    BY <2>1 DEF Without
  <2> QED BY <1>0, <2>1, <2>2 DEF Placed, ringVars
<1>2. CASE WriteBegin
  BY <1>1, <1>2 DEF WriteBegin
<1>3. CASE WriteFirst
  BY <1>1, <1>3 DEF WriteFirst
<1>4. CASE WriteSecond
  BY <1>1, <1>4 DEF WriteSecond
<1>5. CASE WriteNothing
  BY <1>1, <1>5 DEF WriteNothing
<1>6. CASE WriteHangs
  BY <1>1, <1>6 DEF WriteHangs
<1>7. CASE TimeStart
  BY <1>1, <1>7 DEF TimeStart, writerVars
<1>8. CASE UNCHANGED vars
  BY <1>1, <1>8 DEF vars, writerVars
<1> QED BY <1>2, <1>3, <1>4, <1>5, <1>6, <1>7, <1>8, PlacedAdjust, PlacedDone, PlacedReader
        DEF Next, Write

----------------------------------------------------------------------------
(* The fragments of the timer.                                               *)

LEMMA WrittenType ==
    ASSUME Types PROVE Written \in Nat /\ stream <= Written
  BY DEF Types, RequestSet, Written

\* Data is written, and no fragment begins.
LEMMA FragmentedGrows ==
    ASSUME Types, Fragmented, NEW k \in Nat,
           size' = size, frags' = frags, stream' = stream, total' = total,
           Written' = Written + k,
           Without({"late", "refused"})' =>
              Without({"late", "refused"}) /\ Written' % size = (Written % size) + k
    PROVE  Fragmented'
<1> SUFFICES ASSUME size > 0, frags # <<>> PROVE Fragmented'
  BY DEF Fragmented
<1> DEFINE L == Len(frags)
<1>1. L \in Nat \ {0} /\ DOMAIN frags = 1 .. L /\ L \in 1 .. L
  BY DEF Types
<1>2. Written \in Nat /\ size \in Nat \ {0}
  BY WrittenType DEF Types
<1>3. \A i \in DOMAIN frags : frags[i].after \in Int /\ frags[i].start \in Int
  BY <1>1, FragmentType
<1>4. \A i \in DOMAIN frags : frags[i].after <= Written'
  BY <1>1, <1>2, <1>3 DEF Fragmented
<1>5. ASSUME Without({"late", "refused"})'
      PROVE  Written' - frags[L].after = (Written' % size) - frags[L].start
  <2>1. Written - frags[L].after = (Written % size) - frags[L].start
    BY <1>5 DEF Fragmented
  <2>2. Written % size \in Int
    BY <1>2, ModDef
  <2>3. frags[L].after \in Int /\ frags[L].start \in Int
    BY <1>1, <1>3
  <2> HIDE DEF L
  <2> QED BY <1>2, <1>5, <2>1, <2>2, <2>3
<1> QED BY <1>4, <1>5 DEF Fragmented, FragmentSize

\* k units more, from p on, end at the offset o.
Lands(k, p, o) ==
    frags # <<>> => size > 0 /\ p = Written % size /\ p + k <= size /\ o = (Written + k) % size

\* Data is written, and a fragment begins behind it.
LEMMA FragmentedAdds ==
    ASSUME Types, Fragmented, NEW k \in Nat, NEW p \in Nat, NEW o \in Int, Lands(k, p, o),
           size' = size, stream' = stream, total' = total, Written' = Written + k,
           frags' = AddFragment(p + k, o, Written + k),
           Without({"late", "refused"})' => Without({"late", "refused"}) /\ ~Refused(o)
    PROVE  Fragmented'
<1>0. CASE frags = <<>>
  <2>1. p + k \in Int /\ Written + k \in Int
    BY WrittenType
  <2>2. frags' = <<>>
    BY <1>0, <2>1, AddFragmentSpec
  <2> QED BY <2>2 DEF Fragmented
<1> SUFFICES ASSUME frags # <<>> PROVE Fragmented'
  BY <1>0
<1>1. PICK L \in Nat \ {0} : L = Len(frags) /\ DOMAIN frags = 1 .. L /\ L \in 1 .. L
  BY DEF Types
<1> DEFINE last == frags[L]
<1>2. PICK W \in Nat : /\ W = Written + k /\ Written \in Nat /\ k \in Int /\ p \in Int
                       /\ size \in Nat \ {0} /\ stream \in Int /\ stream <= Written
  BY WrittenType DEF Types, Lands
<1>3. \A i \in 1 .. L : frags[i].after \in Int /\ frags[i].start \in Int /\ frags[i].end \in Int
  BY <1>1, FragmentType
<1>4. last.after \in Int /\ last.start \in Int
  BY <1>1, <1>3
<1>5. /\ 0 <= last.after /\ last.after <= Written /\ last.start = last.after % size
  BY <1>1, <1>2 DEF Fragmented
<1>6. last.start \in 0 .. size - 1
  BY <1>2, <1>4, <1>5, ModDef
<1>7. /\ Refused(o) => frags' = frags
      /\ ~Refused(o) => /\ Len(frags') = L + 1 /\ frags' \in Seq(FragmentSet)
                        /\ frags'[L + 1].start = o /\ frags'[L + 1].after = W
                        /\ frags'[L].start = last.start /\ frags'[L].end = p + k
                        /\ frags'[L].after = last.after
                        /\ \A i \in 1 .. L - 1 : frags'[i] = frags[i]
  <2>1. PICK e \in Int : e = p + k
    BY <1>2
  <2>2. frags' = AddFragment(e, o, W)
    BY <1>2, <2>1
  <2>3. W \in Int
    BY <1>2
  <2>4. /\ frags' \in Seq(FragmentSet)
        /\ Refused(o) => frags' = frags
        /\ ~Refused(o) => Added(frags', e, o, W)
    BY <2>2, <2>3, AddFragmentSpec
  <2> QED BY <1>1, <2>1, <2>4 DEF Added
<1> HIDE DEF last
<1>8. CASE Refused(o)
  <2>1. frags' = frags /\ ~Without({"late", "refused"})'
    BY <1>7, <1>8
  <2> QED BY <1>2, <2>1, FragmentedGrows
<1>9. CASE ~Refused(o)
  <2>1. /\ Len(frags') = L + 1 /\ frags'[L + 1].start = o /\ frags'[L + 1].after = W
        /\ frags'[L].start = last.start /\ frags'[L].end = p + k /\ frags'[L].after = last.after
        /\ \A i \in 1 .. L - 1 : frags'[i] = frags[i]
        /\ DOMAIN frags' = 1 .. L + 1
    BY <1>7, <1>9
  <2>2. \A i \in 1 .. L : frags'[i].start = frags[i].start /\ frags'[i].after = frags[i].after
    <3> SUFFICES ASSUME NEW i \in 1 .. L
                 PROVE  frags'[i].start = frags[i].start /\ frags'[i].after = frags[i].after
      OBVIOUS
    <3>1. i = L \/ i \in 1 .. L - 1
      BY <1>1
    <3> QED BY <2>1, <3>1 DEF last
  <2>3. ASSUME NEW i \in 1 .. L + 1
        PROVE  /\ 0 <= frags'[i].after /\ frags'[i].after <= W
               /\ frags'[i].start = frags'[i].after % size
    <3>1. CASE i = L + 1
      BY <1>2, <2>1, <3>1 DEF Lands
    <3>2. CASE i \in 1 .. L
      <4>1. /\ 0 <= frags[i].after /\ frags[i].after <= Written
            /\ frags[i].start = frags[i].after % size
        BY <1>1, <1>2, <3>2 DEF Fragmented
      <4> QED BY <1>2, <1>3, <2>2, <3>2, <4>1
    <3> QED BY <1>1, <3>1, <3>2
  <2>4. ASSUME NEW i \in 1 .. L + 1, NEW j \in 1 .. L + 1, i <= j
        PROVE  frags'[i].after <= frags'[j].after
    <3>1. CASE j = L + 1
      BY <2>1, <2>3, <3>1
    <3>2. CASE j \in 1 .. L
      <4>1. i \in 1 .. L
        BY <1>1, <2>4, <3>2
      <4>2. \A x, y \in 1 .. L : x <= y => frags[x].after <= frags[y].after
        <5>1. \A x, y \in DOMAIN frags : x <= y => frags[x].after <= frags[y].after
          BY <1>2 DEF Fragmented
        <5> QED BY <1>1, <5>1
      <4> QED BY <2>2, <2>4, <3>2, <4>1, <4>2
    <3> QED BY <1>1, <3>1, <3>2
  \* the fragment that is closed
  <2>5. FragmentSize(frags[L])' \in 0 .. W - last.after
    <3> DEFINE d == Written - last.after
    <3>1. d \in Nat /\ last.after + d = Written
      BY <1>2, <1>4, <1>5
    <3>2. /\ d % size = IF p >= last.start THEN p - last.start ELSE size - last.start + p
          /\ d % size <= d
      <4> HIDE DEF d
      <4>1. LET x == last.after % size
                b == (last.after + d) % size
            IN  /\ d % size = IF b >= x THEN b - x ELSE size - x + b
                /\ d % size <= d
        BY <1>2, <1>4, <3>1, ModApart
      <4> QED BY <1>2, <1>5, <3>1, <4>1 DEF Lands
    <3>3. (IF p >= last.start THEN p - last.start ELSE size - last.start + p) <= d
      <4> HIDE DEF d
      <4> QED BY <3>2
    <3>4. FragmentSize(frags[L])' = IF p + k >= last.start THEN p + k - last.start
                                                            ELSE size - last.start
      <4>1. FragmentSize(frags[L])' = IF frags'[L].end >= frags'[L].start
                                      THEN frags'[L].end - frags'[L].start
                                      ELSE size - frags'[L].start
        BY DEF FragmentSize
      <4> QED BY <1>2, <1>4, <2>1, <4>1
    <3>5. p + k <= size /\ d + k = W - last.after
      <4>1. p + k <= size
        BY DEF Lands
      <4>2. d + k = W - last.after
        BY <1>2, <1>4
      <4> QED BY <4>1, <4>2
    <3> HIDE DEF d
    <3> QED BY <1>2, <1>6, <3>1, <3>3, <3>4, <3>5
  <2>6. ASSUME NEW i \in 1 .. L
        PROVE  FragmentSize(frags[i])' \in 0 .. frags'[i + 1].after - frags'[i].after
    <3>1. CASE i = L
      BY <2>1, <2>5, <3>1
    <3>2. CASE i # L
      <4>1. i \in 1 .. L - 1 /\ i + 1 \in 1 .. L /\ i \in 1 .. L
        BY <1>1, <3>2
      <4>2. FragmentSize(frags[i]) \in 0 .. frags[i + 1].after - frags[i].after
        BY <1>1, <1>2, <4>1 DEF Fragmented
      <4>3. FragmentSize(frags[i])' = FragmentSize(frags[i])
        BY <2>1, <4>1 DEF FragmentSize
      <4> QED BY <2>2, <4>1, <4>2, <4>3
    <3> QED BY <3>1, <3>2
  <2>7. stream - frags'[1].after <= total
    <3>1. stream - frags[1].after <= total /\ 1 \in 1 .. L
      BY <1>1, <1>2 DEF Fragmented
    <3> QED BY <2>2, <3>1
  <2>8. ASSUME Without({"late", "refused"})'
        PROVE  /\ \A i \in 1 .. L : frags'[i].end - frags'[i].start = frags'[i + 1].after - frags'[i].after
               /\ stream - frags'[1].after = total
               /\ W - frags'[L + 1].after = (W % size) - frags'[L + 1].start
    <3>1. /\ \A i \in 1 .. L - 1 : frags[i].end - frags[i].start = frags[i + 1].after - frags[i].after
          /\ stream - frags[1].after = total
          /\ Written - last.after = (Written % size) - last.start
      BY <1>1, <1>2, <2>8 DEF Fragmented, last
    <3>2. stream - frags'[1].after = total
      BY <1>1, <2>2, <3>1
    <3>3. W - frags'[L + 1].after = (W % size) - frags'[L + 1].start
      <4>1. W % size = o
        BY <1>2 DEF Lands
      <4>2. W - frags'[L + 1].after = 0
        BY <1>2, <2>1
      <4>3. o - frags'[L + 1].start = 0
        BY <2>1
      <4> QED BY <4>1, <4>2, <4>3
    <3>4. ASSUME NEW i \in 1 .. L
          PROVE  frags'[i].end - frags'[i].start = frags'[i + 1].after - frags'[i].after
      <4>1. CASE i = L
        <5>1. Written - last.after = p - last.start
          BY <1>2, <3>1 DEF Lands
        <5>2. p + k - last.start = W - last.after
          BY <1>2, <1>4, <5>1
        <5>3. frags'[i].end - frags'[i].start = p + k - last.start
          BY <1>2, <1>4, <2>1, <4>1
        <5>4. frags'[i + 1].after - frags'[i].after = W - last.after
          BY <1>2, <1>4, <2>1, <4>1
        <5> QED BY <5>2, <5>3, <5>4
      <4>2. CASE i # L
        <5>1. i \in 1 .. L - 1 /\ i + 1 \in 1 .. L /\ i \in 1 .. L
          BY <1>1, <4>2
        <5> QED BY <2>1, <2>2, <3>1, <5>1
      <4> QED BY <4>1, <4>2
    <3> QED BY <3>2, <3>3, <3>4
  <2>9. L + 1 - 1 = L
    BY <1>1
  <2>10. Written' = W
    BY <1>2
  <2>11. \A i \in DOMAIN frags' :
             /\ 0 <= frags'[i].after /\ frags'[i].after <= Written'
             /\ frags'[i].start = frags'[i].after % size'
    BY <2>1, <2>3, <2>10
  <2>12. \A i, j \in DOMAIN frags' : i <= j => frags'[i].after <= frags'[j].after
    BY <2>1, <2>4
  <2>13. \A i \in 1 .. Len(frags') - 1 :
             FragmentSize(frags[i])' \in 0 .. frags'[i + 1].after - frags'[i].after
    BY <2>1, <2>6, <2>9 DEF FragmentSize
  <2>14. stream' - frags'[1].after <= total'
    BY <2>7
  <2>15. Without({"late", "refused"})' =>
             /\ \A i \in 1 .. Len(frags') - 1 :
                   frags'[i].end - frags'[i].start = frags'[i + 1].after - frags'[i].after
             /\ stream' - frags'[1].after = total'
             /\ Written' - frags'[Len(frags')].after
                  = (Written' % size') - frags'[Len(frags')].start
    BY <2>1, <2>8, <2>9, <2>10
  <2> QED BY <2>11, <2>12, <2>13, <2>14, <2>15 DEF Fragmented
<1> QED BY <1>8, <1>9

LEMMA FragmentedWrites == RingInv /\ (WriteFirst \/ WriteSecond) => Fragmented'
<1> SUFFICES ASSUME RingInv, WriteFirst \/ WriteSecond PROVE Fragmented'
  OBVIOUS
<1>1. Types /\ Requested /\ Placed /\ Fragmented /\ size > 0
  BY DEF RingInv, Requested, WriteFirst, WriteSecond
<1>2. /\ size \in Nat \ {0} /\ stream \in Nat /\ write = stream % size /\ write \in 0 .. size - 1
      /\ req.len1 \in Nat /\ req.len2 \in Nat /\ req.done \in Nat
  <2>1. /\ size \in Nat \ {0} /\ stream \in Nat /\ write = stream % size
        /\ req.len1 \in Nat /\ req.len2 \in Nat /\ req.done \in Nat
    BY <1>1 DEF Types, Placed, RequestSet
  <2> QED BY <2>1, ModDef
<1>3. size' = size /\ stream' = stream /\ total' = total /\ mishaps \subseteq mishaps'
  BY DEF WriteFirst, WriteSecond, ringVars
<1>4. Without({"late", "refused"})' => Without({"late", "refused"})
  BY <1>3 DEF Without
<1>5. CASE WriteFirst
  <2>1. PICK k \in Reaches(req.len1), second \in BOOLEAN :
          LET failed == k # req.len1
              forced == req.wrap \/ (failed /\ k > 0)
              offset == IF req.wrap /\ ~failed THEN 0 ELSE write + k
          IN  /\ frags' = IF forced \/ second
                          THEN AddFragment(write + k, offset, stream + k) ELSE frags
              /\ req' = [req EXCEPT !.done = k, !.failed = failed]
              /\ wpc' \in {"adjust", "second"}
              /\ (forced \/ second) /\ Refused(offset) => "refused" \in mishaps'
    BY <1>5 DEF WriteFirst, Mishap
  <2> DEFINE failed == k # req.len1
             forced == req.wrap \/ (failed /\ k > 0)
             offset == IF req.wrap /\ ~failed THEN 0 ELSE write + k
  <2>2. k \in 0 .. req.len1
    BY <1>2, <2>1 DEF Reaches
  <2>3. wpc = "first" /\ req.done = 0 /\ write + req.len1 <= size
        /\ (req.wrap <=> write + req.len1 = size)
    BY <1>1, <1>5 DEF WriteFirst, Requested
  <2>4. Written = stream /\ Written' = Written + k
    <3>1. Written = stream
      BY <1>2, <2>3 DEF Written
    <3>2. req'.done = k
      BY <1>1, <2>1 DEF Types, RequestSet
    <3> QED BY <1>3, <2>1, <3>1, <3>2 DEF Written
  <2>5. offset = (stream + k) % size
    <3>1. (stream + k) % size = (write + k) % size
      BY <1>2, <2>2, WriteMoves
    <3>2. CASE req.wrap /\ ~failed
      <4>1. write + k = size
        BY <2>3, <3>2
      <4>2. size % size = 0
        BY <1>2, Z3
      <4> QED BY <3>1, <3>2, <4>1, <4>2
    <3>3. CASE ~(req.wrap /\ ~failed)
      <4>1. write + k \in 0 .. size - 1
        BY <1>2, <2>2, <2>3, <3>3
      <4>2. (write + k) % size = write + k
        BY <1>2, <4>1, ModSmall
      <4> QED BY <3>1, <3>3, <4>2
    <3> QED BY <3>2, <3>3
  <2>6. CASE forced \/ second
    <3>1. frags' = AddFragment(write + k, offset, stream + k)
          /\ (Refused(offset) => "refused" \in mishaps')
      BY <2>1, <2>6
    <3>2. Without({"late", "refused"})' => Without({"late", "refused"}) /\ ~Refused(offset)
      BY <1>4, <3>1 DEF Without
    <3>3. Lands(k, write, offset)
      BY <1>2, <2>2, <2>3, <2>4, <2>5 DEF Lands
    <3>4. offset \in Int /\ k \in Nat /\ write \in Nat
      BY <1>2, <2>2
    <3> HIDE DEF offset
    <3> QED BY <1>1, <1>3, <2>4, <3>1, <3>2, <3>3, <3>4, FragmentedAdds
  <2>7. CASE ~(forced \/ second)
    <3>1. frags' = frags
      BY <2>1, <2>7
    <3>2. (Written % size) + k = Written' % size
      <4>1. write + k = offset
        BY <2>7
      <4> QED BY <1>2, <2>4, <2>5, <4>1
    <3>3. k \in Nat
      BY <1>2, <2>2
    <3> QED BY <1>1, <1>3, <1>4, <2>4, <3>1, <3>2, <3>3, FragmentedGrows
  <2> QED BY <2>6, <2>7
<1>6. CASE WriteSecond
  <2>1. PICK k \in Reaches(req.len2) :
          /\ frags' = AddFragment(k, k, stream + req.done + k)
          /\ req' = [req EXCEPT !.done = @ + k, !.failed = k # req.len2]
          /\ Refused(k) => "refused" \in mishaps'
    BY <1>6 DEF WriteSecond, Mishap
  <2>2. k \in 0 .. req.len2
    BY <1>2, <2>1 DEF Reaches
  <2>3. /\ wpc = "second" /\ wpc' = "adjust" /\ req.done = req.len1 /\ req.len1 > 0
        /\ write + req.len1 = size /\ req.len1 + req.len2 <= size
    BY <1>1, <1>6 DEF WriteSecond, Requested
  <2>4. Written = stream + req.done /\ Written' = Written + k
    <3>1. Written = stream + req.done
      BY <2>3 DEF Written
    <3>2. req'.done = req.done + k
      BY <1>1, <2>1 DEF Types, RequestSet
    <3> QED BY <1>2, <1>3, <2>2, <2>3, <3>1, <3>2 DEF Written
  <2>5. Written % size = 0 /\ k = (Written + k) % size
    <3>1. (write + req.done) % size = (stream + req.done) % size
      BY <1>2, WriteMoves
    <3>2. size % size = 0
      BY <1>2, Z3
    <3>3. Written % size = 0 /\ Written \in Int /\ k \in Int
      BY <1>2, <2>2, <2>3, <2>4, <3>1, <3>2
    <3>4. (Written + k) % size = ((Written % size) + k) % size
      BY <1>2, <3>3, ModAdd
    <3>5. 0 + k = k /\ k \in 0 .. size - 1
      BY <1>2, <2>2, <2>3
    <3>6. k % size = k
      BY <1>2, <3>5, ModSmall
    <3> QED BY <3>3, <3>4, <3>5, <3>6
  <2>6. frags' = AddFragment(0 + k, k, Written + k)
    BY <2>1, <2>2, <2>4
  <2>7. Without({"late", "refused"})' => Without({"late", "refused"}) /\ ~Refused(k)
    BY <1>4, <2>1 DEF Without
  <2>8. Lands(k, 0, k)
    BY <1>2, <2>2, <2>3, <2>5 DEF Lands
  <2>9. k \in Nat /\ k \in Int /\ 0 \in Nat
    BY <1>2, <2>2
  <2> QED BY <1>1, <1>3, <2>4, <2>6, <2>7, <2>8, <2>9, FragmentedAdds
<1> QED BY <1>5, <1>6

LEMMA FragmentedAdjust == RingInv /\ WriteAdjust => Fragmented'
<1> SUFFICES ASSUME RingInv, WriteAdjust PROVE Fragmented'
  OBVIOUS
<1>1. Types /\ Requested /\ Placed /\ Fragmented /\ size > 0
  BY DEF RingInv, Requested, WriteAdjust
<1> DEFINE n     == req.done
           moved == n > size - total
           t0(k) == IF ~moved THEN total ELSE total - (IF k > 0 THEN Removed[k] ELSE n)
           t(k)  == IF t0(k) < size THEN Minimum(t0(k) + n, size) ELSE t0(k)
<1>2. PICK k \in IF moved /\ timer = "on" THEN Removals(n) ELSE {0} :
          /\ total' = t(k)
          /\ frags' = SubSeq(frags, k + 1, Len(frags))
          /\ mishaps \subseteq mishaps'
  BY DEF WriteAdjust
<1>3. /\ size \in Nat \ {0} /\ stream \in Nat /\ total \in 0 .. size /\ n \in 1 .. size
      /\ size' = size /\ stream' = stream + n /\ wpc = "adjust" /\ wpc' = "rate"
  <2>1. n \in 1 .. size
    BY <1>1 DEF WriteAdjust, Types, Requested, RequestSet
  <2> QED BY <1>1, <2>1 DEF WriteAdjust, Types, Placed
<1>4. SUFFICES ASSUME frags' # <<>> PROVE Fragmented'
  BY DEF Fragmented
<1>5. PICK L \in Nat : L = Len(frags) /\ DOMAIN frags = 1 .. L
  BY <1>1 DEF Types
<1>6. Written = stream + n /\ Written' = stream + n
  BY <1>3 DEF Written
<1>7. Without({"late", "refused"})' => Without({"late", "refused"})
  BY <1>2 DEF Without
<1>8. k \in Nat /\ (k = 0 \/ k < Len(frags)) /\ (moved /\ timer = "on" => k > 0 /\ Removed[k] >= n)
  BY <1>2, <1>5 DEF Removals
<1>9. /\ frags # <<>> /\ Len(frags') = L - k /\ DOMAIN frags' = 1 .. L - k
      /\ \A i \in 1 .. L - k : frags'[i] = frags[k + i]
  <2>1. /\ frags' \in Seq(FragmentSet) /\ Len(frags') = Len(frags) - k
        /\ \A i \in 1 .. Len(frags') : frags'[i] = frags[k + i]
        /\ frags' = <<>> <=> frags = <<>>
    BY <1>1, <1>2, <1>8, RemainingSpec
  <2> QED BY <1>4, <1>5, <2>1
<1>10. L - k >= 1 /\ L - k \in Nat /\ timer = "on"
  <2>1. L # 0
    BY <1>1, <1>5, <1>9 DEF Types
  <2>2. timer = "on"
    BY <1>1, <1>9 DEF Types, TypeOK
  <2> QED BY <1>5, <1>8, <2>1, <2>2
<1>11. \A i \in 1 .. L : frags[i].after \in Int /\ frags[i].start \in Int /\ frags[i].end \in Int
  BY <1>1, <1>5, FragmentType
<1> DEFINE c == frags[k + 1].after
           first == frags[1].after
<1>12. c \in Int /\ first \in Int /\ 1 \in 1 .. L /\ k + 1 \in 1 .. L /\ k \in 0 .. Len(frags) - 1
  BY <1>5, <1>8, <1>10, <1>11
<1>13. stream - first <= total /\ (Without({"late", "refused"}) => stream - first = total)
  BY <1>1, <1>9 DEF Fragmented
<1>14. stream' - c <= total' /\ (Without({"late", "refused"}) => stream' - c = total')
  <2>1. CASE ~moved
    <3>1. k = 0
      BY <1>2, <2>1
    <3>2. t(k) = total + n
      BY <1>3, <2>1 DEF Minimum
    <3> HIDE DEF t, moved
    <3>3. c = first
      BY <3>1
    <3> HIDE DEF c, first
    <3>4. total' = total + n /\ stream' = stream + n
      BY <1>2, <1>3, <3>2
    <3>5. n \in Int /\ total \in Int /\ stream \in Int
      BY <1>3
    <3> HIDE DEF n
    <3> QED BY <1>12, <1>13, <3>3, <3>4, <3>5
  <2>2. CASE moved
    <3> DEFINE R == Removed[k]
    <3>1. /\ R \in Nat /\ R <= c - first
          /\ Without({"late", "refused"}) => R = c - first
      BY <1>1, <1>9, <1>12, RemovedBound
    <3>2. R >= n /\ k > 0
      BY <1>8, <1>10, <2>2
    <3>3. t(k) = IF total - R < size THEN Minimum((total - R) + n, size) ELSE total - R
      BY <2>2, <3>2
    <3> HIDE DEF R, t, c, first, moved
    <3>4. t(k) = total - R + n
      BY <1>3, <3>1, <3>2, <3>3 DEF Minimum
    <3>5. total' = total - R + n /\ stream' = stream + n
      BY <1>2, <1>3, <3>4
    <3>6. n \in Int /\ total \in Int /\ stream \in Int
      BY <1>3
    <3> HIDE DEF n
    <3> QED BY <1>12, <1>13, <3>1, <3>5, <3>6
  <2> QED BY <2>1, <2>2
<1>15. \A i \in 1 .. L - k : /\ k + i \in 1 .. L /\ (i < L - k => k + i \in 1 .. L - 1)
                             /\ k + (i + 1) = (k + i) + 1
  BY <1>5, <1>8
<1> HIDE DEF n, moved, t0, t
<1>16. \A i \in DOMAIN frags' :
          /\ 0 <= frags'[i].after /\ frags'[i].after <= Written'
          /\ frags'[i].start = frags'[i].after % size'
  <2>1. \A i \in DOMAIN frags :
          /\ 0 <= frags[i].after /\ frags[i].after <= Written
          /\ frags[i].start = frags[i].after % size
    BY <1>1, <1>9 DEF Fragmented
  <2> QED BY <1>3, <1>5, <1>6, <1>9, <1>15, <2>1
<1>17. \A i, j \in DOMAIN frags' : i <= j => frags'[i].after <= frags'[j].after
  <2>1. \A i, j \in DOMAIN frags : i <= j => frags[i].after <= frags[j].after
    BY <1>1, <1>9 DEF Fragmented
  <2>2. \A i, j \in 1 .. L - k : i <= j => k + i <= k + j
    BY <1>8, <1>10
  <2> QED BY <1>5, <1>9, <1>15, <2>1, <2>2
<1>18. \A i \in 1 .. (L - k) - 1 :
          /\ FragmentSize(frags[i])' \in 0 .. frags'[i + 1].after - frags'[i].after
          /\ Without({"late", "refused"}) =>
                frags'[i].end - frags'[i].start = frags'[i + 1].after - frags'[i].after
  <2> SUFFICES ASSUME NEW i \in 1 .. (L - k) - 1
               PROVE  /\ FragmentSize(frags[i])' \in 0 .. frags'[i + 1].after - frags'[i].after
                      /\ Without({"late", "refused"}) =>
                            frags'[i].end - frags'[i].start = frags'[i + 1].after - frags'[i].after
    OBVIOUS
  <2>1. PICK j \in 1 .. L - 1 : j = k + i
    BY <1>8, <1>10, <1>5
  <2>2. frags'[i] = frags[j] /\ frags'[i + 1] = frags[j + 1]
    <3>1. i \in 1 .. L - k /\ i + 1 \in 1 .. L - k /\ k + (i + 1) = j + 1
      BY <1>8, <1>10, <2>1
    <3> QED BY <1>9, <2>1, <3>1
  <2>3. FragmentSize(frags[j]) \in 0 .. frags[j + 1].after - frags[j].after
    BY <1>1, <1>5, <1>9 DEF Fragmented
  <2>4. FragmentSize(frags[i])' = FragmentSize(frags[j])
    BY <1>3, <2>2 DEF FragmentSize
  <2>5. Without({"late", "refused"}) =>
            frags[j].end - frags[j].start = frags[j + 1].after - frags[j].after
    BY <1>1, <1>5, <1>9 DEF Fragmented
  <2> QED BY <2>2, <2>3, <2>4, <2>5
<1>19. Without({"late", "refused"}) =>
          Written' - frags'[L - k].after = (Written' % size') - frags'[L - k].start
  <2>1. frags'[L - k] = frags[L]
    <3>1. L - k \in 1 .. L - k /\ k + (L - k) = L
      BY <1>5, <1>8, <1>10
    <3> QED BY <1>9, <3>1
  <2>2. Without({"late", "refused"}) =>
            Written - frags[L].after = (Written % size) - frags[L].start
    BY <1>1, <1>5, <1>9 DEF Fragmented
  <2> QED BY <1>3, <1>6, <2>1, <2>2
<1>20. frags'[1].after = c
  BY <1>9, <1>10
<1> HIDE DEF c
<1> QED BY <1>7, <1>9, <1>14, <1>16, <1>17, <1>18, <1>19, <1>20 DEF Fragmented

LEMMA FragmentedDone == RingInv /\ WriteDone => Fragmented'
<1> SUFFICES ASSUME RingInv, WriteDone, size' > 0, frags' # <<>> PROVE Fragmented'
  BY DEF Fragmented
<1>1. Types /\ Requested /\ Fragmented /\ size > 0
  BY DEF RingInv, Requested, WriteDone
<1>2. /\ frags' = frags /\ stream' = stream /\ total' = total /\ mishaps' = mishaps
      /\ Written = stream /\ Written' = stream
  <2>1. stream \in Nat /\ wpc = "rate" /\ wpc' = "idle" /\ stream' = stream
    BY <1>1 DEF WriteDone, Types
  <2>2. Written = stream /\ Written' = stream
    BY <2>1 DEF Written
  <2> QED BY <2>2 DEF WriteDone, timerVars
<1>3. size \in Nat \ {0} /\ stream \in Nat
  BY <1>1 DEF Types
<1>4. PICK n \in Nat \ {0} : size' = n /\ n <= size /\ (n # size => stream < n)
  <2>1. CASE size' = size
    BY <1>3, <2>1
  <2>2. CASE size' # size
    <3>1. PICK product \in Products : /\ product = 0 \/ product > stream
                                      /\ size' = Minimum(product, size)
      BY <2>2 DEF WriteDone
    <3>2. product \in Nat
      BY ProductsAssumption
    <3> QED BY <1>3, <2>2, <3>1, <3>2 DEF Minimum
  <2> QED BY <2>1, <2>2
<1>5. PICK L \in Nat \ {0} : L = Len(frags) /\ DOMAIN frags = 1 .. L
  BY <1>1, <1>2 DEF Types
<1>6. \A i \in 1 .. L : frags[i].after \in Int /\ frags[i].start \in Int /\ frags[i].end \in Int
  BY <1>1, <1>5, FragmentType
<1>7. \A i \in 1 .. L : /\ 0 <= frags[i].after /\ frags[i].after <= stream
                        /\ frags[i].start = frags[i].after % size
  BY <1>1, <1>2, <1>5 DEF Fragmented
\* nothing has gone round the ring that is cut
<1>8. \A x \in 0 .. stream : x % n = x % size
  <2>1. CASE n = size
    BY <2>1
  <2>2. CASE n # size
    <3> SUFFICES ASSUME NEW x \in 0 .. stream PROVE x % n = x % size
      OBVIOUS
    <3>1. x \in 0 .. n - 1 /\ x \in 0 .. size - 1
      BY <1>3, <1>4, <2>2
    <3>2. x % n = x
      BY <3>1, ModSmall
    <3>3. x % size = x
      BY <1>3, <3>1, ModSmall
    <3> QED BY <3>2, <3>3
  <2> QED BY <2>1, <2>2
<1>9. \A i \in DOMAIN frags' :
          /\ 0 <= frags'[i].after /\ frags'[i].after <= Written'
          /\ frags'[i].start = frags'[i].after % size'
  <2> SUFFICES ASSUME NEW i \in 1 .. L PROVE frags[i].start = frags[i].after % n
    BY <1>2, <1>4, <1>5, <1>7
  <2>1. frags[i].after \in 0 .. stream
    BY <1>3, <1>6, <1>7
  <2> QED BY <1>7, <1>8, <2>1
<1>10. \A i, j \in DOMAIN frags' : i <= j => frags'[i].after <= frags'[j].after
  BY <1>1, <1>2 DEF Fragmented
<1>11. \A i \in 1 .. Len(frags') - 1 :
          FragmentSize(frags[i])' \in 0 .. frags'[i + 1].after - frags'[i].after
  <2> SUFFICES ASSUME NEW i \in 1 .. L - 1
               PROVE  FragmentSize(frags[i])' \in 0 .. frags[i + 1].after - frags[i].after
    BY <1>2, <1>5
  <2>1. FragmentSize(frags[i]) \in 0 .. frags[i + 1].after - frags[i].after
    BY <1>1, <1>2, <1>5 DEF Fragmented
  <2>2. i \in 1 .. L /\ i + 1 \in 1 .. L
    BY <1>5
  <2>3. CASE n = size
    BY <1>2, <1>4, <2>1, <2>3 DEF FragmentSize
  <2>4. CASE n # size
    <3> DEFINE s == frags[i].start
               e == frags[i].end
    <3>1. s <= n /\ s \in Int /\ e \in Int
      <4>1. frags[i].after \in 0 .. size - 1
        BY <1>3, <1>4, <1>6, <1>7, <2>2, <2>4
      <4>2. s = frags[i].after
        BY <1>3, <1>7, <2>2, <4>1, ModSmall
      <4> QED BY <1>3, <1>4, <1>6, <1>7, <2>2, <2>4, <4>2
    <3>2. FragmentSize(frags[i]) = IF e >= s THEN e - s ELSE size - s
      BY DEF FragmentSize
    <3>3. FragmentSize(frags[i])' = IF e >= s THEN e - s ELSE n - s
      BY <1>2, <1>4 DEF FragmentSize
    <3>4. frags[i].after \in Int /\ frags[i + 1].after \in Int
      BY <1>6, <2>2
    <3> HIDE DEF s, e
    <3> QED BY <1>3, <1>4, <2>1, <3>1, <3>2, <3>3, <3>4
  <2> QED BY <2>3, <2>4
<1>12. stream' - frags'[1].after <= total'
  BY <1>1, <1>2 DEF Fragmented
<1>13. Without({"late", "refused"})' =>
          /\ \A i \in 1 .. Len(frags') - 1 :
                frags'[i].end - frags'[i].start = frags'[i + 1].after - frags'[i].after
          /\ stream' - frags'[1].after = total'
          /\ Written' - frags'[Len(frags')].after = (Written' % size') - frags'[Len(frags')].start
  <2>1. Without({"late", "refused"})' => Without({"late", "refused"})
    BY <1>2 DEF Without
  <2>2. Written' % size' = Written % size
    <3>1. stream \in 0 .. stream
      BY <1>3
    <3>2. stream % n = stream % size
      BY <1>8, <3>1
    <3> QED BY <1>2, <1>4, <3>2
  <2> QED BY <1>1, <1>2, <2>1, <2>2 DEF Fragmented
<1> QED BY <1>9, <1>10, <1>11, <1>12, <1>13 DEF Fragmented

LEMMA FragmentedStart == RingInv /\ TimeStart => Fragmented'
<1> SUFFICES ASSUME RingInv, TimeStart PROVE Fragmented'
  OBVIOUS
<1>1. Types /\ Requested /\ Placed /\ size > 0 /\ wpc # "hung"
  BY DEF RingInv, TimeStart, Locking
<1>2. /\ size \in Nat \ {0} /\ stream \in Nat /\ write = stream % size /\ total \in 0 .. size
      /\ Written \in Nat /\ stream <= Written
  BY <1>1, WrittenType DEF Types, Placed
<1>3. /\ frags' = <<Fragment(write, stream)>> /\ Written' = Written /\ stream' = stream
      /\ total' = total /\ size' = size
      /\ mishaps' = mishaps \cup Mishap(total > 0 \/ wpc \in {"second", "adjust"}, "late")
  BY DEF TimeStart, ringVars, writerVars, Written
<1>4. /\ Len(frags') = 1 /\ DOMAIN frags' = {1}
      /\ frags'[1].start = write /\ frags'[1].after = stream
  BY <1>3 DEF Fragment
<1>5. ASSUME Without({"late", "refused"})'
      PROVE  total = 0 /\ Written = stream
  <2>1. ~(total > 0) /\ wpc \notin {"second", "adjust"}
    BY <1>3, <1>5 DEF Without, Mishap
  <2>2. wpc = "first" => req.done = 0
    BY <1>1 DEF Requested
  <2> QED BY <1>1, <1>2, <2>1, <2>2 DEF Written
<1>6. stream' - frags'[1].after = 0
  BY <1>2, <1>3, <1>4
<1>7. \A i \in DOMAIN frags' :
          /\ 0 <= frags'[i].after /\ frags'[i].after <= Written'
          /\ frags'[i].start = frags'[i].after % size'
  BY <1>2, <1>3, <1>4
<1>8. \A i, j \in DOMAIN frags' : i <= j => frags'[i].after <= frags'[j].after
  BY <1>2, <1>4
<1>9. 1 .. Len(frags') - 1 = {}
  BY <1>4
<1>10. stream' - frags'[1].after <= total'
  BY <1>2, <1>3, <1>6
<1>11. Without({"late", "refused"})' =>
          /\ stream' - frags'[1].after = total'
          /\ Written' - frags'[Len(frags')].after = (Written' % size') - frags'[Len(frags')].start
  <2> SUFFICES ASSUME Without({"late", "refused"})'
               PROVE  /\ stream' - frags'[1].after = total'
                      /\ Written' - frags'[1].after = (Written' % size') - frags'[1].start
    BY <1>4
  <2>1. Written' - frags'[1].after = 0
    BY <1>2, <1>3, <1>4, <1>5
  <2>2. (Written' % size') - frags'[1].start = 0
    <3>1. Written' % size' = write /\ write \in Int
      BY <1>2, <1>3, <1>5, ModDef
    <3> QED BY <1>4, <3>1
  <2> QED BY <1>3, <1>5, <1>6, <2>1, <2>2
<1> QED BY <1>7, <1>8, <1>9, <1>10, <1>11 DEF Fragmented

LEMMA FragmentedStep == RingInv /\ [Next]_vars => Fragmented'
<1> SUFFICES ASSUME RingInv, [Next]_vars PROVE Fragmented'
  OBVIOUS
<1>0. Types /\ Requested /\ Fragmented /\ Written \in Nat
  BY WrittenType DEF RingInv
<1> DEFINE Same == /\ size' = size /\ frags' = frags /\ stream' = stream /\ total' = total
                   /\ Written' = Written
                   /\ Without({"late", "refused"})' => Without({"late", "refused"})
<1>1. Same => Fragmented'
  BY <1>0 DEF Fragmented, FragmentSize
<1>2. CASE WriteBegin
  BY <1>0, <1>1, <1>2 DEF WriteBegin, ringVars, timerVars, Written, Without, Types
<1>3. CASE WriteNothing
  BY <1>0, <1>1, <1>3 DEF WriteNothing, ringVars, timerVars, Written, Without, Types
<1>4. CASE WriteHangs
  BY <1>0, <1>1, <1>4 DEF WriteHangs, ringVars, timerVars, Written, Without
<1>5. CASE Reader
  BY <1>1, <1>5, ReaderFrame DEF Written, Without
<1>6. CASE UNCHANGED vars
  BY <1>1, <1>6 DEF vars, ringVars, timerVars, writerVars, Written, Without
<1> QED BY <1>2, <1>3, <1>4, <1>5, <1>6, FragmentedWrites, FragmentedAdjust, FragmentedDone,
           FragmentedStart DEF Next, Write

----------------------------------------------------------------------------
(* The loop that makes room finds a fragment to begin with.                  *)

LEMMA NotHungStep == RingInv /\ [Next]_vars => NotHung'
<1> SUFFICES ASSUME RingInv, [Next]_vars, wpc' = "hung", Without({"late", "refused", "coarse"})'
             PROVE  FALSE
  BY DEF NotHung
<1>1. CASE WriteHangs
  <2>1. Types /\ Requested /\ Placed /\ Fragmented /\ size > 0
    BY <1>1 DEF RingInv, Requested, WriteHangs
  <2> DEFINE n == req.done
             L == Len(frags)
             first == frags[1].after
             last == frags[L].after
  <2>2. Without({"late", "refused"})
    BY <1>1 DEF WriteHangs, Without
  <2>3. /\ size \in Nat \ {0} /\ stream \in Nat /\ total \in 0 .. size /\ n \in 1 .. size
    <3>1. n > size - total /\ n \in Nat /\ n <= req.len1 + req.len2 /\ req.len1 + req.len2 <= size
      BY <1>1, <2>1 DEF WriteHangs, Types, Requested, RequestSet
    <3> QED BY <2>1, <3>1 DEF Types, Placed, RequestSet
  <2>4. n > size - total /\ timer = "on" /\ Removals(n) = {}
    BY <1>1 DEF WriteHangs
  <2>5. frags # <<>> /\ L \in Nat \ {0} /\ 1 \in 1 .. L /\ L \in 1 .. L
    BY <2>1, <2>4 DEF Types, TypeOK
  <2>6. first \in Int /\ last \in Int
    BY <2>1, <2>5, FragmentType
  <2>7. stream - first = total
    BY <2>1, <2>2, <2>5 DEF Fragmented
  <2>8. (stream + n - last) + n <= size
    <3>1. ~((stream + n - last) + n > size)
      BY <1>1 DEF WriteHangs, Without, Mishap
    <3> HIDE DEF last, n
    <3> QED BY <2>3, <2>6, <3>1
  <2>9. \A k \in 0 .. L - 1 : Removed[k] \in Nat /\ Removed[k] = frags[k + 1].after - first
    BY <2>1, <2>2, <2>5, RemovedBound
  <2>10. Removed[L - 1] \in Nat /\ Removed[L - 1] >= n
    <3>1. L - 1 \in 0 .. L - 1 /\ (L - 1) + 1 = L
      BY <2>5
    <3>2. Removed[L - 1] \in Nat /\ Removed[L - 1] = last - first
      BY <2>9, <3>1
    <3> HIDE DEF last, first, n, L
    <3> QED BY <2>3, <2>4, <2>6, <2>7, <2>8, <3>2
  <2> DEFINE T == {k \in 0 .. L - 1 : Removed[k] >= n}
  <2> HIDE DEF n, L
  <2>11. L - 1 \in T
    BY <2>5, <2>10
  <2>12. PICK k \in T : \A j \in T : k <= j
    <3>1. T \in SUBSET Nat /\ T # {}
      BY <2>11
    <3> HIDE DEF T
    <3> QED BY <3>1, Least
  <2>13. k \in 0 .. L - 1 /\ Removed[k] >= n
    OBVIOUS
  <2>14. k # 0
    <3>1. Removed[0] = 0
      BY <2>1, RemovedSpec
    <3> QED BY <2>3, <2>13, <3>1
  <2>15. ASSUME NEW j \in 1 .. k - 1 PROVE Removed[j] < n
    <3>1. j \in 0 .. L - 1 /\ ~(k <= j)
      BY <2>5, <2>13
    <3>2. j \notin T
      BY <2>12, <3>1
    <3>3. ~(Removed[j] >= n) /\ Removed[j] \in Int
      BY <2>9, <3>1, <3>2
    <3> QED BY <2>3, <3>3
  <2>16. k \in Removals(n)
    BY <2>5, <2>13, <2>14, <2>15 DEF Removals, L
  <2> QED BY <2>4, <2>16
<1>2. CASE Reader
  BY <1>2, ReaderFrame
<1>3. CASE TimeStart
  BY <1>3 DEF TimeStart, Locking, writerVars
<1>4. CASE UNCHANGED vars
  BY <1>4 DEF RingInv, NotHung, vars, writerVars, Without
<1>5. CASE WriteBegin \/ WriteFirst \/ WriteSecond \/ WriteNothing \/ WriteAdjust \/ WriteDone
  BY <1>5 DEF WriteBegin, WriteFirst, WriteSecond, WriteNothing, WriteAdjust, WriteDone
<1> QED BY <1>1, <1>2, <1>3, <1>4, <1>5 DEF Next, Write

----------------------------------------------------------------------------
(* The theorems.                                                             *)

LEMMA RingInit == Init => RingInv
<1> SUFFICES ASSUME Init PROVE RingInv
  OBVIOUS
<1>1. Types
  BY TypesInit
<1>2. Size \in Nat \ {0} /\ size = Size
  BY SizeAssumption DEF Init
<1>3. Requested /\ NotHung
  BY <1>2 DEF Init, Requested, NotHung
<1>4. 0 % size = 0
  BY <1>2, Z3
<1>5. Placed
  BY <1>2, <1>4 DEF Init, Placed
<1>6. Fragmented
  <2>1. CASE frags = <<>>
    BY <2>1 DEF Fragmented
  <2>2. CASE frags = <<Fragment(0, 0)>>
    <3>1. Len(frags) = 1 /\ DOMAIN frags = {1} /\ frags[1].start = 0 /\ frags[1].after = 0
      BY <2>2 DEF Fragment
    <3>2. 1 .. Len(frags) - 1 = {} /\ Written = 0 /\ stream = 0 /\ total = 0
      BY <3>1 DEF Init, Written
    <3> QED BY <1>4, <3>1, <3>2 DEF Fragmented
  <2> QED BY <2>1, <2>2 DEF Init
<1> QED BY <1>1, <1>3, <1>5, <1>6 DEF RingInv

\* The inductive invariant: the types, the parts of a write, the places of the offsets in
\* the stream, and the division of the ring into fragments.
THEOREM RingInvCorrect == Spec => []RingInv
<1>1. RingInv /\ [Next]_vars => RingInv'
  <2> SUFFICES ASSUME RingInv, [Next]_vars PROVE RingInv'
    OBVIOUS
  <2>1. Types'
    <3>1. CASE UNCHANGED vars
      BY <3>1 DEF RingInv, vars, ringVars, writerVars, readerVars, timerVars, Types, TypeOK
    <3> QED BY <3>1, TypesWrite, TypesReader DEF Next
  <2> QED BY <2>1, RequestedStep, PlacedStep, FragmentedStep, NotHungStep DEF RingInv
<1> QED BY <1>1, RingInit, PTL DEF Spec

\* The types of the state, for every size of the ring, of its subfiles and of the writes.
THEOREM TypeCorrect == Spec => []TypeOK
<1>1. RingInv => TypeOK
  BY DEF RingInv, Types
<1> QED BY <1>1, RingInvCorrect, PTL

\* The lengths and offsets of AM_TFile_Write, AM_TFile_Read and the seeks agree, and making
\* room ends at a fragment.
THEOREM RingCorrect == Spec => []RingConsistent
<1>1. RingInv => RingConsistent
  <2> SUFFICES ASSUME RingInv PROVE RingConsistent
    OBVIOUS
  <2>1. ASSUME size > 0 PROVE /\ size \in Nat \ {0} /\ start \in 0 .. size - 1
                              /\ total \in 0 .. size /\ write \in 0 .. size - 1
    <3>1. /\ size \in Nat \ {0} /\ start \in 0 .. size - 1 /\ stream \in Int
          /\ total \in 0 .. size /\ write = stream % size
      BY <2>1 DEF RingInv, Types, Placed
    <3> QED BY <3>1, ModDef
  <2>2. mishaps \cap {"early", "ahead"} = {} /\ size > 0 =>
          /\ 0 <= avail /\ avail <= total /\ total <= size
          /\ {start, read, write} \subseteq 0 .. size
    <3> SUFFICES ASSUME mishaps \cap {"early", "ahead"} = {}, size > 0
                 PROVE  /\ 0 <= avail /\ avail <= total /\ total <= size
                        /\ {start, read, write} \subseteq 0 .. size
      OBVIOUS
    <3>1. 0 <= avail /\ avail <= total /\ read \in 0 .. size
      BY DEF RingInv, Placed, Without
    <3> QED BY <2>1, <3>1
  <2>3. mishaps \cap {"ragged", "late", "refused"} = {} /\ size > 0 =>
          (start + total) % size = write % size
    <3> SUFFICES ASSUME mishaps \cap {"ragged", "late", "refused"} = {}, size > 0
                 PROVE  (start + total) % size = write % size
      OBVIOUS
    <3>1. (start + total) % size = write
      BY DEF RingInv, Placed, Without
    <3>2. write % size = write
      BY <2>1, ModSmall
    <3> QED BY <3>1, <3>2
  <2>4. mishaps \cap {"late", "refused", "coarse"} = {} => wpc # "hung"
    BY DEF RingInv, NotHung, Without
  <2> QED BY <2>2, <2>3, <2>4 DEF RingConsistent
<1> QED BY <1>1, RingInvCorrect, PTL

LEMMA WakeupAdjust == RingInv /\ NoLostWakeup /\ WriteAdjust => NoLostWakeup'
<1> SUFFICES ASSUME RingInv, NoLostWakeup, WriteAdjust, rpc = "wait", avail' > 0
             PROVE  signalled'
  BY DEF NoLostWakeup, WriteAdjust, readerVars
<1>1. Types /\ Requested
  BY DEF RingInv
<1>2. size \in Nat \ {0} /\ avail \in Int /\ req.done \in 1 .. size
  <2>1. size \in Nat \ {0} /\ avail \in Int
    BY <1>1 DEF Types, TypeOK, Requested, WriteAdjust
  <2>2. /\ req.done \in Nat /\ req.done > 0 /\ req.len1 \in Nat /\ req.len2 \in Nat
        /\ req.done <= req.len1 + req.len2 /\ req.len1 + req.len2 <= size
    BY <1>1 DEF Types, Requested, RequestSet, WriteAdjust
  <2> QED BY <2>1, <2>2
<1> DEFINE n  == req.done
           a0 == IF n > size - avail THEN avail - (n - (size - avail)) ELSE avail
<1>3. signalled' = (signalled \/ Wakes(a0))
  BY DEF WriteAdjust
<1>4. CASE avail > 0
  BY <1>3, <1>4 DEF NoLostWakeup
<1>5. CASE ~(avail > 0)
  <2>1. a0 < size
    BY <1>2, <1>5
  <2> HIDE DEF a0
  <2> QED BY <1>3, <2>1 DEF Wakes
<1> QED BY <1>4, <1>5

\* AM_TFile_Write signals the reader whenever it makes data available, so that no reader
\* waits for its timeout with data in the ring.
THEOREM WakeupCorrect == Spec => []NoLostWakeup
<1>1. Init => NoLostWakeup
  BY DEF Init, NoLostWakeup
<1>2. RingInv /\ NoLostWakeup /\ [Next]_vars => NoLostWakeup'
  <2> SUFFICES ASSUME RingInv, NoLostWakeup, [Next]_vars PROVE NoLostWakeup'
    OBVIOUS
  <2>1. CASE WriteBegin \/ WriteFirst \/ WriteSecond \/ WriteNothing \/ WriteHangs
    BY <2>1 DEF WriteBegin, WriteFirst, WriteSecond, WriteNothing, WriteHangs, NoLostWakeup,
                ringVars, readerVars
  <2>2. CASE WriteDone
    BY <2>2 DEF WriteDone, NoLostWakeup, readerVars
  <2>3. CASE Read
    BY <2>3 DEF Read, NoLostWakeup
  <2>4. CASE ReadWait
    BY <2>4 DEF ReadWait, NoLostWakeup, RingInv, Types, TypeOK, ringVars
  <2>5. CASE ReadWoken
    BY <2>5 DEF ReadWoken, NoLostWakeup
  <2>6. CASE Seek \/ TimeSeek
    BY <2>6 DEF Seek, TimeSeek, NoLostWakeup
  <2>7. CASE TimeStart
    BY <2>7 DEF TimeStart, NoLostWakeup, ringVars, readerVars
  <2>8. CASE UNCHANGED vars
    BY <2>8 DEF NoLostWakeup, vars, ringVars, readerVars
  <2> QED BY <2>1, <2>2, <2>3, <2>4, <2>5, <2>6, <2>7, <2>8, WakeupAdjust DEF Next, Write, Reader
<1> QED BY <1>1, <1>2, RingInvCorrect, PTL DEF Spec

----------------------------------------------------------------------------
----------------------------------------------------------------------------
(* Where the subfiles keep the stream.                                       *)

\* A place of the ring belongs to one position of one subfile.
LEMMA PlaceUnique ==
    ASSUME NEW i \in Nat, NEW k \in Nat, NEW j \in 0 .. SubSize - 1, NEW l \in 0 .. SubSize - 1,
           ((i - 1) * SubSize) + j = ((k - 1) * SubSize) + l
    PROVE  i = k /\ j = l
<1> DEFINE x == ((i - 1) * SubSize) + j
<1>1. SubSize \in Nat \ {0} /\ i - 1 \in Int /\ k - 1 \in Int
  BY SizeAssumption
<1>2. PICK n \in Nat \ {0} : n = SubSize
  BY <1>1
<1>3. (i - 1) * n \in Int /\ (k - 1) * n \in Int
  BY <1>1, <1>2
<1>4. x \in Int /\ x = ((i - 1) * n) + j /\ x = ((k - 1) * n) + l
  BY <1>2, <1>3
<1> HIDE DEF x
<1>5. x % n = j /\ x % n = l
  BY <1>1, <1>2, <1>4, ModUnique
<1>6. (i - 1) * n = (k - 1) * n
  BY <1>3, <1>4, <1>5
<1>7. ASSUME NEW p \in Int, NEW q \in Int, p * n = q * n PROVE p = q
  <2>1. (p - q) * n = 0
    BY <1>7
  <2>2. p - q > 0 => (p - q) * n > 0
    BY <1>1
  <2>3. p - q < 0 => (p - q) * n < 0
    BY <1>1
  <2> QED BY <2>1, <2>2, <2>3
<1> QED BY <1>1, <1>5, <1>6, <1>7

LEMMA SamePlace ==
    ASSUME NEW f \in [sub : Nat, pos : Nat], NEW g \in [sub : Nat, pos : Nat],
           f.pos < SubSize, g.pos < SubSize, Place(f) = Place(g)
    PROVE  f.sub = g.sub /\ f.pos = g.pos
<1>1. PICK i \in Nat, k \in Nat, j \in Nat, l \in Nat :
         i = f.sub /\ k = g.sub /\ j = f.pos /\ l = g.pos
  OBVIOUS
<1>2. j \in 0 .. SubSize - 1 /\ l \in 0 .. SubSize - 1
  BY <1>1, SizeAssumption
<1>3. ((i - 1) * SubSize) + j = ((k - 1) * SubSize) + l
  BY <1>1 DEF Place
<1>4. i = k /\ j = l
  BY <1>2, <1>3, PlaceUnique
<1> QED BY <1>1, <1>4

LEMMA FdIs ==
    ASSUME NEW s \in DOMAIN disk, NEW p \in Nat
    PROVE  LET f == [sub |-> s, pos |-> p] IN f \in Fds /\ f.sub = s /\ f.pos = p
  BY DEF Fds

LEMMA Lengths ==
    ASSUME Types, Shaped, "drift" \notin mishaps, NEW i \in DOMAIN disk
    PROVE  /\ i \in 1 .. Len(disk) /\ disk[i] \in Seq(Nat)
           /\ Len(disk[i]) \in 0 .. SubSize /\ DOMAIN disk[i] = 1 .. Len(disk[i])
           /\ i < Len(disk) => Len(disk[i]) = SubSize
<1>1. DOMAIN disk = 1 .. Len(disk) /\ disk \in Seq(Seq(Nat))
  BY FdTypes
<1>2. disk[i] \in Seq(Nat) /\ i \in 1 .. Len(disk)
  BY <1>1
<1>3. Len(disk[i]) <= SubSize /\ (i < Len(disk) => Len(disk[i]) = SubSize)
  BY DEF Shaped
<1> QED BY <1>2, <1>3

\* aml_timeshift_subfile_read goes on in the next subfile at the same place.
LEMMA ReadAtPlace ==
    ASSUME Types, Shaped, "drift" \notin mishaps, NEW fd \in Fds, fd.pos <= SubSize
    PROVE  /\ ReadAt(fd) \in Fds /\ ReadAt(fd).pos <= SubSize
           /\ Place(ReadAt(fd)) = Place(fd)
<1>1. /\ SubSize \in Nat \ {0} /\ fd.sub \in 1 .. Len(disk) /\ fd.pos \in Nat
      /\ DOMAIN disk = 1 .. Len(disk) /\ Len(disk) \in Nat \ {0}
  BY SizeAssumption, FdTypes DEF Fds
<1>2. CASE fd.pos >= Len(disk[fd.sub]) /\ fd.sub + 1 \in DOMAIN disk
  <2>1. ReadAt(fd) = [sub |-> fd.sub + 1, pos |-> 0]
    BY <1>2 DEF ReadAt
  <2>2. fd.pos = SubSize
    BY <1>1, <1>2 DEF Shaped
  <2>3. ((fd.sub + 1 - 1) * SubSize) + 0 = ((fd.sub - 1) * SubSize) + SubSize
    BY <1>1
  <2> QED BY <1>1, <1>2, <2>1, <2>2, <2>3 DEF Place, Fds
<1>3. CASE ~(fd.pos >= Len(disk[fd.sub]) /\ fd.sub + 1 \in DOMAIN disk)
  BY <1>3 DEF ReadAt
<1> QED BY <1>2, <1>3

\* What the subfiles hold at a place is what the descriptor there points to.
LEMMA HeldHere ==
    ASSUME Types, Shaped, "drift" \notin mishaps, NEW fd \in Fds, fd.pos < SubSize,
           NEW u \in Nat, Holds(disk, Place(fd), u)
    PROVE  fd.pos < Len(disk[fd.sub]) /\ disk[fd.sub][fd.pos + 1] = u
<1>1. /\ SubSize \in Nat \ {0} /\ fd.sub \in 1 .. Len(disk) /\ fd.pos \in Nat
      /\ DOMAIN disk = 1 .. Len(disk) /\ Len(disk) \in Nat \ {0} /\ disk \in Seq(Seq(Nat))
  BY SizeAssumption, FdTypes DEF Fds
<1>2. PICK i \in DOMAIN disk : \E j \in DOMAIN disk[i] :
         Place(fd) = ((i - 1) * SubSize) + (j - 1) /\ disk[i][j] = u
  BY DEF Holds
<1>3. PICK j \in DOMAIN disk[i] : Place(fd) = ((i - 1) * SubSize) + (j - 1) /\ disk[i][j] = u
  BY <1>2
<1>4. /\ i \in Nat /\ disk[i] \in Seq(Nat) /\ Len(disk[i]) <= SubSize
      /\ Len(disk[i]) \in Nat /\ DOMAIN disk[i] = 1 .. Len(disk[i])
  BY Lengths
<1>5. j - 1 \in 0 .. SubSize - 1 /\ j \in Nat /\ fd.sub \in Nat /\ fd.pos \in 0 .. SubSize - 1
  BY <1>1, <1>4
<1> DEFINE at == [sub |-> i, pos |-> j - 1]
<1>6. at \in [sub : Nat, pos : Nat] /\ at.sub = i /\ at.pos = j - 1 /\ Place(at) = Place(fd)
  BY <1>3, <1>4, <1>5 DEF Place
<1> HIDE DEF at
<1>7. i = fd.sub /\ j - 1 = fd.pos
  <2>1. fd \in [sub : Nat, pos : Nat] /\ at.pos < SubSize
    BY <1>1, <1>5, <1>6 DEF Fds
  <2> QED BY <1>6, <2>1, SamePlace
<1>8. j = fd.pos + 1 /\ j \in 1 .. Len(disk[fd.sub]) /\ disk[fd.sub][j] = u
  BY <1>3, <1>4, <1>5, <1>7
<1>9. disk[fd.sub][fd.pos + 1] = u
  BY <1>8
<1>10. fd.pos < Len(disk[fd.sub])
  <2>1. fd.pos \in Nat /\ Len(disk[fd.sub]) \in Nat
    BY <1>1, <1>4, <1>7
  <2> QED BY <1>8, <2>1
<1> QED BY <1>9, <1>10

\* What Units and a part of a subfile hold.
LEMMA UnitsAre ==
    ASSUME NEW a \in Nat, NEW d \in Seq(Nat), \A t \in 1 .. Len(d) : d[t] = a + t
    PROVE  d = Units(a, Len(d))
  BY UnitsType DEF Units

LEMMA PartOf ==
    ASSUME NEW s \in Seq(Nat), NEW q \in Nat \ {0}, NEW e \in Nat, e <= Len(s)
    PROVE  /\ SubSeq(s, q, e) \in Seq(Nat)
           /\ Len(SubSeq(s, q, e)) = IF q <= e THEN e - q + 1 ELSE 0
           /\ \A t \in 1 .. Len(SubSeq(s, q, e)) : SubSeq(s, q, e)[t] = s[q + t - 1]
<1>1. q \in Int /\ e \in Int /\ Len(s) \in Nat
  OBVIOUS
<1>2. \A i \in q .. e : i \in 1 .. Len(s) /\ s[i] \in Nat
  BY <1>1
<1>3. /\ SubSeq(s, q, e) \in Seq(Nat)
      /\ Len(SubSeq(s, q, e)) = IF q <= e THEN e - q + 1 ELSE 0
  BY <1>1, <1>2, SubSeqProperties
<1>4. \A t \in 1 .. (e - q + 1) : SubSeq(s, q, e)[t] = s[q + t - 1]
  BY <1>1, <1>2, SubSeqProperties
<1> QED BY <1>1, <1>3, <1>4

LEMMA TailOf ==
    ASSUME NEW s \in Seq(Nat), NEW q \in Nat \ {0}, NEW e, e = Len(s)
    PROVE  /\ SubSeq(s, q, e) \in Seq(Nat)
           /\ Len(SubSeq(s, q, e)) = IF q <= e THEN e - q + 1 ELSE 0
           /\ \A t \in 1 .. Len(SubSeq(s, q, e)) : SubSeq(s, q, e)[t] = s[q + t - 1]
<1>1. e \in Nat /\ e <= Len(s)
  OBVIOUS
<1> QED BY <1>1, PartOf

\* The subfiles hold m units of the stream from a place on.
HoldsFrom(d, x, a, m) == \A t \in 1 .. m : Holds(d, x + t - 1, a + t)

\* A read of m units from a descriptor that finds the stream there delivers
\* the stream, something if anything was asked for, and stays in step.
LEMMA ReadHeld ==
    ASSUME Types, Shaped, "drift" \notin mishaps, NEW fd \in Fds, fd.pos <= SubSize,
           NEW m \in Nat, NEW a \in Nat,
           HoldsFrom(disk, Place(fd), a, m),
           NEW d, d = SubRead(fd, m), NEW f, f = After(ReadAt(fd), d)
    PROVE  /\ d \in Seq(Nat) /\ Len(d) \in 0 .. m /\ d = Units(a, Len(d))
           /\ m > 0 => Len(d) > 0
           /\ f \in Fds /\ f.pos <= SubSize /\ Place(f) = Place(fd) + Len(d)
<1>1. PICK at \in Fds : at = ReadAt(fd)
  BY ReadAtPlace
<1>2. at.pos <= SubSize /\ Place(at) = Place(fd) /\ at.sub \in DOMAIN disk /\ at.pos \in Nat
  BY <1>1, ReadAtPlace DEF Fds
<1>3. PICK s \in Seq(Nat) : s = disk[at.sub]
  BY <1>2, Lengths
<1>4. Len(s) \in 0 .. SubSize /\ DOMAIN s = 1 .. Len(s) /\ SubSize \in Nat \ {0}
  BY <1>2, <1>3, Lengths, SizeAssumption
<1> DEFINE e == Minimum(at.pos + m, Len(s))
<1>5. /\ e \in Nat /\ e <= Len(s) /\ e <= at.pos + m
      /\ m > 0 /\ at.pos < Len(s) => at.pos < e
  <2>1. at.pos + m \in Nat /\ Len(s) \in Nat
    BY <1>2, <1>4
  <2> QED BY <1>2, <2>1 DEF Minimum
<1> HIDE DEF e
<1> DEFINE q == at.pos + 1
<1>6. d = SubSeq(s, q, e) /\ f = After(at, d)
  BY <1>1, <1>3 DEF SubRead, e
<1>7. /\ d \in Seq(Nat) /\ Len(d) = IF at.pos < e THEN e - at.pos ELSE 0
      /\ \A t \in 1 .. Len(d) : d[t] = s[at.pos + t]
  <2>1. q \in Nat \ {0} /\ q = at.pos + 1
    BY <1>2
  <2> HIDE DEF q
  <2>9. /\ SubSeq(s, q, e) \in Seq(Nat)
        /\ Len(SubSeq(s, q, e)) = IF q <= e THEN e - q + 1 ELSE 0
        /\ \A t \in 1 .. Len(SubSeq(s, q, e)) : SubSeq(s, q, e)[t] = s[q + t - 1]
    BY <1>5, <2>1, PartOf
  <2>2. /\ d \in Seq(Nat) /\ Len(d) = IF q <= e THEN e - q + 1 ELSE 0
        /\ \A t \in 1 .. Len(d) : d[t] = s[q + t - 1]
    BY <1>6, <2>9, Zenon
  <2>3. Len(d) = IF at.pos < e THEN e - at.pos ELSE 0
    BY <1>2, <1>5, <2>1, <2>2
  <2>4. ASSUME NEW t \in 1 .. Len(d) PROVE d[t] = s[at.pos + t]
    <3>1. q + t - 1 = at.pos + t
      BY <1>2, <2>1
    <3> QED BY <2>2, <3>1
  <2> QED BY <2>2, <2>3, <2>4
<1>8. Len(d) \in 0 .. m
  BY <1>2, <1>5, <1>7
<1>9. Place(fd) \in Int /\ Place(fd) = ((at.sub - 1) * SubSize) + at.pos /\ at.sub \in Nat
      /\ (at.sub - 1) * SubSize \in Int
  <2>1. at.sub \in Nat
    BY <1>2, FdTypes
  <2>2. (at.sub - 1) * SubSize \in Int
    BY <1>4, <2>1
  <2> QED BY <1>2, <2>1, <2>2 DEF Place
<1>10. ASSUME NEW t \in 1 .. m, at.pos + t - 1 < SubSize
       PROVE  at.pos + t - 1 < Len(s) /\ s[at.pos + t] = a + t
  <2> DEFINE g == [sub |-> at.sub, pos |-> at.pos + t - 1]
  <2>2. g \in Fds /\ g.sub = at.sub /\ g.pos = at.pos + t - 1
    BY <1>2, FdIs
  <2> HIDE DEF g
  <2>3. Place(g) = Place(fd) + t - 1
    BY <1>2, <1>9, <2>2 DEF Place
  <2>4. Holds(disk, Place(g), a + t) /\ g.pos < SubSize
    BY <1>10, <2>2, <2>3 DEF HoldsFrom
  <2>5. g.pos < Len(disk[g.sub]) /\ disk[g.sub][g.pos + 1] = a + t
    BY <2>2, <2>4, HeldHere
  <2>6. g.pos + 1 = at.pos + t
    BY <1>2, <2>2
  <2> QED BY <1>3, <2>2, <2>5, <2>6
<1>11. d = Units(a, Len(d))
  <2>1. ASSUME NEW t \in 1 .. Len(d) PROVE d[t] = a + t
    <3>1. t \in 1 .. m /\ at.pos + t - 1 < SubSize
      <4>1. at.pos < e /\ t <= e - at.pos /\ t \in 1 .. m
        BY <1>2, <1>5, <1>7, <1>8
      <4> QED BY <1>2, <1>4, <1>5, <4>1
    <3> QED BY <1>7, <1>10, <3>1
  <2> QED BY <1>7, <1>8, <2>1, UnitsAre
<1>12. m > 0 => Len(d) > 0
  <2>1. SUFFICES ASSUME m > 0 PROVE at.pos < Len(s)
    BY <1>2, <1>4, <1>5, <1>7
  <2>2. CASE at.pos < SubSize
    <3>1. 1 \in 1 .. m /\ at.pos + 1 - 1 = at.pos
      BY <1>2, <2>1
    <3> QED BY <1>10, <2>2, <3>1
  <2>3. CASE at.pos = SubSize
    <3>1. at = fd /\ (fd.pos >= Len(disk[fd.sub]) => fd.sub + 1 \notin DOMAIN disk)
      BY <1>1, <1>4, <2>3 DEF ReadAt
    <3>2. at.sub + 1 \notin DOMAIN disk
      BY <1>3, <1>4, <2>3, <3>1
    <3>3. Holds(disk, Place(fd), a + 1)
      BY <1>9, <2>1 DEF HoldsFrom
    <3>4. PICK i \in DOMAIN disk : \E j \in DOMAIN disk[i] : Place(fd) = ((i - 1) * SubSize) + (j - 1)
      BY <3>3 DEF Holds
    <3>5. PICK j \in DOMAIN disk[i] : Place(fd) = ((i - 1) * SubSize) + (j - 1)
      BY <3>4
    <3>6. i \in Nat /\ j \in 1 .. SubSize
      <4>1. i \in 1 .. Len(disk) /\ Len(disk[i]) \in 0 .. SubSize /\ DOMAIN disk[i] = 1 .. Len(disk[i])
        BY Lengths
      <4> QED BY <1>4, <4>1
    <3> DEFINE g == [sub |-> i, pos |-> j - 1]
               h == [sub |-> at.sub + 1, pos |-> 0]
    <3>7. g \in [sub : Nat, pos : Nat] /\ g.sub = i /\ g.pos = j - 1
      BY <3>6
    <3>8. h \in [sub : Nat, pos : Nat] /\ h.sub = at.sub + 1 /\ h.pos = 0
      BY <1>9
    <3> HIDE DEF g, h
    <3>9. g.pos < SubSize /\ h.pos < SubSize
      BY <1>4, <3>6, <3>7, <3>8
    <3>10. Place(g) = Place(fd)
      BY <3>5, <3>7 DEF Place
    <3>11. Place(h) = Place(fd)
      <4>1. (at.sub + 1 - 1) * SubSize = ((at.sub - 1) * SubSize) + SubSize
        BY <1>4, <1>9
      <4> QED BY <1>4, <1>9, <2>3, <3>8, <4>1 DEF Place
    <3>12. i = at.sub + 1
      BY <3>7, <3>8, <3>9, <3>10, <3>11, SamePlace
    <3> QED BY <3>2, <3>12
  <2> QED BY <1>2, <1>4, <2>2, <2>3
<1>13. f \in Fds /\ f.sub = at.sub /\ f.pos = at.pos + Len(d)
  <2>1. f = [sub |-> at.sub, pos |-> at.pos + Len(d)]
    BY <1>6 DEF After, Fds
  <2>2. at.pos + Len(d) \in Nat
    BY <1>2, <1>8
  <2> QED BY <1>2, <2>1, <2>2, FdIs
<1>14. f.pos <= SubSize
  BY <1>2, <1>4, <1>5, <1>7, <1>13
<1>15. Place(f) = Place(fd) + Len(d)
  BY <1>2, <1>8, <1>9, <1>13 DEF Place
<1> QED BY <1>7, <1>8, <1>11, <1>12, <1>13, <1>14, <1>15

\* aml_timeshift_subfile_seek finds the place when the subfile is there.
LEMMA SeekPlace ==
    ASSUME Types, NEW fd \in Fds, NEW o \in Nat, SubSeek(Nowhere, o) # Nowhere
    PROVE  LET g == SubSeek(fd, o) IN g \in Fds /\ g.pos <= SubSize /\ Place(g) = o
<1>1. PICK n \in Nat \ {0} : n = SubSize
  BY SizeAssumption
<1> DEFINE q == o \div n
           r == o % n
<1>2. q \in Int /\ r \in 0 .. n - 1 /\ o = (q * n) + r
  BY ModDef
<1>3. q + 1 \in DOMAIN disk /\ SubSeek(fd, o) = [sub |-> q + 1, pos |-> r]
  BY <1>1, <1>2 DEF SubSeek, Nowhere
<1> HIDE DEF q, r
<1>4. r \in Nat
  BY <1>2
<1> DEFINE g == [sub |-> q + 1, pos |-> r]
<1>5. g \in Fds /\ g.sub = q + 1 /\ g.pos = r
  BY <1>3, <1>4, FdIs
<1> HIDE DEF g
<1>6. Place(g) = o
  <2>1. q + 1 - 1 = q
    BY <1>2
  <2> QED BY <1>1, <1>2, <1>5, <2>1 DEF Place
<1>7. SubSeek(fd, o) = g /\ g.pos <= SubSize
  BY <1>1, <1>2, <1>3, <1>5 DEF g
<1> QED BY <1>5, <1>6, <1>7

LEMMA SeekZero ==
    ASSUME Types, NEW fd \in Fds
    PROVE  LET g == SubSeek(fd, 0) IN g \in Fds /\ g.pos = 0 /\ Place(g) = 0
<1>1. SubSize \in Nat \ {0} /\ 1 \in DOMAIN disk /\ SubSeek(fd, 0) = [sub |-> 1, pos |-> 0]
  BY SizeAssumption, FdTypes, SubSeekType
<1>2. (1 - 1) * SubSize = 0
  BY <1>1
<1> QED BY <1>1, <1>2 DEF Place, Fds

\* What a subfile holds after data is laid over it.
LEMMA OverlaySpec ==
    ASSUME NEW s \in Seq(Nat), NEW p \in Nat, p <= Len(s), NEW d \in Seq(Nat)
    PROVE  /\ Overlay(s, p, d) \in Seq(Nat)
           /\ Len(Overlay(s, p, d)) = IF p + Len(d) >= Len(s) THEN p + Len(d) ELSE Len(s)
           /\ \A j \in 1 .. Len(Overlay(s, p, d)) :
                 Overlay(s, p, d)[j] = IF j \in p + 1 .. p + Len(d) THEN d[j - p] ELSE s[j]
<1> DEFINE L == Len(s)
           k == Len(d)
           x == SubSeq(s, 1, p)
           y == SubSeq(s, p + k + 1, L)
<1>1. L \in Nat /\ k \in Nat
  OBVIOUS
<1>2. /\ x \in Seq(Nat) /\ Len(x) = p
      /\ \A t \in 1 .. p : x[t] = s[t]
  <2>1. /\ x \in Seq(Nat) /\ Len(x) = IF 1 <= p THEN p - 1 + 1 ELSE 0
        /\ \A t \in 1 .. Len(x) : x[t] = s[1 + t - 1]
    BY PartOf
  <2> HIDE DEF x
  <2>2. Len(x) = p
    BY <2>1
  <2>3. ASSUME NEW t \in 1 .. p PROVE x[t] = s[t]
    <3>1. 1 + t - 1 = t
      OBVIOUS
    <3> QED BY <2>1, <2>2, <3>1
  <2> QED BY <2>1, <2>2, <2>3
<1>3. /\ y \in Seq(Nat) /\ Len(y) = IF p + k >= L THEN 0 ELSE L - p - k
      /\ \A t \in 1 .. Len(y) : y[t] = s[p + k + t]
  <2> DEFINE q == p + k + 1
  <2>1. q \in Nat \ {0} /\ q = p + k + 1
    BY <1>1
  <2> HIDE DEF q, k, L
  <2>2. L = Len(s)
    BY DEF L
  <2>3. /\ SubSeq(s, q, L) \in Seq(Nat)
        /\ Len(SubSeq(s, q, L)) = IF q <= L THEN L - q + 1 ELSE 0
        /\ \A t \in 1 .. Len(SubSeq(s, q, L)) : SubSeq(s, q, L)[t] = s[q + t - 1]
    BY <1>1, <2>1, <2>2, TailOf
  <2>4. y = SubSeq(s, q, L)
    BY <2>1
  <2> HIDE DEF y
  <2>5. Len(y) = IF p + k >= L THEN 0 ELSE L - p - k
    BY <1>1, <2>1, <2>3, <2>4
  <2>6. ASSUME NEW t \in 1 .. Len(y) PROVE y[t] = s[p + k + t]
    <3>1. q + t - 1 = p + k + t
      BY <1>1, <2>1
    <3> QED BY <2>3, <2>4, <3>1
  <2> QED BY <2>3, <2>4, <2>5, <2>6
<1>4. Overlay(s, p, d) = x \o d \o y
  BY DEF Overlay
<1> HIDE DEF x, y
<1>5. /\ x \o d \in Seq(Nat) /\ Len(x \o d) = p + k
      /\ \A j \in 1 .. p + k : (x \o d)[j] = IF j <= p THEN s[j] ELSE d[j - p]
  <2>1. /\ x \o d \in Seq(Nat) /\ Len(x \o d) = Len(x) + Len(d)
        /\ \A j \in 1 .. Len(x) + Len(d) : (x \o d)[j] = IF j <= Len(x) THEN x[j] ELSE d[j - Len(x)]
    BY <1>2, ConcatProperties
  <2> QED BY <1>1, <1>2, <2>1
<1> DEFINE z == x \o d
<1>6. z \in Seq(Nat) /\ Len(z) = p + k
  BY <1>5
<1> HIDE DEF z
<1>7. /\ z \o y \in Seq(Nat) /\ Len(z \o y) = Len(z) + Len(y)
      /\ \A j \in 1 .. Len(z) + Len(y) : (z \o y)[j] = IF j <= Len(z) THEN z[j] ELSE y[j - Len(z)]
  <2>1. z \in Seq(Nat) /\ y \in Seq(Nat)
    BY <1>3, <1>6
  <2> QED BY <2>1, ConcatProperties
<1> HIDE DEF k, L
<1>8. Len(z \o y) = IF p + k >= L THEN p + k ELSE L
  BY <1>1, <1>3, <1>6, <1>7
<1>9. ASSUME NEW j \in 1 .. Len(z \o y)
      PROVE  (z \o y)[j] = IF j \in p + 1 .. p + k THEN d[j - p] ELSE s[j]
  <2>1. CASE j <= p + k
    <3>1. j \in 1 .. p + k /\ j \in 1 .. Len(z) + Len(y) /\ j <= Len(z)
      BY <1>1, <1>3, <1>6, <1>7, <2>1
    <3>2. (z \o y)[j] = z[j]
      BY <1>7, <3>1
    <3>3. z[j] = IF j <= p THEN s[j] ELSE d[j - p]
      BY <1>5, <3>1 DEF z
    <3> QED BY <1>1, <3>1, <3>2, <3>3
  <2>2. CASE j > p + k
    <3>1. (z \o y)[j] = y[j - (p + k)] /\ j - (p + k) \in 1 .. Len(y)
      BY <1>1, <1>3, <1>6, <1>7, <1>8, <2>2
    <3>2. p + k + (j - (p + k)) = j
      BY <1>1
    <3>3. y[j - (p + k)] = s[j]
      BY <1>3, <3>1, <3>2
    <3> QED BY <1>1, <2>2, <3>1, <3>3
  <2> QED BY <1>1, <1>8, <2>1, <2>2
<1> QED BY <1>4, <1>7, <1>8, <1>9 DEF z, k, L

\* aml_timeshift_subfile_write goes on in the next subfile at the same place.
LEMMA WriteAtPlace ==
    ASSUME Types, NEW fd \in Fds, fd.pos <= Len(disk[fd.sub]), fd.pos <= SubSize,
           NEW at, at = WriteAt(fd)
    PROVE  /\ at.sub \in Nat /\ at.pos \in Nat /\ Place(at) = Place(fd)
           /\ at = [sub |-> at.sub, pos |-> at.pos]
           /\ \/ at.sub \in DOMAIN disk /\ at.pos <= Len(disk[at.sub])
              \/ at.sub = Len(disk) + 1 /\ at.pos = 0 /\ Len(disk[Len(disk)]) >= SubSize
<1>1. /\ SubSize \in Nat \ {0} /\ fd.sub \in 1 .. Len(disk) /\ fd.pos \in Nat
      /\ DOMAIN disk = 1 .. Len(disk) /\ Len(disk) \in Nat \ {0}
      /\ disk \in Seq(Seq(Nat)) /\ fd = [sub |-> fd.sub, pos |-> fd.pos]
  BY SizeAssumption, FdTypes DEF Fds
<1>2. CASE fd.pos < SubSize
  <2>1. at = fd
    BY <1>1, <1>2 DEF WriteAt
  <2> QED BY <1>1, <2>1
<1>3. CASE fd.pos = SubSize
  <2>1. at = [sub |-> fd.sub + 1, pos |-> 0]
    BY <1>1, <1>3 DEF WriteAt
  <2>2. at.sub = fd.sub + 1 /\ at.pos = 0
    BY <2>1
  <2>3. fd.sub * SubSize = ((fd.sub - 1) * SubSize) + SubSize /\ fd.sub * SubSize \in Int
    BY <1>1
  <2>4. Place(at) = Place(fd)
    <3>1. Place(at) = ((at.sub - 1) * SubSize) + at.pos
      BY DEF Place
    <3>2. at.sub - 1 = fd.sub
      BY <1>1, <2>2
    <3>3. Place(at) = (fd.sub * SubSize) + 0
      BY <2>2, <3>1, <3>2, Zenon
    <3>4. Place(fd) = ((fd.sub - 1) * SubSize) + SubSize
      BY <1>3 DEF Place
    <3> QED BY <2>3, <3>3, <3>4
  <2>5. CASE fd.sub + 1 \in DOMAIN disk
    <3>1. disk[fd.sub + 1] \in Seq(Nat)
      BY <1>1, <2>5
    <3>2. 0 <= Len(disk[fd.sub + 1])
      BY <3>1
    <3> QED BY <1>1, <2>1, <2>2, <2>4, <2>5, <3>2
  <2>6. CASE fd.sub + 1 \notin DOMAIN disk
    <3>1. fd.sub = Len(disk)
      BY <1>1, <2>6
    <3> QED BY <1>1, <1>3, <2>1, <2>2, <2>4, <3>1
  <2> QED BY <2>5, <2>6
<1> QED BY <1>1, <1>2, <1>3

\* What a write of k units leaves in the subfiles: the units, and what was
\* there outside them.
Laid(D, at, a, k) ==
    /\ D \in Seq(Seq(Nat)) /\ DOMAIN disk \subseteq DOMAIN D /\ at.sub \in DOMAIN D
    /\ \A i \in DOMAIN D : /\ Len(D[i]) <= SubSize
                           /\ i < Len(D) => Len(D[i]) = SubSize
    /\ \A t \in 1 .. k : at.pos + t \in DOMAIN D[at.sub] /\ D[at.sub][at.pos + t] = a + t
    /\ \A i \in DOMAIN disk : \A j \in DOMAIN disk[i] :
          /\ j \in DOMAIN D[i]
          /\ ~(i = at.sub /\ j \in at.pos + 1 .. at.pos + k) => D[i][j] = disk[i][j]

LEMMA SubWriteOver ==
    ASSUME Types, Shaped, "drift" \notin mishaps, NEW at, at.sub \in DOMAIN disk,
           at.pos \in Nat, at.pos <= Len(disk[at.sub]),
           NEW a \in Nat, NEW k \in Nat, at.pos + k <= SubSize
    PROVE  Laid(SubWrite(at, Units(a, k)), at, a, k)
<1>1. PICK s \in Seq(Nat), p \in Nat, c \in DOMAIN disk :
         s = disk[at.sub] /\ p = at.pos /\ c = at.sub
  BY Lengths
<1>2. PICK d \in Seq(Nat) : d = Units(a, k)
  BY UnitsType
<1>3. Len(d) = k /\ (\A t \in 1 .. k : d[t] = a + t)
  BY <1>2, UnitsType DEF Units
<1> DEFINE o == Overlay(s, p, d)
<1>5. /\ o \in Seq(Nat) /\ Len(o) = IF p + k >= Len(s) THEN p + k ELSE Len(s)
      /\ \A j \in 1 .. Len(o) : o[j] = IF j \in p + 1 .. p + k THEN d[j - p] ELSE s[j]
  <2>1. s \in Seq(Nat) /\ p \in Nat /\ d \in Seq(Nat) /\ p <= Len(s)
    BY <1>1, <1>2
  <2>2. /\ o \in Seq(Nat) /\ Len(o) = IF p + Len(d) >= Len(s) THEN p + Len(d) ELSE Len(s)
        /\ \A j \in 1 .. Len(o) :
              o[j] = IF j \in p + 1 .. p + Len(d) THEN d[j - p] ELSE s[j]
    BY <2>1, OverlaySpec
  <2> HIDE DEF o
  <2> QED BY <1>3, <2>2
<1>6. PICK D : D = [disk EXCEPT ![c] = o]
  OBVIOUS
<1>7. SubWrite(at, Units(a, k)) = D
  BY <1>1, <1>2, <1>6 DEF SubWrite, o
<1> HIDE DEF o
<1>8. disk \in Seq(Seq(Nat)) /\ DOMAIN disk = 1 .. Len(disk)
  BY FdTypes
<1>9. /\ D \in Seq(Seq(Nat)) /\ Len(D) = Len(disk) /\ DOMAIN D = DOMAIN disk
      /\ D[c] = o /\ \A i \in DOMAIN disk : i # c => D[i] = disk[i]
  BY <1>1, <1>5, <1>6, <1>8
<1>10. Len(s) \in 0 .. SubSize /\ (c < Len(disk) => Len(s) = SubSize) /\ SubSize \in Nat
       /\ DOMAIN s = 1 .. Len(s) /\ p <= Len(s) /\ p + k <= SubSize
  BY <1>1, Lengths, SizeAssumption
<1>11. Len(o) \in Nat /\ DOMAIN o = 1 .. Len(o) /\ Len(o) <= SubSize
       /\ (c < Len(disk) => Len(o) = SubSize) /\ Len(s) <= Len(o) /\ p + k <= Len(o)
  <2>1. Len(o) \in Nat /\ DOMAIN o = 1 .. Len(o)
    BY <1>5
  <2>2. Len(o) = IF p + k >= Len(s) THEN p + k ELSE Len(s)
    BY <1>5
  <2>3. Len(s) \in Nat /\ SubSize \in Nat /\ Len(s) <= SubSize /\ p + k <= SubSize
        /\ (c < Len(disk) => Len(s) = SubSize) /\ p + k \in Nat
    BY <1>10, <1>1
  <2> QED BY <2>1, <2>2, <2>3
<1>12. ASSUME NEW i \in DOMAIN D
       PROVE  Len(D[i]) <= SubSize /\ (i < Len(D) => Len(D[i]) = SubSize)
  <2>1. CASE i = c
    BY <1>9, <1>11, <2>1
  <2>2. CASE i # c
    <3>1. i \in DOMAIN disk /\ D[i] = disk[i] /\ Len(D) = Len(disk)
      BY <1>9, <2>2
    <3>2. Len(disk[i]) \in 0 .. SubSize /\ (i < Len(disk) => Len(disk[i]) = SubSize)
      BY <3>1, Lengths
    <3> QED BY <1>10, <3>1, <3>2
  <2> QED BY <2>1, <2>2
<1>13. ASSUME NEW t \in 1 .. k PROVE p + t \in DOMAIN o /\ o[p + t] = a + t
  <2>1. p + t \in 1 .. Len(o) /\ p + t \in p + 1 .. p + k /\ p + t - p = t
    BY <1>11
  <2>2. o[p + t] = d[p + t - p]
    BY <1>5, <2>1
  <2> QED BY <1>3, <1>11, <2>1, <2>2
<1>14. ASSUME NEW j \in DOMAIN s
       PROVE  j \in DOMAIN o /\ (j \notin p + 1 .. p + k => o[j] = s[j])
  <2>1. j \in 1 .. Len(o)
    <3>1. j \in 1 .. Len(s)
      BY <1>10
    <3>2. Len(s) <= Len(o) /\ Len(o) \in Nat /\ Len(s) \in Nat
      BY <1>1, <1>11
    <3> QED BY <3>1, <3>2
  <2> QED BY <1>5, <1>11, <2>1
<1>15. ASSUME NEW i \in DOMAIN disk, NEW j \in DOMAIN disk[i]
       PROVE  /\ j \in DOMAIN D[i]
              /\ ~(i = c /\ j \in p + 1 .. p + k) => D[i][j] = disk[i][j]
  <2>1. CASE i = c
    BY <1>1, <1>9, <1>14, <2>1
  <2>2. CASE i # c
    BY <1>9, <2>2
  <2> QED BY <2>1, <2>2
<1>16. Laid(D, at, a, k)
  BY <1>1, <1>9, <1>12, <1>13, <1>15 DEF Laid
<1> QED BY <1>7, <1>16

LEMMA SubWriteNext ==
    ASSUME Types, Shaped, "drift" \notin mishaps, NEW at, at.sub = Len(disk) + 1, at.pos = 0,
           Len(disk[Len(disk)]) >= SubSize, NEW a \in Nat, NEW k \in Nat, k <= SubSize
    PROVE  Laid(SubWrite(at, Units(a, k)), at, a, k)
<1>1. PICK d \in Seq(Nat) : d = Units(a, k)
  BY UnitsType
<1>2. Len(d) = k /\ DOMAIN d = 1 .. k /\ (\A t \in 1 .. k : d[t] = a + t)
  BY <1>1, UnitsType DEF Units
<1>3. disk \in Seq(Seq(Nat)) /\ DOMAIN disk = 1 .. Len(disk) /\ Len(disk) \in Nat \ {0}
  BY FdTypes
<1>4. PICK D : D = Append(disk, d)
  OBVIOUS
<1>5. SubWrite(at, Units(a, k)) = D
  <2>1. at.sub \notin DOMAIN disk
    BY <1>3
  <2> QED BY <1>1, <1>4, <2>1 DEF SubWrite
<1>6. /\ D \in Seq(Seq(Nat)) /\ Len(D) = Len(disk) + 1 /\ DOMAIN D = 1 .. Len(disk) + 1
      /\ D[Len(disk) + 1] = d /\ \A i \in 1 .. Len(disk) : D[i] = disk[i]
  <2>1. /\ D \in Seq(Seq(Nat)) /\ Len(D) = Len(disk) + 1
        /\ D[Len(disk) + 1] = d /\ \A i \in 1 .. Len(disk) : D[i] = disk[i]
    BY <1>3, <1>4, AppendProperties
  <2> QED BY <1>3, <2>1
<1>7. \A i \in 1 .. Len(disk) : Len(disk[i]) = SubSize
  <2>1. \A i \in 1 .. Len(disk) : /\ Len(disk[i]) \in 0 .. SubSize
                                  /\ i < Len(disk) => Len(disk[i]) = SubSize
    BY <1>3, Lengths
  <2> QED BY <1>3, <2>1, SizeAssumption
<1>8. \A i \in DOMAIN D : Len(D[i]) <= SubSize /\ (i < Len(D) => Len(D[i]) = SubSize)
  <2>1. ASSUME NEW i \in DOMAIN D
        PROVE  Len(D[i]) <= SubSize /\ (i < Len(D) => Len(D[i]) = SubSize)
    <3>1. CASE i = Len(disk) + 1
      <4>1. Len(D[i]) = k
        BY <1>2, <1>6, <3>1
      <4> QED BY <1>3, <1>6, <3>1, <4>1
    <3>2. CASE i # Len(disk) + 1
      <4>1. i \in 1 .. Len(disk)
        BY <1>3, <1>6, <3>2
      <4>2. Len(D[i]) = SubSize
        BY <1>6, <1>7, <4>1
      <4> QED BY <4>2, SizeAssumption
    <3> QED BY <3>1, <3>2
  <2> QED BY <2>1
<1>9. \A t \in 1 .. k : 0 + t \in DOMAIN D[at.sub] /\ D[at.sub][0 + t] = a + t
  BY <1>2, <1>6
<1>10. \A i \in DOMAIN disk : \A j \in DOMAIN disk[i] : j \in DOMAIN D[i] /\ D[i][j] = disk[i][j]
  BY <1>3, <1>6
<1>11. DOMAIN disk \subseteq DOMAIN D /\ at.sub \in DOMAIN D
  BY <1>3, <1>6
<1>12. Laid(D, at, a, k)
  BY <1>6, <1>8, <1>9, <1>10, <1>11 DEF Laid
<1> QED BY <1>5, <1>12

StaysBut(d, e, p, k) ==
    \A x, u : Holds(d, x, u) /\ x \notin p .. p + k - 1 => Holds(e, x, u)

\* A write without drift: the subfiles stay in shape, the units are where the
\* descriptor was, and nothing else has moved.
LEMMA DiskWrite ==
    ASSUME Types, Shaped, "drift" \notin mishaps, NEW CONSTANT fd, fd \in Fds,
           fd.pos <= Len(disk[fd.sub]), fd.pos <= SubSize,
           NEW a \in Nat, NEW k \in Nat, NEW CONSTANT at, at = WriteAt(fd),
           NEW CONSTANT f, f = After(at, Units(a, k)), f.pos <= SubSize,
           disk' = SubWrite(at, Units(a, k))
    PROVE  /\ Shaped'
           /\ HoldsFrom(disk', Place(fd), a, k)
           /\ StaysBut(disk, disk', Place(fd), k)
           /\ Place(f) = Place(fd) + k
<1>1. /\ at.sub \in Nat /\ at.pos \in Nat /\ Place(at) = Place(fd)
      /\ at = [sub |-> at.sub, pos |-> at.pos]
      /\ \/ at.sub \in DOMAIN disk /\ at.pos <= Len(disk[at.sub])
         \/ at.sub = Len(disk) + 1 /\ at.pos = 0 /\ Len(disk[Len(disk)]) >= SubSize
  BY WriteAtPlace
<1>2. f = [sub |-> at.sub, pos |-> at.pos + k]
  <2>1. Len(Units(a, k)) = k
    BY UnitsType
  <2>2. f = [sub |-> at.sub, pos |-> at.pos + Len(Units(a, k))]
    BY <1>1 DEF After
  <2> QED BY <2>1, <2>2
<1>3. f.sub = at.sub /\ f.pos = at.pos + k /\ at.pos + k <= SubSize
  BY <1>2
<1>4. Laid(disk', at, a, k)
  <2>1. CASE at.sub \in DOMAIN disk /\ at.pos <= Len(disk[at.sub])
    BY <1>1, <1>3, <2>1, SubWriteOver
  <2>2. CASE at.sub = Len(disk) + 1 /\ at.pos = 0 /\ Len(disk[Len(disk)]) >= SubSize
    <3>1. k <= SubSize
      BY <1>3, <2>2
    <3> QED BY <2>2, <3>1, SubWriteNext
  <2> QED BY <1>1, <2>1, <2>2
<1>5. PICK x0 \in Int, m \in Int : /\ m = (at.sub - 1) * SubSize /\ x0 = m + at.pos
                                   /\ x0 = Place(fd)
  <2>1. (at.sub - 1) * SubSize \in Int
    BY <1>1, SizeAssumption
  <2>2. ((at.sub - 1) * SubSize) + at.pos \in Int
    BY <1>1, <2>1
  <2> QED BY <1>1, <2>1, <2>2 DEF Place
<1>6. Shaped'
  BY <1>4 DEF Laid, Shaped
<1>7. HoldsFrom(disk', Place(fd), a, k)
  <2>1. ASSUME NEW t \in 1 .. k PROVE Holds(disk', x0 + t - 1, a + t)
    <3>1. PICK j \in Nat : j = at.pos + t
      BY <1>1
    <3>2. x0 + t - 1 = m + (j - 1)
      BY <1>1, <1>5, <3>1
    <3>3. x0 + t - 1 = ((at.sub - 1) * SubSize) + (j - 1)
      BY <1>5, <3>2
    <3>4. at.sub \in DOMAIN disk' /\ j \in DOMAIN disk'[at.sub] /\ disk'[at.sub][j] = a + t
      BY <1>4, <3>1 DEF Laid
    <3>5. \E i \in DOMAIN disk' : \E l \in DOMAIN disk'[i] :
             x0 + t - 1 = ((i - 1) * SubSize) + (l - 1) /\ disk'[i][l] = a + t
      BY <3>3, <3>4, Zenon
    <3> QED BY <3>5, Zenon DEF Holds
  <2> QED BY <1>5, <2>1 DEF HoldsFrom
<1>8. ASSUME NEW x, NEW u, Holds(disk, x, u), x \notin Place(fd) .. Place(fd) + k - 1
      PROVE  Holds(disk', x, u)
  <2>1. PICK i \in DOMAIN disk : \E j \in DOMAIN disk[i] :
           x = ((i - 1) * SubSize) + (j - 1) /\ disk[i][j] = u
    BY <1>8 DEF Holds
  <2>2. PICK j \in DOMAIN disk[i] : x = ((i - 1) * SubSize) + (j - 1) /\ disk[i][j] = u
    BY <2>1
  <2>3. ~(i = at.sub /\ j \in at.pos + 1 .. at.pos + k)
    <3>1. SUFFICES ASSUME i = at.sub, j \in at.pos + 1 .. at.pos + k PROVE FALSE
      OBVIOUS
    <3>2. x = m + (j - 1)
      BY <1>5, <2>2, <3>1
    <3>3. x \in x0 .. x0 + k - 1
      BY <1>1, <1>5, <3>1, <3>2
    <3> QED BY <1>5, <1>8, <3>3
  <2>4. i \in DOMAIN disk' /\ j \in DOMAIN disk'[i] /\ disk'[i][j] = disk[i][j]
    BY <1>4, <2>3 DEF Laid
  <2> QED BY <2>2, <2>4 DEF Holds
<1>9. Place(f) = Place(fd) + k
  <2>1. Place(f) = m + (at.pos + k)
    BY <1>3, <1>5 DEF Place
  <2> QED BY <1>1, <1>5, <2>1
<1> QED BY <1>6, <1>7, <1>8, <1>9 DEF StaysBut

----------------------------------------------------------------------------
(* The steps of AM_TFile_Write.                                              *)

LEMMA ModTurn ==
    ASSUME NEW n \in Nat \ {0}, NEW y \in Int, NEW z \in Int, z = y - n
    PROVE  y % n = z % n
<1>1. PICK d \in Int, r \in 0 .. n - 1 : r = z % n /\ z = (d * n) + r
  <2>1. z \div n \in Int /\ z % n \in 0 .. n - 1 /\ z = ((z \div n) * n) + (z % n)
    BY ModDef
  <2> QED BY <2>1
<1>2. d + 1 \in Int /\ y = ((d + 1) * n) + r
  BY <1>1
<1>3. y % n = r
  BY <1>2, ModUnique
<1> QED BY <1>1, <1>3

\* From x to y the place moves to q, without passing the end of the ring.
InStep(n, x, y, q) == y - x = q - (x % n)

LEMMA ModAhead ==
    ASSUME NEW n \in Nat \ {0}, NEW x \in Int, NEW y \in Int, NEW q \in 0 .. n - 1,
           InStep(n, x, y, q)
    PROVE  y % n = q
<1>1. PICK d \in Int, p \in Int : p = x % n /\ x = (d * n) + p
  <2>1. x \div n \in Int /\ x % n \in Int /\ x = ((x \div n) * n) + (x % n)
    BY ModDef
  <2> QED BY <2>1
<1>2. d * n \in Int /\ y = (d * n) + q
  BY <1>1 DEF InStep
<1> QED BY <1>2, ModUnique

\* Less than a turn of the ring apart is another place.
LEMMA ElsewhereInTurn ==
    ASSUME NEW n \in Nat \ {0}, NEW x \in Int, NEW y \in Int, x < y, y < x + n
    PROVE  x % n # y % n
<1>1. PICK a \in 0 .. n - 1 : a = x % n
  BY ModDef
<1> DEFINE b == IF a + (y - x) < n THEN a + (y - x) ELSE a + (y - x) - n
<1>2. /\ b \in 0 .. n - 1 /\ b = IF a + (y - x) < n THEN a + (y - x) ELSE a + (y - x) - n
  OBVIOUS
<1> HIDE DEF b
<1>3. CASE a + (y - x) < n
  <2>1. y - x = b - a
    BY <1>2, <1>3
  <2>2. y % n = b
    BY <1>1, <1>2, <2>1, ModAhead DEF InStep
  <2> QED BY <1>1, <2>1, <2>2
<1>4. CASE a + (y - x) >= n
  <2>1. PICK z \in Int : z = y - n
    OBVIOUS
  <2>2. z - x = b - a /\ b # a
    BY <1>2, <1>4, <2>1
  <2>3. z % n = b
    BY <1>1, <1>2, <2>2, ModAhead DEF InStep
  <2>4. y % n = z % n
    BY <2>1, ModTurn
  <2> QED BY <1>1, <2>2, <2>3, <2>4
<1> QED BY <1>1, <1>3, <1>4

\* The last n of W units are kept.
KeptIn(d, n, W) == \A u \in 1 .. W : u > W - n => Holds(d, (u - 1) % n, u)
Fits(n, W, k) == (W % n) + k <= n

\* What is written goes where the oldest units were, and nowhere else.
LEMMA KeptWrites ==
    ASSUME NEW d, NEW e, NEW n \in Nat \ {0}, NEW W \in Int, NEW k \in Nat, Fits(n, W, k),
           KeptIn(d, n, W), HoldsFrom(e, W % n, W, k), StaysBut(d, e, W % n, k)
    PROVE  KeptIn(e, n, W + k)
<1>1. PICK p \in 0 .. n - 1 : p = W % n
  BY ModDef
<1>2. p + k <= n /\ HoldsFrom(e, p, W, k) /\ StaysBut(d, e, p, k)
  BY <1>1 DEF Fits
<1>3. ASSUME NEW u \in 1 .. W + k, u > W + k - n
      PROVE  Holds(e, (u - 1) % n, u)
  <2>1. CASE u <= W
    <3>1. Holds(d, (u - 1) % n, u)
      <4>1. u \in 1 .. W /\ u > W - n
        BY <1>1, <1>3, <2>1
      <4> QED BY <4>1 DEF KeptIn
    <3>2. (u - 1) % n \notin p .. p + k - 1
      <4>1. SUFFICES ASSUME (u - 1) % n \in p .. p + k - 1 PROVE FALSE
        OBVIOUS
      <4>2. PICK x \in Int, q \in 0 .. n - 1 : x = u - 1 /\ q = x % n /\ q \in p .. p + k - 1
        <5>1. PICK x \in Int : x = u - 1
          OBVIOUS
        <5>2. x % n \in 0 .. n - 1
          BY ModDef
        <5> QED BY <4>1, <5>1, <5>2
      <4>3. PICK y \in Int : y - W = q - p
        <5>1. W + (q - p) \in Int /\ (W + (q - p)) - W = q - p
          BY <1>1, <4>2
        <5> QED BY <5>1
      <4>4. y % n = q
        <5>1. InStep(n, W, y, q)
          BY <1>1, <4>3 DEF InStep
        <5> QED BY <5>1, ModAhead, Zenon
      <4>5. x < y /\ y < x + n
        BY <1>1, <1>2, <1>3, <2>1, <4>2, <4>3
      <4> QED BY <4>2, <4>3, <4>4, <4>5, ElsewhereInTurn
    <3> QED BY <1>2, <3>1, <3>2 DEF StaysBut
  <2>2. CASE u > W
    <3>1. PICK t \in 1 .. k : t = u - W
      BY <1>3, <2>2
    <3>2. Holds(e, p + t - 1, W + t)
      BY <1>2 DEF HoldsFrom
    <3>3. PICK x \in Int, q \in 0 .. n - 1 : x = u - 1 /\ q = p + t - 1 /\ W + t = u /\ x - W = q - p
      BY <1>1, <1>2, <3>1
    <3>4. x % n = q
      <4>1. InStep(n, W, x, q)
        BY <1>1, <3>3 DEF InStep
      <4> QED BY <4>1, ModAhead, Zenon
    <3> QED BY <3>2, <3>3, <3>4
  <2> QED BY <2>1, <2>2
<1> QED BY <1>3 DEF KeptIn

\* A part of a write, without drift, at the place of the next unit.
LEMMA WritePart ==
    ASSUME Types, Shaped, Kept, "drift" \notin mishaps, size > 0,
           NEW CONSTANT fd, fd \in Fds, fd.pos <= Len(disk[fd.sub]), fd.pos <= SubSize,
           NEW k \in Nat, NEW CONSTANT W, W = Written, Place(fd) = W % size, Fits(size, W, k),
           size' = size, Written' = W + k,
           disk' = SubWrite(WriteAt(fd), Units(W, k)),
           wfd' = After(WriteAt(fd), Units(W, k)), wfd'.pos <= SubSize
    PROVE  Shaped' /\ Kept' /\ Place(wfd') = Place(fd) + k
<1>1. PICK n \in Nat \ {0} : n = size
  BY DEF Types
<1>2. W \in Nat
  BY WrittenType
<1>3. PICK at, f : at = WriteAt(fd) /\ f = After(at, Units(W, k)) /\ f = wfd' /\ f.pos <= SubSize
                   /\ disk' = SubWrite(at, Units(W, k))
  OBVIOUS
<1>4. /\ Shaped'
      /\ HoldsFrom(disk', Place(fd), W, k)
      /\ StaysBut(disk, disk', Place(fd), k)
      /\ Place(f) = Place(fd) + k
  BY <1>2, <1>3, DiskWrite
<1>5. KeptIn(disk, n, W)
  BY <1>1 DEF Kept, KeptIn
<1>6. HoldsFrom(disk', W % n, W, k) /\ StaysBut(disk, disk', W % n, k) /\ Fits(n, W, k)
  BY <1>1, <1>4
<1>7. KeptIn(disk', n, W + k)
  <2>1. W \in Int
    BY <1>2
  <2> QED BY <1>5, <1>6, <2>1, KeptWrites, Zenon
<1>8. Kept'
  BY <1>1, <1>7 DEF Kept, KeptIn
<1> QED BY <1>3, <1>4, <1>8

LEMMA OrderWrites ==
    RingInv /\ OrderInv /\ (WriteFirst \/ WriteSecond) => Shaped' /\ WriterPlaced' /\ Kept'
<1> SUFFICES ASSUME RingInv, OrderInv, WriteFirst \/ WriteSecond, "drift" \notin mishaps'
             PROVE  Shaped' /\ WriterPlaced' /\ Kept'
  BY DEF Shaped, WriterPlaced, Kept
<1>1. /\ Types /\ Requested /\ Placed /\ size > 0 /\ size' = size /\ write' = write
      /\ stream' = stream /\ "drift" \notin mishaps
  BY DEF RingInv, Requested, WriteFirst, WriteSecond, ringVars
<1>2. Shaped /\ WriterPlaced /\ Kept
  BY DEF OrderInv
<1>3. /\ size \in Nat \ {0} /\ stream \in Nat /\ write = stream % size /\ write \in 0 .. size - 1
      /\ req.len1 \in Nat /\ req.len2 \in Nat /\ req.done \in Nat
  <2>1. /\ size \in Nat \ {0} /\ stream \in Nat /\ write = stream % size
        /\ req.len1 \in Nat /\ req.len2 \in Nat /\ req.done \in Nat
    BY <1>1 DEF Types, Placed, RequestSet
  <2> QED BY <2>1, ModDef
<1>4. CASE WriteFirst
  <2>1. PICK k \in Reaches(req.len1) :
          /\ disk' = SubWrite(WriteAt(wfd), Units(stream, k))
          /\ wfd' = After(WriteAt(wfd), Units(stream, k))
          /\ req' = [req EXCEPT !.done = k, !.failed = k # req.len1]
          /\ wpc' \in {"adjust", "second"}
          /\ After(WriteAt(wfd), Units(stream, k)).pos > SubSize => "drift" \in mishaps'
    BY <1>4 DEF WriteFirst, Mishap
  <2>2. k \in Nat /\ k <= req.len1
    BY <1>3, <2>1 DEF Reaches
  <2>3. wpc = "first" /\ req.done = 0 /\ write + req.len1 <= size
    BY <1>1, <1>4 DEF WriteFirst, Requested
  <2>4. PICK fd : fd = wfd
    OBVIOUS
  <2>5. /\ fd \in Fds /\ fd.pos <= Len(disk[fd.sub])
        /\ fd.pos <= SubSize /\ Place(fd) = write
    BY <1>1, <1>2, <2>3, <2>4, FdTypes DEF WriterPlaced
  <2>6. PICK W \in Int : W = stream
    BY <1>3
  <2>7. Written = W /\ Written' = W + k /\ req'.done = k
    <3>1. Written = stream
      BY <1>3, <2>3 DEF Written
    <3>2. req'.done = k
      BY <1>1, <2>1 DEF Types, RequestSet
    <3> QED BY <1>1, <2>1, <2>6, <3>1, <3>2 DEF Written
  <2>8. wfd'.pos <= SubSize
    <3>1. wfd' \in [sub : Nat, pos : Nat]
      BY TypesWrite DEF Types, Write
    <3> QED BY <2>1, <3>1, SizeAssumption
  <2>9. Fits(size, W, k) /\ Place(fd) = W % size
    BY <1>3, <2>2, <2>3, <2>5, <2>6 DEF Fits
  <2>10. /\ disk' = SubWrite(WriteAt(fd), Units(W, k))
         /\ wfd' = After(WriteAt(fd), Units(W, k))
    BY <2>1, <2>4, <2>6
  <2>11. Shaped' /\ Kept' /\ Place(wfd') = write + k
    BY <1>1, <1>2, <2>2, <2>5, <2>7, <2>8, <2>9, <2>10, WritePart
  <2>12. write + k \in 0 .. size
    BY <1>3, <2>2, <2>3
  <2>13. WriterPlaced'
    BY <1>1, <2>1, <2>7, <2>8, <2>11, <2>12 DEF WriterPlaced
  <2> QED BY <2>11, <2>13
<1>5. CASE WriteSecond
  <2>0. PICK fd : fd = SubSeek(wfd, 0)
    OBVIOUS
  <2>1. PICK k \in Reaches(req.len2) :
          /\ disk' = SubWrite(WriteAt(fd), Units(stream + req.done, k))
          /\ wfd' = After(WriteAt(fd), Units(stream + req.done, k))
          /\ req' = [req EXCEPT !.done = @ + k, !.failed = k # req.len2]
          /\ After(WriteAt(fd), Units(stream + req.done, k)).pos > SubSize => "drift" \in mishaps'
    BY <1>5, <2>0 DEF WriteSecond, Mishap
  <2>2. k \in Nat /\ k <= req.len2
    BY <1>3, <2>1 DEF Reaches
  <2>3. /\ wpc = "second" /\ wpc' = "adjust" /\ req.done = req.len1 /\ req.len1 > 0
        /\ write + req.len1 = size /\ req.len1 + req.len2 <= size
    BY <1>1, <1>5 DEF WriteSecond, Requested
  <2>4. /\ fd \in Fds /\ fd.pos = 0 /\ Place(fd) = 0
    BY <1>1, <2>0, FdTypes, SeekZero
  <2>5. fd.pos <= Len(disk[fd.sub]) /\ fd.pos <= SubSize
    <3>1. fd.sub \in DOMAIN disk /\ disk \in Seq(Seq(Nat))
      BY <1>1, <2>4, FdTypes DEF Fds
    <3>2. disk[fd.sub] \in Seq(Nat)
      BY <3>1
    <3> QED BY <2>4, <3>2, SizeAssumption
  <2>6. PICK W \in Int : W = stream + req.done
    BY <1>3
  <2>7. Written = W /\ Written' = W + k /\ req'.done = req.len1 + k
    <3>1. Written = stream + req.done
      BY <2>3 DEF Written
    <3>2. req'.done = req.done + k
      BY <1>1, <2>1 DEF Types, RequestSet
    <3>3. Written' = stream' + req'.done
      BY <2>3 DEF Written
    <3> QED BY <1>1, <1>3, <2>2, <2>3, <2>6, <3>1, <3>2, <3>3
  <2>8. wfd'.pos <= SubSize
    <3>1. wfd' \in [sub : Nat, pos : Nat]
      BY TypesWrite DEF Types, Write
    <3> QED BY <2>1, <3>1, SizeAssumption
  <2>9. W % size = 0
    <3>1. (write + req.done) % size = (stream + req.done) % size
      BY <1>3, WriteMoves
    <3>2. size % size = 0
      BY <1>3, Z3
    <3> QED BY <2>3, <2>6, <3>1, <3>2
  <2>10. Fits(size, W, k)
    BY <1>3, <2>2, <2>3, <2>9 DEF Fits
  <2>11. /\ disk' = SubWrite(WriteAt(fd), Units(W, k))
         /\ wfd' = After(WriteAt(fd), Units(W, k))
    BY <2>1, <2>6
  <2>12. Shaped' /\ Kept' /\ Place(wfd') = k
    <3>1. Shaped' /\ Kept' /\ Place(wfd') = Place(fd) + k
      BY <1>1, <1>2, <2>2, <2>4, <2>5, <2>7, <2>8, <2>9, <2>10, <2>11, WritePart
    <3> QED BY <2>2, <2>4, <3>1
  <2>13. k \in 0 .. size /\ k = write' + req'.done - size'
    BY <1>1, <1>3, <2>2, <2>3, <2>7
  <2>14. WriterPlaced'
    BY <1>1, <2>3, <2>8, <2>12, <2>13 DEF WriterPlaced
  <2> QED BY <2>12, <2>14
<1> QED BY <1>4, <1>5

LEMMA KeptFrame ==
    ASSUME Shaped, Kept, disk' = disk, size' = size, Written' = Written,
           "drift" \in mishaps => "drift" \in mishaps'
    PROVE  Shaped' /\ Kept'
  BY DEF Shaped, Kept, Holds

LEMMA OrderAdjust == RingInv /\ OrderInv /\ WriteAdjust => OrderInv'
<1> SUFFICES ASSUME RingInv, OrderInv, WriteAdjust PROVE OrderInv'
  OBVIOUS
<1> DEFINE n     == req.done
           rleft == size - avail
           moved == n > size - total
           w     == (write + n) % size
           s(k)  == IF ~moved THEN start ELSE IF k > 0 THEN frags[k + 1].start ELSE w
           t0(k) == IF ~moved THEN total ELSE total - (IF k > 0 THEN Removed[k] ELSE n)
           t(k)  == IF t0(k) < size THEN Minimum(t0(k) + n, size) ELSE t0(k)
           a0    == IF n > rleft THEN avail - (n - rleft) ELSE avail
           a     == IF a0 < size THEN Minimum(a0 + n, size) ELSE a0
           reset(k) == n > rleft \/ a > t(k)
<1>1. PICK k \in IF moved /\ timer = "on" THEN Removals(n) ELSE {0} :
          /\ total' = t(k) /\ write' = w
          /\ read' = (IF reset(k) THEN s(k) ELSE read)
          /\ avail' = Minimum(a, t(k))
          /\ mishaps \subseteq mishaps' /\ (reset(k) => "overrun" \in mishaps')
  BY DEF WriteAdjust, Mishap
<1>2. /\ size' = size /\ stream' = stream + n /\ wpc = "adjust" /\ wpc' = "rate" /\ n > 0
      /\ rfd' = rfd /\ due' = due /\ got' = got /\ disk' = disk
      /\ wfd' = IF w = 0 THEN SubSeek(wfd, 0) ELSE wfd
  BY DEF WriteAdjust, readerVars
<1>3. Types /\ Requested /\ Placed /\ size > 0
  BY <1>2 DEF RingInv, Requested
<1>4. /\ size \in Nat \ {0} /\ stream \in Nat /\ total \in 0 .. size /\ write = stream % size
      /\ write \in 0 .. size - 1 /\ avail \in Int /\ n \in 1 .. size
  <2>1. /\ size \in Nat \ {0} /\ stream \in Nat /\ total \in 0 .. size /\ write = stream % size
        /\ avail \in Int
    BY <1>3 DEF Types, TypeOK, Placed
  <2>2. n \in 1 .. size
    BY <1>2, <1>3 DEF Types, Requested, RequestSet
  <2> QED BY <2>1, <2>2, ModDef
<1>5. Shaped /\ WriterPlaced /\ Kept /\ ReaderPlaced /\ InOrder
  BY DEF OrderInv
<1>6. Written' = Written
  BY <1>2 DEF Written
<1>7. Shaped' /\ Kept'
  BY <1>1, <1>2, <1>5, <1>6, KeptFrame
<1>8. WriterPlaced'
  <2>1. SUFFICES ASSUME "drift" \notin mishaps' PROVE wfd'.pos <= SubSize /\ Place(wfd') = w
    BY <1>1, <1>2 DEF WriterPlaced
  <2>2. /\ wfd.pos <= SubSize /\ Place(wfd) \in {write + n, write + n - size}
        /\ Place(wfd) \in 0 .. size
    BY <1>1, <1>2, <1>5, <2>1 DEF WriterPlaced
  <2>3. w = IF write + n < size THEN write + n ELSE write + n - size
    <3>1. PICK x \in Int : x = write + n
      BY <1>4
    <3>2. w = x % size
      BY <3>1
    <3> HIDE DEF w, n
    <3>3. CASE x < size
      <4>1. x \in 0 .. size - 1
        BY <1>4, <3>1, <3>3
      <4>2. x % size = x
        BY <1>4, <4>1, ModSmall
      <4> QED BY <3>1, <3>2, <3>3, <4>2
    <3>4. CASE x >= size
      <4>1. x < size + size
        BY <1>4, <3>1
      <4>2. x % size = x - size
        BY <1>4, <3>4, <4>1, ModOnce
      <4> QED BY <1>4, <3>1, <3>2, <3>4, <4>2
    <3> QED BY <1>4, <3>1, <3>3, <3>4
  <2>4. CASE w = 0
    <3>1. PICK fd \in Fds : fd = SubSeek(wfd, 0) /\ fd.pos = 0 /\ Place(fd) = 0
      BY <1>3, FdTypes, SeekZero
    <3> QED BY <1>2, <2>4, <3>1, SizeAssumption
  <2>5. CASE w # 0
    <3>1. Place(wfd) = w
      <4> HIDE DEF w
      <4> QED BY <1>4, <2>2, <2>3, <2>5
    <3> QED BY <1>2, <2>2, <2>5, <3>1
  <2> QED BY <2>4, <2>5
<1>9. ReaderPlaced' /\ InOrder'
  <2>1. SUFFICES ASSUME mishaps' = {} PROVE ReaderPlaced' /\ InOrder'
    BY DEF ReaderPlaced, InOrder
  <2>2. mishaps = {} /\ ~reset(k)
    BY <1>1, <2>1
  <2>3. 0 <= avail /\ avail <= total
    BY <1>3, <2>2 DEF Placed, Without
  <2>4. n <= rleft /\ a = avail + n /\ a <= t(k)
    <3>1. n <= rleft /\ ~(a > t(k))
      BY <1>4, <2>2
    <3>2. a = avail + n
      BY <1>4, <2>3, <3>1 DEF Minimum
    <3>3. t(k) \in Int /\ a \in Int
      <4>1. total' \in Int
        BY TypesWrite DEF Types, TypeOK, Write
      <4> QED BY <1>1, <1>4, <3>2, <4>1
    <3> HIDE DEF a, t, n
    <3> QED BY <3>1, <3>2, <3>3
  <2>5. read' = read /\ avail' = avail + n
    <3>1. read' = read
      BY <1>1, <2>2
    <3>2. avail' = Minimum(a, t(k)) /\ a \in Int /\ t(k) \in Int
      <4>1. total' \in Int
        BY TypesWrite DEF Types, TypeOK, Write
      <4> QED BY <1>1, <1>4, <2>4, <4>1
    <3> HIDE DEF a, t
    <3>3. a < t(k) \/ a = t(k)
      BY <2>4, <3>2
    <3>4. Minimum(a, t(k)) = a
      BY <3>3 DEF Minimum
    <3> QED BY <2>4, <3>1, <3>2, <3>4
  <2>6. stream' - avail' = stream - avail
    <3> HIDE DEF n
    <3>1. stream \in Int /\ avail \in Int /\ n \in Int
      BY <1>4
    <3> QED BY <1>2, <2>5, <3>1
  <2>7. ReaderPlaced'
    BY <1>2, <1>3, <1>5, <2>2, <2>5, <2>6 DEF ReaderPlaced
  <2>8. InOrder'
    BY <1>2, <1>5, <2>2, <2>6 DEF InOrder, Units
  <2> QED BY <2>7, <2>8
<1> QED BY <1>7, <1>8, <1>9 DEF OrderInv

LEMMA OrderDone == RingInv /\ OrderInv /\ WriteDone => OrderInv'
<1> SUFFICES ASSUME RingInv, OrderInv, WriteDone PROVE OrderInv'
  OBVIOUS
<1>1. /\ wpc = "rate" /\ wpc' = "idle" /\ stream' = stream /\ avail' = avail /\ read' = read
      /\ write' = write /\ rfd' = rfd /\ wfd' = wfd /\ disk' = disk /\ due' = due /\ got' = got
      /\ mishaps' = mishaps
  BY DEF WriteDone, readerVars
<1>2. Types /\ Requested /\ Placed /\ size > 0
  BY <1>1 DEF RingInv, Requested
<1>3. Shaped /\ WriterPlaced /\ Kept /\ ReaderPlaced /\ InOrder
  BY DEF OrderInv
<1>4. size \in Nat \ {0} /\ stream \in Nat /\ avail \in Int
  BY <1>2 DEF Types, TypeOK
<1>5. Written = stream /\ Written' = stream
  <2>1. stream + 0 = stream
    BY <1>4
  <2> QED BY <1>1, <2>1 DEF Written
<1>6. Shaped' /\ WriterPlaced' /\ InOrder'
  BY <1>1, <1>3 DEF Shaped, WriterPlaced, InOrder, Units
<1>7. size' = size \/ size' = 0 \/ (stream < size /\ size' \in Nat \ {0} /\ stream < size')
  <2>1. CASE UNCHANGED <<size, rateKnown>>
    BY <2>1
  <2>2. CASE \E product \in Products : (product = 0 \/ product > stream) /\ size' = Minimum(product, size)
    <3>1. PICK product \in Products : /\ product = 0 \/ product > stream
                                      /\ size' = Minimum(product, size)
      BY <2>2
    <3>2. product \in Nat
      BY ProductsAssumption
    <3> QED BY <1>4, <3>1, <3>2 DEF Minimum
  <2> QED BY <2>1, <2>2 DEF WriteDone
<1>8. CASE size' = size
  BY <1>1, <1>3, <1>5, <1>6, <1>8 DEF Kept, ReaderPlaced, Holds, OrderInv
<1>9. CASE size' = 0
  BY <1>6, <1>9 DEF Kept, ReaderPlaced, OrderInv
<1>10. CASE stream < size /\ size' \in Nat \ {0} /\ stream < size'
  <2>1. ASSUME NEW x \in 0 .. stream PROVE x % size' = x % size
    <3>1. x \in 0 .. size - 1 /\ x \in 0 .. size' - 1
      <4>1. PICK m \in Nat \ {0} : m = size' /\ stream < m
        BY <1>10
      <4>2. PICK z \in Nat : z = size /\ stream < z
        BY <1>4, <1>10
      <4>3. PICK y \in Nat : y = stream
        BY <1>4
      <4>4. x \in 0 .. y /\ y < m /\ y < z
        BY <4>1, <4>2, <4>3
      <4>5. x \in 0 .. z - 1 /\ x \in 0 .. m - 1
        BY <4>4
      <4> QED BY <4>1, <4>2, <4>5
    <3>2. x % size = x
      BY <1>4, <3>1, ModSmall
    <3>3. x % size' = x
      BY <1>10, <3>1, ModSmall
    <3> QED BY <3>2, <3>3
  <2>2. ASSUME "drift" \notin mishaps, NEW u \in 1 .. stream
        PROVE  Holds(disk, (u - 1) % size', u)
    <3>1. u \in 1 .. Written /\ u > Written - size
      BY <1>4, <1>5, <1>10
    <3>2. Holds(disk, (u - 1) % size, u)
      BY <1>2, <1>3, <2>2, <3>1 DEF Kept
    <3>3. u - 1 \in 0 .. stream
      BY <1>4
    <3>4. (u - 1) % size' = (u - 1) % size
      BY <2>1, <3>3
    <3> QED BY <3>2, <3>4
  <2>3. Kept'
    <3>1. SUFFICES ASSUME "drift" \notin mishaps, NEW u \in 1 .. stream
                   PROVE  Holds(disk', (u - 1) % size', u)
      BY <1>1, <1>5 DEF Kept, Holds
    <3> QED BY <1>1, <2>2, <3>1
  <2>4. ReaderPlaced'
    <3>1. SUFFICES ASSUME mishaps = {} PROVE read = (stream - avail) % size'
      BY <1>1, <1>2, <1>3 DEF ReaderPlaced
    <3>2. stream - avail \in 0 .. stream
      BY <1>2, <1>4, <1>10, <3>1 DEF Placed, Without
    <3>3. (stream - avail) % size' = (stream - avail) % size
      BY <2>1, <3>2
    <3>4. read = (stream - avail) % size
      BY <1>2, <1>3, <3>1 DEF ReaderPlaced
    <3> QED BY <3>3, <3>4
  <2> QED BY <1>6, <2>3, <2>4 DEF OrderInv
<1> QED BY <1>7, <1>8, <1>9, <1>10

LEMMA OrderBegin ==
    RingInv /\ OrderInv /\ (WriteBegin \/ WriteNothing \/ WriteHangs) => OrderInv'
<1> SUFFICES ASSUME RingInv, OrderInv, WriteBegin \/ WriteNothing \/ WriteHangs PROVE OrderInv'
  OBVIOUS
<1>1. /\ stream' = stream /\ avail' = avail /\ read' = read /\ size' = size
      /\ write' = write /\ rfd' = rfd /\ wfd' = wfd /\ disk' = disk /\ due' = due /\ got' = got
      /\ mishaps \subseteq mishaps'
  BY DEF WriteBegin, WriteNothing, WriteHangs, readerVars, ringVars
<1>2. Types /\ Requested /\ Placed /\ size > 0
  BY DEF RingInv, Requested, WriteBegin, WriteNothing, WriteHangs
<1>3. Shaped /\ WriterPlaced /\ Kept /\ ReaderPlaced /\ InOrder
  BY DEF OrderInv
<1>4. /\ size \in Nat \ {0} /\ stream \in Nat /\ avail \in Int /\ write \in 0 .. size - 1
      /\ req.done \in Nat
  <2>1. /\ size \in Nat \ {0} /\ stream \in Nat /\ avail \in Int /\ write = stream % size
        /\ req.done \in Nat
    BY <1>2 DEF Types, TypeOK, Placed, RequestSet
  <2> QED BY <2>1, ModDef
<1>5. InOrder'
  BY <1>1, <1>3 DEF InOrder, Units
<1>6. ASSUME Written' = Written PROVE Shaped' /\ Kept'
  BY <1>1, <1>3, <1>6, KeptFrame
<1>7. CASE WriteBegin
  <2>1. PICK c \in Chunks :
          LET len  == Minimum(c, size)
              wrap == write + len >= size
              len1 == IF wrap THEN size - write ELSE len
          IN  /\ req' = [len1 |-> len1, len2 |-> len - len1, done |-> 0,
                         wrap |-> wrap, failed |-> FALSE]
              /\ wpc' = IF len1 > 0 THEN "first" ELSE "second"
              /\ len > size - avail => "overrun" \in mishaps'
    BY <1>7 DEF WriteBegin, Mishap
  <2> DEFINE len  == Minimum(c, size)
             len1 == IF write + len >= size THEN size - write ELSE len
  <2>2. wpc = "idle" /\ req'.done = 0 /\ req'.len1 = len1 /\ req'.len2 = len - len1
    BY <1>7, <2>1 DEF WriteBegin
  <2>3. len \in Int /\ len1 > 0
    BY <1>4, ChunksAssumption DEF Minimum
  <2>4. wpc' = "first"
    BY <2>1, <2>3
  <2>5. Written' = Written
    BY <1>1, <1>4, <2>2, <2>4 DEF Written
  <2>6. WriterPlaced'
    BY <1>1, <1>3, <2>2, <2>4 DEF WriterPlaced
  <2>7. ReaderPlaced'
    <3>1. SUFFICES ASSUME mishaps' = {} PROVE req'.len1 + req'.len2 + avail <= size
      BY <1>1, <1>2, <1>3 DEF ReaderPlaced
    <3>2. ~(len > size - avail)
      BY <2>1, <3>1
    <3> HIDE DEF len
    <3>3. len1 \in Int
      BY <1>4, <2>3
    <3> HIDE DEF len1
    <3> QED BY <1>4, <2>2, <2>3, <3>2, <3>3
  <2> QED BY <1>5, <1>6, <2>5, <2>6, <2>7 DEF OrderInv
<1>8. CASE WriteNothing \/ WriteHangs
  <2>1. wpc = "adjust" /\ req' = req /\ wpc' \in {"rate", "hung"} /\ (wpc' = "rate" => req.done = 0)
    BY <1>8 DEF WriteNothing, WriteHangs
  <2>2. Written' = Written
    BY <1>1, <1>4, <2>1 DEF Written
  <2>3. WriterPlaced'
    <3>1. SUFFICES ASSUME "drift" \notin mishaps'
                   PROVE  wfd.pos <= SubSize /\ (wpc' = "rate" => Place(wfd) = write)
      BY <1>1, <2>1 DEF WriterPlaced
    <3>2. wfd.pos <= SubSize /\ Place(wfd) \in {write + req.done, write + req.done - size}
          /\ Place(wfd) \in 0 .. size
      BY <1>1, <1>3, <2>1, <3>1 DEF WriterPlaced
    <3>3. wpc' = "rate" => Place(wfd) = write
      BY <1>4, <2>1, <3>2
    <3> QED BY <3>2, <3>3
  <2>4. ReaderPlaced'
    BY <1>1, <1>2, <1>3, <2>1 DEF ReaderPlaced
  <2> QED BY <1>5, <1>6, <2>2, <2>3, <2>4 DEF OrderInv
<1> QED BY <1>7, <1>8

----------------------------------------------------------------------------
(* The steps of the reader.                                                  *)

\* m units from a on and k units from b on are l units in a row.
Joins(a, m, b, k, l) == {a, m, b, k, l} \subseteq Nat /\ b = a + m /\ l = m + k

LEMMA UnitsJoin ==
    ASSUME NEW a, NEW m, NEW b, NEW k, NEW l, Joins(a, m, b, k, l)
    PROVE  Units(a, m) \o Units(b, k) = Units(a, l)
<1>0. a \in Nat /\ m \in Nat /\ b \in Nat /\ k \in Nat /\ b = a + m /\ l = m + k
  BY DEF Joins
<1> DEFINE x == Units(a, m)
           y == Units(b, k)
<1>1. /\ x \in Seq(Nat) /\ Len(x) = m /\ y \in Seq(Nat) /\ Len(y) = k
      /\ \A i \in 1 .. m : x[i] = a + i
      /\ \A i \in 1 .. k : y[i] = b + i
  BY <1>0, UnitsType DEF Units
<1> HIDE DEF x, y
<1>2. /\ x \o y \in Seq(Nat) /\ Len(x \o y) = m + k
      /\ \A i \in 1 .. m + k : (x \o y)[i] = IF i <= m THEN x[i] ELSE y[i - m]
  BY <1>0, <1>1, ConcatProperties
<1> DEFINE z == x \o y
<1>3. ASSUME NEW i \in 1 .. m + k PROVE z[i] = a + i
  <2>1. CASE i <= m
    BY <1>0, <1>1, <1>2, <2>1
  <2>2. CASE i > m
    <3>1. PICK j \in 1 .. k : j = i - m
      BY <1>0, <2>2
    <3>2. z[i] = y[j]
      BY <1>0, <1>2, <2>2, <3>1
    <3>3. y[j] = b + j
      BY <1>0, <1>1
    <3>4. b + j = a + i
      BY <1>0, <3>1
    <3> HIDE DEF z
    <3> QED BY <3>2, <3>3, <3>4
  <2>3. i <= m \/ i > m
    BY <1>0
  <2> QED BY <2>1, <2>2, <2>3, Zenon
<1>4. z \in Seq(Nat) /\ Len(z) = m + k /\ \A i \in 1 .. Len(z) : z[i] = a + i
  BY <1>0, <1>2, <1>3
<1> HIDE DEF z
<1>5. z = Units(a, Len(z))
  BY <1>0, <1>4, UnitsAre
<1> QED BY <1>0, <1>4, <1>5 DEF x, y, z

\* From where the reader is, the subfiles hold all that is unread: as far as
\* the end of the ring, and from its beginning.
Unread(a, n, r, m) ==
    /\ \A k \in Nat : k <= m /\ r + k <= n => HoldsFrom(disk, r, a, k)
    /\ \A k \in Nat : k <= m => \A b \in Nat :
          b = a + (n - r) /\ (n - r) + k <= m => HoldsFrom(disk, 0, b, k)

LEMMA UnreadHeld ==
    ASSUME RingInv, OrderInv, mishaps = {}, size > 0, wpc # "hung"
    PROVE  /\ avail \in 0 .. size /\ stream - avail \in Nat /\ read \in 0 .. size - 1
           /\ Unread(stream - avail, size, read, avail)
<1>1. Types /\ Requested /\ Placed /\ Kept /\ ReaderPlaced
  BY DEF RingInv, OrderInv
<1>2. PICK n \in Nat \ {0}, a \in Int, r \in Int, v \in Int :
         n = size /\ a = stream - avail /\ r = read /\ v = avail
  <2>1. size \in Nat \ {0} /\ stream - avail \in Int /\ read \in Int /\ avail \in Int
    BY <1>1 DEF Types, TypeOK
  <2> QED BY <2>1
<1>3. r = a % n /\ r \in 0 .. n - 1
  <2>1. r = a % n
    BY <1>1, <1>2 DEF ReaderPlaced
  <2> QED BY <2>1, ModDef
<1>4. v \in 0 .. n /\ a \in Nat
  <2>1. stream \in Nat /\ total \in 0 .. size /\ 0 <= avail /\ avail <= total
        /\ (stream < size => total = stream)
    BY <1>1 DEF Types, Placed, Without
  <2> QED BY <1>2, <2>1
<1>5. PICK W \in Int : W = Written
  BY <1>1, WrittenType
<1>6. a + v <= W /\ W - n <= a
  <2>1. stream \in Nat /\ stream = a + v /\ stream <= W
    BY <1>1, <1>2, <1>5, WrittenType DEF Types
  <2>2. CASE wpc \in {"first", "second", "adjust"}
    <3>1. req.done <= req.len1 + req.len2 /\ req.len1 + req.len2 + v <= n
          /\ req.len1 \in Nat /\ req.len2 \in Nat /\ req.done \in Nat
      BY <1>1, <1>2, <2>2 DEF Requested, ReaderPlaced, Types, RequestSet
    <3>2. W = stream + req.done
      BY <1>5, <2>2 DEF Written
    <3> QED BY <1>4, <2>1, <3>1, <3>2
  <2>3. CASE wpc \notin {"first", "second", "adjust"}
    <3>1. W = stream
      BY <1>5, <2>1, <2>3 DEF Written
    <3> QED BY <1>4, <2>1, <3>1
  <2> QED BY <2>2, <2>3
<1>7. ASSUME NEW u \in Int, a < u, u <= a + v PROVE Holds(disk, (u - 1) % n, u)
  <2>1. u \in 1 .. W /\ u > W - n
    BY <1>4, <1>6, <1>7
  <2> QED BY <1>1, <1>2, <1>5, <2>1 DEF Kept
<1>8. ASSUME NEW k \in Nat, k <= v, r + k <= n PROVE HoldsFrom(disk, r, a, k)
  <2>1. SUFFICES ASSUME NEW t \in 1 .. k PROVE Holds(disk, r + t - 1, a + t)
    BY DEF HoldsFrom
  <2>2. PICK u \in Int, x \in Int, q \in 0 .. n - 1 :
           u = a + t /\ x = u - 1 /\ q = r + t - 1 /\ x - a = q - r /\ a < u /\ u <= a + v
    BY <1>3, <1>4, <1>8
  <2>3. InStep(n, a, x, q)
    BY <1>3, <2>2 DEF InStep
  <2>4. x % n = q
    BY <2>3, ModAhead, Zenon
  <2> QED BY <1>7, <2>2, <2>4
<1>9. ASSUME NEW k \in Nat, k <= v, NEW b \in Nat, b = a + (n - r), (n - r) + k <= v
      PROVE  HoldsFrom(disk, 0, b, k)
  <2>1. SUFFICES ASSUME NEW t \in 1 .. k PROVE Holds(disk, 0 + t - 1, b + t)
    BY DEF HoldsFrom
  <2>2. PICK u \in Int, x \in Int, y \in Int, q \in 0 .. n - 1 :
           /\ u = b + t /\ x = u - 1 /\ y = x - n /\ q = 0 + t - 1 /\ y - a = q - r
           /\ a < u /\ u <= a + v
    BY <1>3, <1>4, <1>9
  <2>3. InStep(n, a, y, q)
    BY <1>3, <2>2 DEF InStep
  <2>4. y % n = q
    BY <2>3, ModAhead, Zenon
  <2>5. x % n = y % n
    BY <2>2, ModTurn
  <2> QED BY <1>7, <2>2, <2>4, <2>5
<1>10. Unread(a, n, r, v)
  BY <1>8, <1>9 DEF Unread
<1> QED BY <1>2, <1>3, <1>4, <1>10

\* AM_TFile_Read delivers the stream from the first unread unit on, and goes
\* on by what it delivers.
Delivered(l) ==
    /\ got' = Units(stream - avail, l) /\ Len(got') = l /\ due' = stream - avail
    /\ avail' = avail - l /\ read' = (stream - avail + l) % size
    /\ rfd'.pos <= SubSize /\ Place(rfd') = read'

LEMMA DeliverOrder ==
    ASSUME RingInv, OrderInv, mishaps = {}, size > 0, wpc # "hung", avail > 0,
           NEW c \in Nat \ {0}, Deliver(c)
    PROVE  \E l \in 0 .. avail : Delivered(l)
<1> DEFINE todo  == Minimum(c, avail)
           split == IF read + todo > size THEN size - read ELSE 0
           head  == SubRead(rfd, split)
           short == Len(head) # split
           fd1   == IF split > 0 THEN After(ReadAt(rfd), head) ELSE rfd
           fd2   == IF split > 0 THEN SubSeek(fd1, 0) ELSE rfd
           tail  == SubRead(fd2, todo - split)
           fd3   == After(ReadAt(fd2), tail)
           from  == IF split > 0 THEN 0 ELSE read
           r     == IF short THEN read + Len(head)
                    ELSE IF tail # <<>> THEN (from + Len(tail)) % size ELSE from
<1>1. Types /\ Shaped /\ ReaderPlaced /\ "drift" \notin mishaps
  BY DEF RingInv, OrderInv
<1>2. PICK n \in Nat \ {0}, a \in Nat, p \in Nat, v \in Nat :
         n = size /\ a = stream - avail /\ p = read /\ v = avail /\ p < n /\ v \in 1 .. n
  <2>1. size \in Nat \ {0} /\ avail \in 1 .. size /\ stream - avail \in Nat /\ read \in 0 .. size - 1
    BY <1>1, UnreadHeld DEF Types
  <2>2. size \in Nat \ {0} /\ stream - avail \in Nat /\ read \in Nat /\ avail \in Nat
        /\ read < size
    BY <2>1
  <2> QED BY <2>1, <2>2
<1>3. p = a % n
  BY <1>1, <1>2 DEF ReaderPlaced
<1>11. rfd \in Fds /\ rfd.pos <= SubSize /\ Place(rfd) = p
  BY <1>1, <1>2, FdTypes DEF ReaderPlaced
<1>4. PICK m \in 1 .. v : m = todo
  BY <1>2 DEF Minimum
<1>5. ASSUME NEW k \in Nat, k <= v, p + k <= n PROVE HoldsFrom(disk, p, a, k)
  BY <1>2, <1>5, UnreadHeld DEF Unread
<1>6. ASSUME NEW k \in Nat, NEW b \in Nat, b = a + (n - p), k <= v, (n - p) + k <= v
      PROVE HoldsFrom(disk, 0, b, k)
  BY <1>2, <1>6, UnreadHeld DEF Unread
<1>7. /\ read' = r
      /\ got' = IF short THEN head ELSE head \o tail
      /\ rfd' = IF short THEN fd1 ELSE IF r = 0 THEN SubSeek(fd3, 0) ELSE fd3
      /\ avail' = IF short \/ tail # <<>> THEN avail - Len(got') ELSE avail
      /\ due' = stream - avail
  BY DEF Deliver
<1>8. SUFFICES \E l \in 0 .. v : /\ got' = Units(a, l) /\ Len(got') = l
                                 /\ avail' = v - l /\ read' = (a + l) % n
                                 /\ rfd'.pos <= SubSize /\ Place(rfd') = read'
  BY <1>2, <1>7 DEF Delivered
<1>9. CASE p + m > n
  <2>1. split = n - p
    BY <1>2, <1>4, <1>9
  <2> HIDE DEF split
  <2>2. PICK s \in 1 .. v : s = split /\ s = n - p /\ m > s
    BY <1>2, <1>4, <1>9, <2>1
  <2>3. PICK h, f : h = head /\ f = After(ReadAt(rfd), h) /\ f = fd1 /\ h = SubRead(rfd, s)
    BY <2>2
  <2>4. HoldsFrom(disk, Place(rfd), a, s)
    BY <1>2, <1>11, <1>5, <2>2
  <2>5. /\ h \in Seq(Nat) /\ Len(h) \in 1 .. s /\ h = Units(a, Len(h))
        /\ f \in Fds /\ f.pos <= SubSize /\ Place(f) = p + Len(h)
    <3>1. /\ h \in Seq(Nat) /\ Len(h) \in 0 .. s /\ h = Units(a, Len(h))
          /\ s > 0 => Len(h) > 0
          /\ f \in Fds /\ f.pos <= SubSize /\ Place(f) = Place(rfd) + Len(h)
      <4>1. h = SubRead(rfd, s) /\ f = After(ReadAt(rfd), h) /\ s \in Nat
        BY <2>3
      <4> QED BY <1>1, <1>11, <2>4, <4>1, ReadHeld
    <3> QED BY <1>11, <3>1
  <2> HIDE DEF head, fd1
  <2>6. CASE Len(h) # s
    <3>1. /\ read' = p + Len(h) /\ got' = h /\ rfd' = f /\ avail' = v - Len(h)
      BY <1>2, <1>7, <2>2, <2>3, <2>6
    <3>2. PICK y \in Int, q \in 0 .. n - 1 : y = a + Len(h) /\ q = p + Len(h) /\ y - a = q - p
      <4>1. PICK l \in 1 .. s : l = Len(h)
        BY <2>5
      <4>2. l < s /\ p + s = n
        BY <2>2, <2>6, <4>1
      <4>3. a + l \in Int /\ p + l \in 0 .. n - 1 /\ (a + l) - a = (p + l) - p
        BY <4>2
      <4> QED BY <4>1, <4>3
    <3>3. InStep(n, a, y, q)
      BY <1>3, <3>2 DEF InStep
    <3>4. y % n = q
      <4>1. a \in Int
        OBVIOUS
      <4> QED BY <3>3, <4>1, ModAhead, Zenon
    <3>5. Len(h) \in 0 .. v
      BY <2>2, <2>5
    <3> WITNESS Len(h) \in 0 .. v
    <3> QED BY <2>5, <3>1, <3>2, <3>4
  <2>7. CASE Len(h) = s
    <3> DEFINE b == a + s
               d == m - s
    <3>1. b \in Nat /\ d \in Nat /\ d > 0 /\ b = a + (n - p) /\ d <= v /\ (n - p) + d <= v /\ d <= p
      BY <1>2, <1>4, <2>2
    <3>2. fd2 = SubSeek(f, 0) /\ ~short /\ todo - split = d
      BY <1>4, <2>2, <2>3, <2>7
    <3> HIDE DEF b, d, short, fd2
    <3>3. fd2 \in Fds /\ fd2.pos = 0 /\ Place(fd2) = 0
      BY <1>1, <2>5, <3>2, SeekZero
    <3>4. HoldsFrom(disk, Place(fd2), b, d)
      BY <1>6, <3>1, <3>3
    <3>5. PICK t, g : t = tail /\ g = fd3 /\ t = SubRead(fd2, d) /\ g = After(ReadAt(fd2), t)
      BY <3>2
    <3> HIDE DEF tail, fd3
    <3>6. /\ t \in Seq(Nat) /\ Len(t) \in 0 .. d /\ t = Units(b, Len(t)) /\ Len(t) > 0
          /\ g \in Fds /\ g.pos <= SubSize /\ Place(g) = Len(t)
      <4>1. fd2.pos <= SubSize
        BY <3>3, SizeAssumption
      <4>2. /\ t \in Seq(Nat) /\ Len(t) \in 0 .. d /\ t = Units(b, Len(t))
            /\ d > 0 => Len(t) > 0
            /\ g \in Fds /\ g.pos <= SubSize /\ Place(g) = Place(fd2) + Len(t)
        BY <1>1, <3>1, <3>3, <3>4, <3>5, <4>1, ReadHeld
      <4> QED BY <3>1, <3>3, <4>2
    <3>7. PICK k \in 1 .. d : k = Len(t)
      BY <3>1, <3>6
    <3>8. h \o t = Units(a, s + k) /\ Len(h \o t) = s + k
      <4>1. Units(a, s) \o Units(b, k) = Units(a, s + k)
        <5>1. PICK c0 \in Nat : c0 = b
          BY <3>1
        <5>2. c0 = a + s
          BY <5>1 DEF b
        <5>3. PICK l \in Nat : l = s + k
          OBVIOUS
        <5>4. a \in Nat /\ s \in Nat /\ k \in Nat
          OBVIOUS
        <5>5. Joins(a, s, c0, k, l)
          BY <5>2, <5>3, <5>4 DEF Joins
        <5>6. Units(a, s) \o Units(c0, k) = Units(a, l)
          BY <5>5, UnitsJoin, Zenon
        <5> QED BY <5>1, <5>3, <5>6
      <4>2. Len(h \o t) = Len(h) + Len(t)
        BY <2>5, <3>6, ConcatProperties
      <4> QED BY <2>5, <2>7, <3>6, <3>7, <4>1, <4>2
    <3>9. k \in 0 .. n - 1 /\ k # 0
      BY <1>2, <3>1, <3>7
    <3>10. k % n = k
      BY <3>9, ModSmall
    <3>11. r = k
      <4>1. tail # <<>>
        BY <3>5, <3>6
      <4>2. from = 0
        BY <2>2
      <4>3. 0 + Len(tail) = k
        BY <3>5, <3>7
      <4> HIDE DEF from
      <4> QED BY <1>2, <3>2, <3>10, <4>1, <4>2, <4>3
    <3> HIDE DEF r
    <3>12. /\ read' = k /\ got' = h \o t /\ rfd' = g /\ avail' = v - (s + k)
      <4>1. tail # <<>>
        BY <3>5, <3>6
      <4> QED BY <1>2, <1>7, <2>3, <3>2, <3>5, <3>8, <3>9, <3>11, <4>1
    <3>13. PICK y \in Int, z \in Int : y = a + (s + k) /\ z = y - n /\ z - a = k - p
      <4>1. s = n - p
        BY <2>2
      <4>2. PICK y \in Int, z \in Int : y = a + (s + k) /\ z = y - n
        OBVIOUS
      <4>3. z - a = k - p
        BY <4>1, <4>2
      <4> QED BY <4>2, <4>3
    <3>14. y % n = k
      <4>1. InStep(n, a, z, k)
        BY <1>3, <3>13 DEF InStep
      <4>2. a \in Int /\ k \in 0 .. n - 1
        BY <3>9
      <4>3. z % n = k
        BY <4>1, <4>2, ModAhead, Zenon
      <4> QED BY <3>13, <4>3, ModTurn
    <3>15. s + k \in 0 .. v
      BY <1>4, <2>2, <3>1, <3>7 DEF d
    <3> WITNESS s + k \in 0 .. v
    <3> QED BY <3>6, <3>7, <3>8, <3>12, <3>13, <3>14
  <2> QED BY <2>6, <2>7
<1>10. CASE p + m <= n
  <2>1. split = 0
    BY <1>2, <1>4, <1>10
  <2>2. head = <<>> /\ Len(head) = 0
    <3>1. head = SubRead(rfd, 0)
      BY <2>1
    <3>2. SubRead(rfd, 0) \in Seq(Nat) /\ Len(SubRead(rfd, 0)) \in 0 .. 0
      BY <1>1, <1>11, SubReadType, SubReadLen
    <3> QED BY <3>1, <3>2
  <2> HIDE DEF head, split
  <2>3. ~short /\ fd2 = rfd /\ todo - split = m /\ from = p
    BY <1>2, <1>4, <2>1, <2>2
  <2> HIDE DEF short, fd2, from
  <2>4. HoldsFrom(disk, Place(rfd), a, m)
    BY <1>2, <1>11, <1>4, <1>5, <1>10
  <2>5. PICK t, g : t = tail /\ g = fd3 /\ t = SubRead(rfd, m) /\ g = After(ReadAt(rfd), t)
    BY <2>3
  <2> HIDE DEF tail, fd3
  <2>6. /\ t \in Seq(Nat) /\ Len(t) \in 1 .. m /\ t = Units(a, Len(t))
        /\ g \in Fds /\ g.pos <= SubSize /\ Place(g) = p + Len(t)
    <3>1. /\ t \in Seq(Nat) /\ Len(t) \in 0 .. m /\ t = Units(a, Len(t))
          /\ m > 0 => Len(t) > 0
          /\ g \in Fds /\ g.pos <= SubSize /\ Place(g) = Place(rfd) + Len(t)
      BY <1>1, <1>11, <2>4, <2>5, ReadHeld
    <3> QED BY <1>11, <3>1
  <2>7. PICK k \in 1 .. m : k = Len(t)
    BY <2>6
  <2>8. got' = t /\ t # <<>> /\ avail' = v - k
    <3>1. t # <<>>
      BY <2>6
    <3>2. got' = t
      BY <1>7, <2>2, <2>3, <2>5, <2>6
    <3> QED BY <1>2, <1>7, <2>5, <2>7, <3>1, <3>2
  <2>9. r = (p + k) % n
    BY <1>2, <2>3, <2>5, <2>7, <2>8
  <2>10. PICK y \in Int, x \in Int : y = a + k /\ x = p + k
    OBVIOUS
  <2>11. CASE x < n
    <3>1. InStep(n, a, y, x) /\ x \in 0 .. n - 1 /\ a \in Int /\ x # 0
      BY <1>3, <2>10, <2>11 DEF InStep
    <3>2. y % n = x
      BY <3>1, ModAhead, Zenon
    <3>3. x % n = x
      BY <3>1, ModSmall
    <3>4. r = x
      BY <2>9, <2>10, <3>3
    <3> HIDE DEF r
    <3>5. read' = x /\ rfd' = g
      BY <1>7, <2>3, <2>5, <3>1, <3>4
    <3>6. k \in 0 .. v
      BY <1>4, <2>7
    <3> WITNESS k \in 0 .. v
    <3> QED BY <2>6, <2>7, <2>8, <2>10, <3>2, <3>5
  <2>12. CASE x = n
    <3>1. PICK z \in Int : z = y - n
      OBVIOUS
    <3>2. InStep(n, a, z, 0) /\ 0 \in 0 .. n - 1 /\ a \in Int
      BY <1>3, <2>10, <2>12, <3>1 DEF InStep
    <3>3. z % n = 0
      BY <3>2, ModAhead, Zenon
    <3>4. y % n = 0
      BY <3>1, <3>3, ModTurn
    <3>5. x % n = 0
      <4>1. n % n = 0
        BY Z3
      <4> QED BY <2>12, <4>1
    <3>6. r = 0
      BY <2>9, <2>10, <3>5
    <3> HIDE DEF r
    <3>7. read' = 0 /\ rfd' = SubSeek(g, 0)
      BY <1>7, <2>3, <2>5, <3>6
    <3>8. SubSeek(g, 0).pos = 0 /\ Place(SubSeek(g, 0)) = 0
      BY <1>1, <2>6, SeekZero
    <3>9. rfd'.pos <= SubSize /\ Place(rfd') = 0
      BY <3>7, <3>8, SizeAssumption
    <3>10. k \in 0 .. v
      BY <1>4, <2>7
    <3> WITNESS k \in 0 .. v
    <3> QED BY <2>6, <2>7, <2>8, <2>10, <3>4, <3>7, <3>9
  <2>13. x <= n
    BY <1>10, <2>10
  <2> QED BY <2>11, <2>12, <2>13
<1> QED BY <1>2, <1>4, <1>9, <1>10

LEMMA PartsFrame ==
    ASSUME OrderInv, wpc \in {"first", "second"}, wpc' \in {"second", "adjust"},
           stream' = stream, UNCHANGED <<ringVars, readerVars>>, mishaps \subseteq mishaps',
           req'.len1 = req.len1, req'.len2 = req.len2
    PROVE  InOrder' /\ ReaderPlaced'
<1>1. /\ avail' = avail /\ read' = read /\ size' = size
      /\ rfd' = rfd /\ due' = due /\ got' = got
  BY DEF readerVars, ringVars
<1>2. InOrder'
  BY <1>1 DEF OrderInv, InOrder, Units
<1>3. ReaderPlaced'
  BY <1>1 DEF OrderInv, ReaderPlaced, Place
<1> QED BY <1>2, <1>3

LEMMA OrderParts == RingInv /\ OrderInv /\ (WriteFirst \/ WriteSecond) => OrderInv'
<1> SUFFICES ASSUME RingInv, OrderInv, WriteFirst \/ WriteSecond PROVE OrderInv'
  OBVIOUS
<1>1. Write /\ wpc \in {"first", "second"}
  BY DEF Write, WriteFirst, WriteSecond
<1>2. InOrder' /\ ReaderPlaced'
  BY <1>1, PartsKeep, PartsFrame
<1> QED BY <1>2, OrderWrites DEF OrderInv

LEMMA NothingRead == ASSUME NEW a \in Int PROVE <<>> = Units(a, Len(<<>>))
<1>1. Len(<<>>) = 0 /\ 1 .. 0 = {}
  OBVIOUS
<1> QED BY <1>1 DEF Units

\* What a step of the reader has to bring about, given that nothing has gone
\* wrong after it.
ReaderFollows ==
    /\ rfd'.pos <= SubSize /\ Place(rfd') = read' /\ read' = (stream - avail') % size
    /\ wpc \in {"first", "second", "adjust"} => req.len1 + req.len2 + avail' <= size
    /\ got' = Units(due', Len(got')) /\ stream - avail' <= due' + Len(got')

\* A reader that waits has asked for something.
Asked == rpc = "wait" => want \in Chunks

LEMMA AskedCorrect == Spec => []Asked
<1>1. Init => Asked
  BY DEF Init, Asked
<1>2. Asked /\ [Next]_vars => Asked'
  <2> SUFFICES ASSUME Asked, [Next]_vars PROVE Asked'
    OBVIOUS
  <2>1. CASE Write \/ TimeStart \/ UNCHANGED vars
    <3>1. UNCHANGED readerVars
      <4>1. CASE WriteBegin
        BY <4>1 DEF WriteBegin
      <4>4. CASE WriteFirst
        BY <4>4 DEF WriteFirst
      <4>5. CASE WriteSecond
        BY <4>5 DEF WriteSecond
      <4>2. CASE WriteNothing \/ WriteAdjust
        BY <4>2 DEF WriteNothing, WriteAdjust
      <4>3. CASE WriteHangs \/ WriteDone \/ TimeStart \/ UNCHANGED vars
        BY <4>3 DEF WriteHangs, WriteDone, TimeStart, vars
      <4> QED BY <2>1, <4>1, <4>2, <4>3, <4>4, <4>5 DEF Write
    <3> QED BY <3>1 DEF Asked, readerVars
  <2>2. CASE Reader
    BY <2>2 DEF Asked, Reader, Read, ReadWait, ReadWoken, Seek, TimeSeek
  <2> QED BY <2>1, <2>2 DEF Next
<1> QED BY <1>1, <1>2, PTL DEF Spec

LEMMA OrderRead ==
    ASSUME RingInv, OrderInv, Asked, Read \/ ReadWait \/ ReadWoken, mishaps' = {}
    PROVE  ReaderFollows
<1>1. /\ Types /\ Placed /\ size > 0 /\ wpc # "hung" /\ mishaps = {}
      /\ ReaderPlaced /\ InOrder
  BY DEF RingInv, OrderInv, Read, ReadWait, ReadWoken, Locking
<1>2. /\ size \in Nat \ {0} /\ stream \in Nat /\ avail \in Nat
      /\ rfd.pos <= SubSize /\ Place(rfd) = read /\ read = (stream - avail) % size
      /\ wpc \in {"first", "second", "adjust"} => req.len1 + req.len2 + avail <= size
      /\ got = Units(due, Len(got)) /\ stream - avail <= due + Len(got)
      /\ req.len1 \in Nat /\ req.len2 \in Nat
  BY <1>1 DEF Types, TypeOK, Placed, Without, ReaderPlaced, InOrder, RequestSet
<1>3. CASE avail > 0 /\ \E c \in Chunks : Deliver(c)
  <2>1. PICK c \in Nat \ {0} : Deliver(c)
    BY <1>3, ChunksAssumption
  <2>2. \E l \in 0 .. avail : Delivered(l)
    BY <1>1, <1>3, <2>1, DeliverOrder
  <2>3. PICK l \in 0 .. avail : Delivered(l)
    BY <2>2
  <2>4. PICK b \in Int : b = stream - avail
    BY <1>2
  <2>5. /\ got' = Units(b, l) /\ Len(got') = l /\ due' = b
        /\ avail' = avail - l /\ read' = (b + l) % size
        /\ rfd'.pos <= SubSize /\ Place(rfd') = read'
    BY <2>3, <2>4 DEF Delivered
  <2>6. l \in Nat /\ l <= avail /\ stream - avail' = b + l
    BY <1>2, <2>4, <2>5
  <2>7. wpc \in {"first", "second", "adjust"} => req.len1 + req.len2 + avail' <= size
    <3>1. avail' \in Int /\ avail' <= avail
      BY <1>2, <2>5, <2>6
    <3>2. req.len1 \in Nat /\ req.len2 \in Nat /\ avail \in Nat /\ size \in Nat
      BY <1>2
    <3>3. req.len1 + req.len2 + avail <= size => req.len1 + req.len2 + avail' <= size
      BY <3>1, <3>2
    <3> QED BY <1>2, <3>3
  <2> QED BY <2>5, <2>6, <2>7 DEF ReaderFollows
<1>4. CASE /\ avail' = avail /\ read' = read /\ rfd' = rfd /\ due' = due /\ got' = got
  BY <1>2, <1>4 DEF ReaderFollows, Units
<1>5. CASE Read
  BY <1>3, <1>5 DEF Read
<1>6. CASE ReadWait
  BY <1>4, <1>6 DEF ReadWait, ringVars
<1>7. CASE ReadWoken
  <2>1. CASE avail > 0
    BY <1>3, <1>7, <2>1 DEF ReadWoken, Asked
  <2>2. CASE ~(avail > 0)
    BY <1>2, <1>4, <1>7, <2>2 DEF ReadWoken
  <2> QED BY <2>1, <2>2
<1> QED BY <1>5, <1>6, <1>7

\* What holds modulo n of x and z holds when both go on by y.
Along(n, x, z, y, u, v) ==
    /\ n \in Nat \ {0} /\ {x, z, y, u, v} \subseteq Int
    /\ x % n = z % n /\ u = x + y /\ v = z + y

LEMMA ModAlong ==
    ASSUME NEW n, NEW x, NEW z, NEW y, NEW u, NEW v, Along(n, x, z, y, u, v)
    PROVE  u % n = v % n
<1>1. PICK m \in Nat \ {0}, a \in Int, b \in Int, c \in Int :
         n = m /\ x = a /\ z = b /\ y = c /\ a % m = b % m /\ u = a + c /\ v = b + c
  BY DEF Along
<1>2. (a + c) % m = ((a % m) + c) % m
  BY ModAdd
<1>3. (b + c) % m = ((b % m) + c) % m
  BY ModAdd
<1> QED BY <1>1, <1>2, <1>3

LEMMA OrderSeek ==
    ASSUME RingInv, OrderInv, Seek, mishaps' = {}
    PROVE  ReaderFollows
<1>1. /\ Types /\ Placed /\ size > 0 /\ wpc # "hung" /\ mishaps \subseteq {"overrun"}
      /\ rfd' = SubSeek(rfd, read') /\ due' = stream - avail' /\ got' = <<>>
  BY ReaderFrame DEF RingInv, Reader, Seek
<1>2. PICK n \in Nat \ {0}, s \in Nat, t \in Nat, b \in Nat :
         /\ n = size /\ s = stream /\ t = total /\ b = start /\ t <= n /\ b < n
         /\ (b + t) % n = s % n
  <2>1. Without({"ragged", "late", "refused"})
    BY <1>1 DEF Without
  <2>2. /\ size \in Nat \ {0} /\ stream \in Nat /\ total \in 0 .. size
        /\ start \in 0 .. size - 1 /\ (start + total) % size = stream % size
    BY <1>1, <2>1 DEF Types, TypeOK, Placed
  <2> QED BY <2>2
<1>3. PICK offset \in Int :
        LET off == IF offset > total THEN total - 1 ELSE IF offset < 0 THEN 0 ELSE offset
            to  == start + off
        IN  /\ read' = IF to < 0 THEN to ELSE to % size
            /\ avail' = total - off
            /\ mishaps' = Moved(read', avail') \cup Mishap(off < 0, "early")
  BY OffsetsAssumption DEF Seek
<1> DEFINE off == IF offset > total THEN total - 1 ELSE IF offset < 0 THEN 0 ELSE offset
<1>4. /\ off \in 0 .. total /\ ~Crowded(avail') /\ SubSeek(Nowhere, read') # Nowhere
  <2>1. ~(off < 0) /\ ~Crowded(avail') /\ SubSeek(Nowhere, read') # Nowhere
    BY <1>3 DEF Mishap, Moved
  <2> QED BY <1>2, <2>1
<1>5. PICK o \in 0 .. t : o = off
  BY <1>2, <1>4
<1>6. read' = (b + o) % n /\ avail' = t - o
  BY <1>2, <1>3, <1>5
<1>7. (s - (t - o)) % n = (b + o) % n
  <2>1. PICK y \in Int : y = o - t
    BY <1>2
  <2>2. PICK x \in Int : x = b + t
    BY <1>2
  <2>3. PICK u \in Int, v \in Int : u = s + y /\ v = x + y
    BY <2>1, <2>2
  <2>4. Along(n, s, x, y, u, v)
    BY <1>2, <2>1, <2>2, <2>3 DEF Along
  <2>5. u % n = v % n
    BY <2>4, ModAlong
  <2>6. u = s - (t - o) /\ v = b + o
    BY <1>2, <2>1, <2>2, <2>3
  <2> QED BY <2>5, <2>6
<1>8. read' \in Nat
  <2>1. b + o \in Int
    BY <1>2
  <2> QED BY <1>2, <1>6, <2>1, ModDef
<1>9. rfd \in Fds /\ SubSeek(rfd, read').pos <= SubSize /\ Place(SubSeek(rfd, read')) = read'
  <2>1. PICK q \in Nat : q = read'
    BY <1>8
  <2> QED BY <1>1, <1>4, <2>1, FdTypes, SeekPlace
<1>10. got' = Units(due', Len(got')) /\ stream - avail' <= due' + Len(got')
  BY <1>1, <1>2, <1>6, NothingRead
<1>11. wpc \in {"first", "second", "adjust"} => req.len1 + req.len2 + avail' <= size
  <2>1. req.len1 \in Int /\ req.len2 \in Int
    BY <1>1 DEF Types, RequestSet
  <2> QED BY <1>2, <1>4, <1>6, <2>1 DEF Crowded
<1> QED BY <1>1, <1>2, <1>6, <1>7, <1>9, <1>10, <1>11 DEF ReaderFollows

LEMMA OrderTimeSeek ==
    ASSUME RingInv, OrderInv, TimeSeek, mishaps' = {}
    PROVE  ReaderFollows
<1>1. /\ Types /\ Placed /\ Fragmented /\ size > 0 /\ wpc # "hung"
      /\ rfd' = SubSeek(rfd, read') /\ due' = stream - avail' /\ got' = <<>>
  BY ReaderFrame DEF RingInv, Reader, TimeSeek
<1>2. PICK k \in DOMAIN frags :
        LET from == frags[k].start
        IN  /\ read' = from
            /\ avail' = IF write >= from THEN write - from ELSE size - from + write
            /\ mishaps' = Moved(read', avail')
                  \cup Mishap(frags[k].after > stream, "ahead")
                  \cup Mishap(from = write /\ frags[k].after < stream, "full")
  BY DEF TimeSeek
<1>3. frags # <<>> /\ 1 \in DOMAIN frags /\ 1 <= k /\ DOMAIN frags = 1 .. Len(frags)
  BY <1>1, <1>2 DEF Types
<1>4. /\ 0 <= frags[k].after /\ frags[k].start = frags[k].after % size
      /\ frags[1].after <= frags[k].after /\ stream - frags[1].after <= total
  BY <1>1, <1>2, <1>3 DEF Fragmented
<1>5. frags[k].after \in Int /\ frags[1].after \in Int
  BY <1>1, <1>2, <1>3, FragmentType
<1>6. PICK n \in Nat \ {0}, s \in Nat, c \in Nat, f \in Int, t \in Nat, w \in Nat :
         /\ n = size /\ s = stream /\ c = frags[k].after /\ f = frags[1].after /\ t = total
         /\ w = write /\ w = s % n /\ f <= c /\ s - f <= t /\ t <= n /\ w < n
  <2>1. /\ size \in Nat \ {0} /\ stream \in Nat /\ total \in 0 .. size /\ write = stream % size
    BY <1>1 DEF Types, TypeOK, Placed
  <2>2. write \in 0 .. size - 1
    BY <2>1, ModDef
  <2>3. PICK c \in Nat, f \in Int : c = frags[k].after /\ f = frags[1].after
    BY <1>4, <1>5
  <2>4. size \in Nat \ {0} /\ total \in Nat /\ total <= size /\ write \in Nat /\ write < size
    BY <2>1, <2>2
  <2>5. f <= c /\ stream - f <= total
    BY <1>4, <2>3
  <2> QED BY <2>1, <2>3, <2>4, <2>5
<1>7. /\ ~(c > s) /\ ~(c % n = w /\ c < s)
      /\ ~Crowded(avail') /\ SubSeek(Nowhere, read') # Nowhere
  BY <1>2, <1>4, <1>6 DEF Mishap, Moved
<1>8. PICK d \in 0 .. n : d = s - c
  BY <1>6, <1>7
<1>9. d % n = d
  <2>1. CASE d < n
    BY <2>1, ModSmall
  <2>2. CASE d = n
    <3>1. PICK y \in Int, z \in Int : y = s /\ z = c /\ z = y - n
      BY <1>8, <2>2
    <3>2. y % n = z % n
      BY <3>1, ModTurn
    <3>3. c < s
      BY <3>1
    <3> QED BY <1>6, <1>7, <3>1, <3>2, <3>3
  <2> QED BY <2>1, <2>2
<1>10. PICK x \in 0 .. n - 1 : x = c % n
  <2>1. c \in Int
    OBVIOUS
  <2> QED BY <2>1, ModDef
<1>11. read' = x /\ avail' = IF w >= x THEN w - x ELSE n - x + w
  BY <1>2, <1>4, <1>6, <1>10
<1>12. avail' = d
  <2>1. d \in Nat /\ c \in Int
    OBVIOUS
  <2>2. LET a == c % n
            b == (c + d) % n
        IN  d % n = IF b >= a THEN b - a ELSE n - a + b
    BY <2>1, ModApart
  <2>3. (c + d) % n = w
    BY <1>6, <1>8
  <2> QED BY <1>9, <1>10, <1>11, <2>2, <2>3
<1>13. read' = (stream - avail') % size
  <2>1. s - d = c
    BY <1>8
  <2> QED BY <1>6, <1>10, <1>11, <1>12, <2>1
<1>14. rfd \in Fds /\ SubSeek(rfd, read').pos <= SubSize /\ Place(SubSeek(rfd, read')) = read'
  <2>1. PICK q \in Nat : q = read'
    BY <1>11
  <2> QED BY <1>1, <1>7, <2>1, FdTypes, SeekPlace
<1>15. got' = Units(due', Len(got')) /\ stream - avail' <= due' + Len(got')
  BY <1>1, <1>6, <1>12, NothingRead
<1>16. wpc \in {"first", "second", "adjust"} => req.len1 + req.len2 + avail' <= size
  <2>1. req.len1 \in Int /\ req.len2 \in Int
    BY <1>1 DEF Types, RequestSet
  <2> QED BY <1>6, <1>7, <1>12, <2>1 DEF Crowded
<1> QED BY <1>1, <1>13, <1>14, <1>15, <1>16 DEF ReaderFollows

LEMMA OrderReader == RingInv /\ OrderInv /\ Asked /\ Reader => OrderInv'
<1> SUFFICES ASSUME RingInv, OrderInv, Asked, Reader PROVE OrderInv'
  OBVIOUS
<1>1. /\ size' = size /\ write' = write /\ wpc' = wpc /\ req' = req /\ stream' = stream
      /\ wpc # "hung" /\ mishaps \ {"overrun"} \subseteq mishaps'
  BY ReaderFrame
<1>2. disk' = disk /\ wfd' = wfd
  BY DEF Reader, Read, ReadWait, ReadWoken, Seek, TimeSeek, writerVars
<1>3. "drift" \in mishaps => "drift" \in mishaps'
  <2>1. "drift" \notin {"overrun"}
    OBVIOUS
  <2> QED BY <1>1, <2>1
<1>4. Shaped' /\ Kept'
  <2>1. Written' = Written
    BY <1>1 DEF Written
  <2> QED BY <1>1, <1>2, <1>3, <2>1, KeptFrame DEF OrderInv
<1>5. WriterPlaced'
  BY <1>1, <1>2, <1>3 DEF OrderInv, WriterPlaced, Place
<1>6. mishaps' = {} => ReaderFollows
  BY OrderRead, OrderSeek, OrderTimeSeek DEF Reader
<1>7. ReaderPlaced'
  BY <1>1, <1>6 DEF ReaderPlaced, ReaderFollows
<1>8. InOrder'
  BY <1>1, <1>6 DEF InOrder, ReaderFollows
<1> QED BY <1>4, <1>5, <1>7, <1>8 DEF OrderInv

LEMMA OrderFrame ==
    ASSUME OrderInv, TimeStart \/ UNCHANGED vars
    PROVE  OrderInv'
<1>1. /\ stream' = stream /\ avail' = avail /\ read' = read /\ size' = size /\ req' = req
      /\ write' = write /\ rfd' = rfd /\ wfd' = wfd /\ disk' = disk /\ due' = due /\ got' = got
      /\ wpc' = wpc /\ mishaps \subseteq mishaps'
  BY DEF TimeStart, vars, readerVars, writerVars, ringVars
<1>2. Shaped' /\ Kept'
  <2>1. Written' = Written
    BY <1>1 DEF Written
  <2> QED BY <1>1, <2>1, KeptFrame DEF OrderInv
<1>3. WriterPlaced' /\ ReaderPlaced' /\ InOrder'
  BY <1>1 DEF OrderInv, WriterPlaced, ReaderPlaced, InOrder, Place, Units
<1> QED BY <1>2, <1>3 DEF OrderInv

LEMMA OrderInit == Init => OrderInv
<1> SUFFICES ASSUME Init PROVE OrderInv
  OBVIOUS
<1>0. size = Size
  BY DEF Init
<1>1. PICK n \in Nat \ {0} : n = size
  BY <1>0, SizeAssumption
<1>8. PICK b \in Nat \ {0} : b = SubSize
  BY SizeAssumption
<1>2. /\ disk = << <<>> >> /\ wfd = [sub |-> 1, pos |-> 0] /\ rfd = [sub |-> 1, pos |-> 0]
      /\ wpc = "idle" /\ stream = 0 /\ avail = 0 /\ read = 0 /\ write = 0
      /\ due = 0 /\ got = <<>>
  BY DEF Init
<1>3. Place(wfd) = 0 /\ Place(rfd) = 0 /\ (0 - 0) % n = 0
  <2>1. (1 - 1) * b = 0 /\ 0 % n = 0
    BY Z3
  <2> QED BY <1>2, <1>8, <2>1 DEF Place
<1>4. Shaped
  <2>1. DOMAIN disk = {1} /\ Len(disk) = 1 /\ Len(disk[1]) = 0
    BY <1>2
  <2> QED BY <1>8, <2>1 DEF Shaped
<1>5. WriterPlaced /\ ReaderPlaced
  BY <1>1, <1>2, <1>3, <1>8 DEF WriterPlaced, ReaderPlaced
<1>6. Kept
  BY <1>2 DEF Kept, Written
<1>7. InOrder
  BY <1>2, NothingRead DEF InOrder
<1> QED BY <1>4, <1>5, <1>6, <1>7 DEF OrderInv

\* The inductive invariant of the data: where the subfiles keep it, and where the two
\* descriptors are, as long as nothing has gone wrong.
THEOREM OrderInvCorrect == Spec => []OrderInv
<1>1. RingInv /\ Asked /\ OrderInv /\ [Next]_vars => OrderInv'
  BY OrderBegin, OrderParts, OrderAdjust, OrderDone, OrderReader, OrderFrame DEF Next, Write
<1> QED BY <1>1, OrderInit, RingInvCorrect, AskedCorrect, PTL DEF Spec

\* What AM_TFile_Read delivers is the stream, in order: through every wrap of the ring, every
\* change of subfile and every write in progress, for every size of the ring, of its subfiles
\* and of the reads and writes.
THEOREM OrderCorrect == Spec => []InOrder
<1>1. OrderInv => InOrder
  BY DEF OrderInv
<1> QED BY <1>1, OrderInvCorrect, PTL

============================================================================
