---------------------------- MODULE DisplayProofs ----------------------------
(***************************************************************************)
(* Proofs about what Program shows: the events a replay has played, the    *)
(* exchange of an address, the screen, and what is selected in it.         *)
(***************************************************************************)
EXTENDS ProgramProofs

-----------------------------------------------------------------------------
(* Folds over sequences: of events into their order, of entries to a trie.  *)

SortOne(c, e, s) == InsertAt(s, Cardinality({i \in 1..Len(s) : s[i].at <= e.at}) + 1, e)
TableOne(fam, e, trie) == IF e.fam = fam THEN InsertPrefix(trie, e.bits, e.len, e.info) ELSE trie

PF == INSTANCE FoldTheory WITH Op <- SortOne, Choice <- Highest
TF == INSTANCE FoldTheory WITH Op <- TableOne, Choice <- Highest

LEMMA FoldingThese ==
    /\ PF!Greatest /\ \A k \in Nat : PF!Chooses(1..k)
    /\ TF!Greatest /\ \A k \in Nat : TF!Chooses(1..k)
BY MaxGreatest DEF PF!Greatest, PF!Chooses, TF!Greatest, TF!Chooses

-----------------------------------------------------------------------------
(* A replay.                                                                *)

InOrder(s) == \A i, j \in 1..Len(s) : i <= j => s[i].at <= s[j].at

LEMMA HowMany ==
    ASSUME NEW n \in Nat, NEW s \in SUBSET (1..n)
    PROVE  Cardinality(s) \in 0..n
<1>1. IsFiniteSet(1..n) /\ Cardinality(1..n) = n  BY FS_Interval
<1>2. IsFiniteSet(s) /\ Cardinality(s) <= Cardinality(1..n) /\ Cardinality(s) \in Nat
    BY <1>1, FS_Subset, FS_CardinalityType
<1> QED  BY <1>1, <1>2

\* In an ordered sequence the events up to a time are the first so many.
LEMMA FirstSoMany ==
    ASSUME NEW S, \A e \in S : e.at \in Nat, NEW s \in Seq(S), InOrder(s), NEW at \in Nat
    PROVE  LET m == Cardinality({i \in 1..Len(s) : s[i].at <= at})
           IN  m \in 0..Len(s) /\ \A i \in 1..Len(s) : s[i].at <= at <=> i <= m
<1> DEFINE n == Len(s)
           A == {i \in 1..n : s[i].at <= at}
<1>1. n \in Nat /\ A \in SUBSET (1..n) /\ Cardinality(A) \in 0..n
    <2>1. n \in Nat /\ A \in SUBSET (1..n)  OBVIOUS
    <2> HIDE DEF A, n
    <2> QED  BY <2>1, HowMany
<1> SUFFICES Cardinality(A) \in 0..n /\ \A i \in 1..n : i \in A <=> i <= Cardinality(A)
    OBVIOUS
<1>2. CASE A = {}
    <2>1. Cardinality(A) = 0  BY <1>2, FS_EmptySet
    <2> HIDE DEF A, n
    <2> QED  BY <1>1, <1>2, <2>1
<1>3. CASE A # {}
    <2>1. PICK m \in A : \A i \in A : i <= m
        <3> HIDE DEF A, n
        <3> QED  BY <1>1, <1>3, MaxOfSome
    <2>2. m \in 1..n /\ s[m].at <= at  OBVIOUS
    <2>3. \A i \in 1..n : i <= m => i \in A
        <3> TAKE i \in 1..n
        <3> HAVE i <= m
        <3>1. s[i].at <= s[m].at  BY <2>2 DEF InOrder
        <3>2. s[i] \in S /\ s[m] \in S  BY <2>2
        <3>3. s[i].at \in Nat /\ s[m].at \in Nat  BY <3>2
        <3> QED  BY <2>2, <3>1, <3>3
    <2> HIDE DEF A, n
    <2>4. ASSUME NEW i PROVE i \in A <=> i \in 1..m
        <3>1. i \in A => i \in 1..n /\ i <= m  BY <1>1, <2>1
        <3>2. i \in 1..m => i \in 1..n /\ i <= m  BY <1>1, <2>2
        <3> QED  BY <1>1, <2>2, <2>3, <3>1, <3>2
    <2>5. Cardinality(1..m) = m  BY <1>1, <2>2, FS_Interval
    <2>6. A = 1..m  BY <2>4
    <2>7. \A i \in 1..n : i \in A <=> i <= m  BY <1>1, <2>2, <2>4
    <2> QED  BY <1>1, <2>5, <2>6, <2>7
<1> QED  BY <1>2, <1>3

LEMMA InsertedInOrder ==
    ASSUME NEW S, \A e \in S : e.at \in Nat, NEW s \in Seq(S), InOrder(s), NEW e \in S
    PROVE  SortOne(0, e, s) \in Seq(S) /\ InOrder(SortOne(0, e, s))
<1> DEFINE n == Len(s)
           m == Cardinality({i \in 1..Len(s) : s[i].at <= e.at})
           a == SubSeq(s, 1, m)
           b == SubSeq(s, m + 1, n)
           r == a \o <<e>> \o b
<1>1. n \in Nat /\ m \in 0..n /\ \A i \in 1..n : s[i].at <= e.at <=> i <= m
    <2>1. PICK t \in Nat : t = e.at  OBVIOUS
    <2>2. LET k == Cardinality({i \in 1..Len(s) : s[i].at <= t})
          IN  k \in 0..Len(s) /\ \A i \in 1..Len(s) : s[i].at <= t <=> i <= k
        BY FirstSoMany
    <2> QED  BY <2>1, <2>2
<1>2. SortOne(0, e, s) = r
    <2> HIDE DEF m
    <2>1. (m + 1) - 1 = m  BY <1>1
    <2> QED  BY <2>1, Zenon DEF SortOne, InsertAt, m
<1>3. \A i \in 1..n : s[i] \in S  OBVIOUS
<1> HIDE DEF m, n
<1>4. a \in Seq(S) /\ Len(a) = m /\ \A i \in 1..m : a[i] = s[i]
    <2>1. \A i \in 1..m : s[i] \in S  BY <1>1, <1>3
    <2>2. 1 \in Int /\ m \in Int  BY <1>1
    <2>3. /\ a \in Seq(S) /\ Len(a) = IF 1 <= m THEN m - 1 + 1 ELSE 0
          /\ \A i \in 1..(m - 1 + 1) : a[i] = s[1 + i - 1]
        BY <2>1, <2>2, SubSeqProperties
    <2> HIDE DEF a
    <2> QED  BY <1>1, <2>3
<1>5. b \in Seq(S) /\ Len(b) = n - m /\ \A i \in 1..(n - m) : b[i] = s[m + i]
    <2>1. \A i \in (m + 1)..n : s[i] \in S  BY <1>1, <1>3
    <2>2. m + 1 \in Int /\ n \in Int  BY <1>1
    <2>3. /\ b \in Seq(S) /\ Len(b) = IF m + 1 <= n THEN n - (m + 1) + 1 ELSE 0
          /\ \A i \in 1..(n - (m + 1) + 1) : b[i] = s[(m + 1) + i - 1]
        BY <2>1, <2>2, SubSeqProperties
    <2> HIDE DEF b
    <2> QED  BY <1>1, <2>3
<1> DEFINE c == <<e>>
           ac == a \o c
<1>6. c \in Seq(S) /\ Len(c) = 1 /\ c[1] = e  OBVIOUS
<1> HIDE DEF a, b, c
<1>7. ac \in Seq(S) /\ Len(ac) = m + 1 /\ \A i \in 1..(m + 1) : ac[i] = IF i <= m THEN s[i] ELSE e
    <2>1. /\ ac \in Seq(S) /\ Len(ac) = Len(a) + Len(c)
          /\ \A i \in 1..(Len(a) + Len(c)) : ac[i] = IF i <= Len(a) THEN a[i] ELSE c[i - Len(a)]
        BY <1>4, <1>6, ConcatProperties
    <2>2. Len(a) + Len(c) = m + 1  BY <1>1, <1>4, <1>6
    <2> HIDE DEF ac
    <2>3. ASSUME NEW i \in 1..(m + 1) PROVE ac[i] = IF i <= m THEN s[i] ELSE e
        <3>1. ac[i] = IF i <= m THEN a[i] ELSE c[i - m]  BY <1>4, <2>1, <2>2
        <3>2. CASE i <= m  BY <1>1, <1>4, <3>1, <3>2
        <3>3. CASE ~(i <= m)
            <4>1. i - m = 1  BY <1>1, <3>3
            <4> QED  BY <1>6, <3>1, <3>3, <4>1
        <3> QED  BY <3>2, <3>3
    <2> QED  BY <2>1, <2>2, <2>3
<1>8. r = ac \o b  BY DEF c
<1> HIDE DEF ac, r
<1>9. /\ r \in Seq(S) /\ Len(r) = n + 1
      /\ \A i \in 1..(n + 1) : r[i] = IF i <= m THEN s[i] ELSE IF i = m + 1 THEN e ELSE s[i - 1]
    <2>1. /\ r \in Seq(S) /\ Len(r) = Len(ac) + Len(b)
          /\ \A i \in 1..(Len(ac) + Len(b)) : r[i] = IF i <= Len(ac) THEN ac[i] ELSE b[i - Len(ac)]
        BY <1>5, <1>7, <1>8, ConcatProperties
    <2>2. Len(ac) + Len(b) = n + 1  BY <1>1, <1>5, <1>7
    <2>3. ASSUME NEW i \in 1..(n + 1)
          PROVE  r[i] = IF i <= m THEN s[i] ELSE IF i = m + 1 THEN e ELSE s[i - 1]
        <3>1. CASE i <= m + 1  BY <1>1, <1>7, <2>1, <2>2, <3>1
        <3>2. CASE i > m + 1
            <4>1. r[i] = b[i - (m + 1)]  BY <1>1, <1>7, <2>1, <2>2, <3>2
            <4>2. i - (m + 1) \in 1..(n - m) /\ m + (i - (m + 1)) = i - 1  BY <1>1, <3>2
            <4>3. b[i - (m + 1)] = s[m + (i - (m + 1))]  BY <1>5, <4>2
            <4> QED  BY <1>1, <3>2, <4>1, <4>2, <4>3
        <3> QED  BY <1>1, <3>1, <3>2
    <2> QED  BY <2>1, <2>2, <2>3
<1> DEFINE From(i) == IF i <= m THEN i ELSE i - 1
<1>10. ASSUME NEW i \in 1..(n + 1), i # m + 1
       PROVE  /\ From(i) \in 1..n /\ r[i] = s[From(i)] /\ r[i].at \in Nat
              /\ r[i].at <= e.at <=> i <= m
    <2>1. From(i) \in 1..n /\ r[i] = s[From(i)] /\ (From(i) <= m <=> i <= m)
        BY <1>1, <1>9, <1>10
    <2> HIDE DEF From
    <2>2. s[From(i)] \in S  BY <1>3, <2>1
    <2> QED  BY <1>1, <2>1, <2>2
<1>11. ASSUME NEW i \in 1..(n + 1), NEW j \in 1..(n + 1), i <= j PROVE r[i].at <= r[j].at
    <2>1. e.at \in Nat  OBVIOUS
    <2>2. CASE i = m + 1 /\ j = m + 1  BY <1>1, <1>9, <2>1, <2>2
    <2>3. CASE i = m + 1 /\ j # m + 1
        <3>1. r[i] = e /\ ~(j <= m)  BY <1>1, <1>9, <1>11, <2>3
        <3>2. r[j].at \in Nat /\ ~(r[j].at <= e.at)  BY <1>10, <2>3, <3>1
        <3> QED  BY <2>1, <3>1, <3>2
    <2>4. CASE i # m + 1 /\ j = m + 1
        <3>1. r[j] = e /\ i <= m  BY <1>1, <1>9, <1>11, <2>4
        <3>2. r[i].at <= e.at  BY <1>10, <2>4, <3>1
        <3> QED  BY <3>1, <3>2
    <2>5. CASE i # m + 1 /\ j # m + 1
        <3>1. From(i) \in 1..n /\ From(j) \in 1..n /\ r[i] = s[From(i)] /\ r[j] = s[From(j)]
            BY <1>10, <2>5
        <3>2. From(i) <= From(j)  BY <1>1, <1>11, <2>5
        <3> HIDE DEF From
        <3> QED  BY <3>1, <3>2 DEF InOrder, n
    <2> QED  BY <2>2, <2>3, <2>4, <2>5
<1>12. InOrder(r)  BY <1>9, <1>11 DEF InOrder
<1> QED  BY <1>2, <1>9, <1>12

LEMMA SortedInOrder ==
    ASSUME NEW S, \A e \in S : e.at \in Nat, NEW events \in Seq(S)
    PROVE  SortedByTime(events) \in Seq(S) /\ InOrder(SortedByTime(events))
<1> DEFINE n == Len(events)
           T == [k \in Nat |-> {s \in Seq(S) : InOrder(s)}]
<1>1. n \in Nat /\ DOMAIN events = 1..n  OBVIOUS
<1> HIDE DEF n
<1>2. SortedByTime(events) = PF!Iter(0, events, <<>>, 1..n)[1..n]
    BY <1>1, Zenon DEF SortedByTime, FoldLeft, MapThenFoldSet, PF!Iter, PF!Recursion, PF!Step, SortOne, Highest
<1>3. <<>> \in T[0]
    <2>1. <<>> \in Seq(S) /\ Len(<<>>) = 0  OBVIOUS
    <2>2. InOrder(<<>>)  BY <2>1 DEF InOrder
    <2> QED  BY <2>1, <2>2
<1>4. ASSUME NEW k \in Nat, k < n, NEW s \in T[k] PROVE SortOne(0, events[k + 1], s) \in T[k + 1]
    <2>1. k + 1 \in 1..n  BY <1>1, <1>4
    <2>2. events[k + 1] \in S  BY <1>1, <2>1
    <2>3. s \in Seq(S) /\ InOrder(s) /\ T[k + 1] = {r \in Seq(S) : InOrder(r)}  OBVIOUS
    <2>4. SortOne(0, events[k + 1], s) \in Seq(S) /\ InOrder(SortOne(0, events[k + 1], s))
        BY <2>2, <2>3, InsertedInOrder
    <2> HIDE DEF T
    <2> QED  BY <2>3, <2>4
<1> HIDE DEF T
<1>5. PF!Iter(0, events, <<>>, 1..n)[1..n] \in T[n]
    BY <1>1, <1>3, <1>4, FoldingThese, PF!Keeps
<1> QED  BY <1>1, <1>2, <1>5 DEF T

PlayerFields == {"events", "index", "elapsed", "speed", "paused", "finished", "pausedAt", "shown", "from"}

\* The events of the sessions that can be replayed.
Recorded == UNION {ToSet(p.events) : p \in Profiles}

\* Where a player is: its session shows the events from the last reset on.
Progress(p) ==
    /\ p = [field \in PlayerFields |-> p[field]]
    /\ p.events \in Seq(Recorded) /\ InOrder(p.events)
    /\ p.index \in 0..Len(p.events) /\ p.from \in 0..p.index
    /\ p.shown = SubSeq(p.events, p.from + 1, p.index)
PlayerInv(p) == Progress(p) /\ (p.finished => p.index = Len(p.events))

Near(p, q) == Progress(q) /\ q.index = p.index /\ q.events = p.events

LEMMA ClockKeeps ==
    ASSUME NEW p, Progress(p), NEW v
    PROVE  /\ Near(p, [p EXCEPT !.elapsed = v]) /\ [p EXCEPT !.elapsed = v].finished = p.finished
           /\ Near(p, [p EXCEPT !.speed = v]) /\ [p EXCEPT !.speed = v].finished = p.finished
           /\ Near(p, [p EXCEPT !.paused = v]) /\ [p EXCEPT !.paused = v].finished = p.finished
           /\ Near(p, [p EXCEPT !.pausedAt = v]) /\ [p EXCEPT !.pausedAt = v].finished = p.finished
           /\ Near(p, [p EXCEPT !.finished = v]) /\ [p EXCEPT !.finished = v].finished = v
<1> USE DEF Near, Progress, PlayerFields
<1>1. Near(p, [p EXCEPT !.elapsed = v]) /\ [p EXCEPT !.elapsed = v].finished = p.finished  OBVIOUS
<1>2. Near(p, [p EXCEPT !.speed = v]) /\ [p EXCEPT !.speed = v].finished = p.finished  OBVIOUS
<1>3. Near(p, [p EXCEPT !.paused = v]) /\ [p EXCEPT !.paused = v].finished = p.finished  OBVIOUS
<1>4. Near(p, [p EXCEPT !.pausedAt = v]) /\ [p EXCEPT !.pausedAt = v].finished = p.finished  OBVIOUS
<1>5. Near(p, [p EXCEPT !.finished = v]) /\ [p EXCEPT !.finished = v].finished = v  OBVIOUS
<1> HIDE DEF Near, Progress
<1> QED  BY <1>1, <1>2, <1>3, <1>4, <1>5

LEMMA PlayerNumbers ==
    ASSUME NEW p, Progress(p)
    PROVE  Len(p.events) \in Nat /\ p.index \in 0..Len(p.events) /\ p.index \in Nat
BY DEF Progress

LEMMA FinishedNear ==
    ASSUME NEW p, NEW q, PlayerInv(p), Near(p, q), q.finished = p.finished
    PROVE  PlayerInv(q)
BY DEF PlayerInv, Near

LEMMA PlayedOn ==
    ASSUME NEW p, Progress(p), NEW i \in p.index..Len(p.events)
    PROVE  Progress(PlayTo(p, i)) /\ PlayTo(p, i).index = i /\ PlayTo(p, i).events = p.events
<1> DEFINE E == Recorded
           n == Len(p.events)
           s == p.shown \o SubSeq(p.events, p.index + 1, i)
           q == [p EXCEPT !.index = i, !.shown = s]
<1>1. p.events \in Seq(E) /\ n \in Nat /\ p.index \in 0..n /\ p.from \in 0..p.index
    BY DEF Progress
<1>2. PlayTo(p, i) = q
    BY DEF Progress, PlayerFields, PlayTo
<1>3. s = SubSeq(p.events, p.from + 1, i)
    <2>1. p.shown = SubSeq(p.events, p.from + 1, p.index)  BY DEF Progress
    <2>2. p.from + 1 \in 1..(n + 1) /\ p.index \in ((p.from + 1) - 1)..n /\ i \in p.index..n
        BY <1>1
    <2> HIDE DEF E
    <2> QED  BY <1>1, <2>1, <2>2, ConcatAdjacentSubSeq
<1>4. i \in 0..n /\ p.from \in 0..i  BY <1>1
<1> HIDE DEF s, E, n
<1>5. q.index = i /\ q.shown = s /\ q.events = p.events /\ q.from = p.from /\ q = [field \in PlayerFields |-> q[field]]
    BY DEF Progress, PlayerFields
<1> HIDE DEF q
<1>6. Progress(q)  BY <1>1, <1>3, <1>4, <1>5 DEF Progress, n
<1> QED  BY <1>2, <1>5, <1>6

LEMMA PlayedAnew ==
    ASSUME NEW p, Progress(p), NEW i \in 0..Len(p.events)
    PROVE  Progress(Rebuild(p, i)) /\ Rebuild(p, i).index = i /\ Rebuild(p, i).events = p.events
<1> DEFINE s == SubSeq(p.events, 1, i)
           q == [p EXCEPT !.index = i, !.shown = s, !.from = 0]
<1>1. Rebuild(p, i) = q  BY DEF Rebuild
<1>2. s = SubSeq(p.events, 0 + 1, i) /\ i \in 0..Len(p.events) /\ 0 \in 0..i
    OBVIOUS
<1> HIDE DEF s
<1>3. q.index = i /\ q.shown = s /\ q.events = p.events /\ q.from = 0 /\ q = [field \in PlayerFields |-> q[field]]
    BY DEF Progress, PlayerFields
<1> HIDE DEF q
<1>4. Progress(q)  BY <1>2, <1>3 DEF Progress
<1> QED  BY <1>1, <1>3, <1>4

LEMMA TickKeeps ==
    ASSUME NEW p, PlayerInv(p)
    PROVE  PlayerInv(Tick(p))
<1> DEFINE n == Len(p.events)
           A == {i \in 1..n : p.events[i].at <= Position(p)}
           i == PlayedBy(p)
<1>1. n \in Nat /\ A \in SUBSET (1..n) /\ p.index \in 0..n /\ Progress(p)
    BY PlayerNumbers DEF PlayerInv
<1>2. Cardinality(A) \in 0..n
    <2> HIDE DEF A, n
    <2> QED  BY <1>1, HowMany
<1>3. i = Higher(p.index, Cardinality(A))  BY DEF PlayedBy
<1> HIDE DEF A, i
<1>4. i \in p.index..n  BY <1>1, <1>2, <1>3 DEF Higher
<1> DEFINE q == PlayTo(p, i)
           r == [q EXCEPT !.finished = q.index >= Len(q.events)]
<1>5. Progress(q) /\ q.index = i /\ q.events = p.events  BY <1>1, <1>4, PlayedOn
<1> DEFINE v == q.index >= Len(q.events)
<1> HIDE DEF q
<1>6. Near(q, [q EXCEPT !.finished = v]) /\ [q EXCEPT !.finished = v].finished = v
    <2> HIDE DEF v
    <2> QED  BY <1>5, ClockKeeps
<1>7. PlayerInv(r)
    <2>1. Near(q, r) /\ r.finished = v  BY <1>6
    <2> HIDE DEF r
    <2>2. q.index \in Nat /\ Len(q.events) \in Nat /\ q.index <= Len(q.events)  BY <1>1, <1>4, <1>5
    <2>3. v => q.index = Len(q.events)  BY <2>2
    <2> HIDE DEF v
    <2> QED  BY <2>1, <2>3 DEF PlayerInv, Near
<1>8. Tick(p) \in {p, r}  BY Zenon DEF Tick, q, r, i
<1> QED  BY <1>7, <1>8

LEMMA StoppedKeeps ==
    ASSUME NEW p, Progress(p), NEW ms
    PROVE  PlayerInv(StoppedAt(p, ms))
<1> DEFINE v == p.index >= Len(p.events)
           a == [p EXCEPT !.paused = TRUE]
           b == [a EXCEPT !.pausedAt = ms]
           c == [b EXCEPT !.finished = v]
<1>1. StoppedAt(p, ms) = c  BY DEF StoppedAt, Progress, PlayerFields
<1> HIDE DEF v
<1>2. Near(p, a) /\ Progress(a)  BY ClockKeeps DEF Near
<1> HIDE DEF a
<1>3. Near(a, b) /\ Progress(b)  BY <1>2, ClockKeeps DEF Near
<1> HIDE DEF b
<1>4. Near(b, c) /\ c.finished = v  BY <1>3, ClockKeeps
<1> HIDE DEF c
<1>5. v => p.index = Len(p.events)  BY PlayerNumbers DEF v
<1> QED  BY <1>1, <1>2, <1>3, <1>4, <1>5 DEF PlayerInv, Near

LEMMA SeekKeeps ==
    ASSUME NEW p, PlayerInv(p), NEW to
    PROVE  PlayerInv(SeekTo(p, to))
<1> DEFINE n == Len(p.events)
           ms == Lower(to, Duration(p))
           A == {i \in 1..n : p.events[i].at <= ms}
           i == IndexAt(p, ms)
           q == IF i = p.index THEN p ELSE IF i < p.index THEN Rebuild(p, i) ELSE PlayTo(p, i)
<1>1. n \in Nat /\ p.index \in 0..n /\ p.index \in Nat /\ Progress(p)  BY PlayerNumbers DEF PlayerInv
<1>2. i \in 0..n
    <2>1. A \in SUBSET (1..n)  OBVIOUS
    <2>2. i = 0 \/ i = Cardinality(A)
        <3> HIDE DEF ms
        <3> QED  BY DEF IndexAt
    <2> HIDE DEF A, i, n
    <2>3. Cardinality(A) \in 0..n  BY <1>1, <2>1, HowMany
    <2> QED  BY <1>1, <2>2, <2>3
<1>3. SeekTo(p, to) = StoppedAt(q, ms)  BY Zenon DEF SeekTo
<1> HIDE DEF i, ms
<1>4. Progress(q)
    <2>1. CASE i = p.index  BY <1>1, <2>1
    <2>2. CASE i < p.index
        <3>1. q = Rebuild(p, i)  BY <1>1, <1>2, <2>2
        <3> QED  BY <1>1, <1>2, <3>1, PlayedAnew
    <2>3. CASE i > p.index
        <3>1. q = PlayTo(p, i)  BY <1>1, <1>2, <2>3
        <3>2. i \in p.index..n  BY <1>1, <1>2, <2>3
        <3> QED  BY <1>1, <3>1, <3>2, PlayedOn
    <2> QED  BY <1>1, <1>2, <2>1, <2>2, <2>3
<1> HIDE DEF q
<1> QED  BY <1>3, <1>4, StoppedKeeps

LEMMA SeekToEndKeeps ==
    ASSUME NEW p, PlayerInv(p)
    PROVE  PlayerInv(SeekToEnd(p))
<1> DEFINE n == Len(p.events)
           d == Duration(p)
           q == PlayTo(p, n)
           a == [q EXCEPT !.paused = TRUE]
           b == [a EXCEPT !.pausedAt = d]
           c == [b EXCEPT !.finished = TRUE]
<1>1. n \in Nat /\ p.index \in 0..n /\ p.index \in Nat /\ Progress(p)  BY PlayerNumbers DEF PlayerInv
<1> HIDE DEF d
<1>2. Progress(q) /\ q.index = n /\ q.events = p.events  BY <1>1, PlayedOn
<1>3. SeekToEnd(p) = [q EXCEPT !.paused = TRUE, !.pausedAt = d, !.finished = TRUE]  BY Zenon DEF SeekToEnd, d
<1> HIDE DEF q
<1>4. SeekToEnd(p) = c  BY <1>2, <1>3 DEF Progress, PlayerFields
<1>5. Near(q, a) /\ Progress(a)  BY <1>2, ClockKeeps DEF Near
<1> HIDE DEF a
<1>6. Near(a, b) /\ Progress(b)  BY <1>5, ClockKeeps DEF Near
<1> HIDE DEF b
<1>7. Near(b, c)  BY <1>6, ClockKeeps
<1> HIDE DEF c
<1> QED  BY <1>2, <1>4, <1>5, <1>6, <1>7 DEF PlayerInv, Near

LEMMA RebaseKeeps ==
    ASSUME NEW p, PlayerInv(p), NEW ms
    PROVE  PlayerInv(Rebase(p, ms))
<1> DEFINE v == (ms * 10) \div p.speed
<1>1. Rebase(p, ms) = [p EXCEPT !.elapsed = v]  BY DEF Rebase
<1> HIDE DEF v
<1>2. Near(p, [p EXCEPT !.elapsed = v]) /\ [p EXCEPT !.elapsed = v].finished = p.finished
    BY ClockKeeps DEF PlayerInv
<1> QED  BY <1>1, <1>2, FinishedNear

LEMMA ToggleKeeps ==
    ASSUME NEW p, PlayerInv(p)
    PROVE  PlayerInv(TogglePlayer(p))
<1> DEFINE q == Rebase(p, p.pausedAt)
           d == Position(p)
           a == [p EXCEPT !.pausedAt = d]
           b == [a EXCEPT !.paused = TRUE]
<1>1. CASE p.paused
    <2>1. PlayerInv(q)  BY RebaseKeeps
    <2>2. TogglePlayer(p) = [q EXCEPT !.paused = FALSE]  BY <1>1, Zenon DEF TogglePlayer
    <2> HIDE DEF q
    <2>3. Near(q, [q EXCEPT !.paused = FALSE]) /\ [q EXCEPT !.paused = FALSE].finished = q.finished
        BY <2>1, ClockKeeps DEF PlayerInv
    <2> QED  BY <2>1, <2>2, <2>3, FinishedNear
<1>2. CASE ~p.paused
    <2>1. TogglePlayer(p) = [p EXCEPT !.pausedAt = d, !.paused = TRUE]  BY <1>2, Zenon DEF TogglePlayer
    <2> HIDE DEF d
    <2>2. TogglePlayer(p) = b  BY <2>1 DEF PlayerInv, Progress, PlayerFields
    <2>3. Near(p, a) /\ a.finished = p.finished
        BY ClockKeeps DEF PlayerInv
    <2>4. PlayerInv(a)  BY <2>3, FinishedNear
    <2> HIDE DEF a
    <2>5. Near(a, b) /\ b.finished = a.finished
        BY <2>4, ClockKeeps DEF PlayerInv
    <2> HIDE DEF b
    <2> QED  BY <2>2, <2>4, <2>5, FinishedNear
<1> QED  BY <1>1, <1>2

LEMMA SpeedKeeps ==
    ASSUME NEW p, PlayerInv(p), NEW delta
    PROVE  PlayerInv(AdjustSpeed(p, delta))
<1> DEFINE v == Lower(Higher(p.speed + delta, 1), 10000)
           q == [p EXCEPT !.speed = v]
           ms == Position(p)
<1>1. AdjustSpeed(p, delta) \in {q, Rebase(q, ms)}
    BY DEF AdjustSpeed, PlayerInv, Progress, PlayerFields
<1> HIDE DEF v, ms
<1>2. PlayerInv(q)
    <2>1. Near(p, q) /\ q.finished = p.finished  BY ClockKeeps DEF PlayerInv
    <2> HIDE DEF q
    <2> QED  BY <2>1, FinishedNear
<1> HIDE DEF q
<1>3. PlayerInv(Rebase(q, ms))  BY <1>2, RebaseKeeps
<1> QED  BY <1>1, <1>2, <1>3

LEMMA ResetKeeps ==
    ASSUME NEW p, PlayerInv(p)
    PROVE  PlayerInv(ResetShown(p))
<1> DEFINE q == [p EXCEPT !.shown = <<>>, !.from = p.index]
<1>1. ResetShown(p) = q  BY DEF ResetShown
<1>2. /\ q.index = p.index /\ q.events = p.events /\ q.from = p.index /\ q.shown = <<>>
      /\ q.finished = p.finished /\ q = [field \in PlayerFields |-> q[field]]
    BY DEF PlayerInv, Progress, PlayerFields
<1> HIDE DEF q
<1>3. p.index \in Nat /\ p.index \in 0..Len(p.events)  BY DEF PlayerInv, Progress
<1>4. SubSeq(p.events, p.index + 1, p.index) = <<>>
    <2>1. p.index + 1 \in Int /\ p.index \in Int /\ p.index < p.index + 1  BY <1>3
    <2> QED  BY <2>1, SubSeqEmpty
<1>5. p.index \in 0..p.index  BY <1>3
<1> QED  BY <1>1, <1>2, <1>3, <1>4, <1>5 DEF PlayerInv, Progress

\* The player is touched by a frame, by the clock and by four keys.
LEMMA PlayerFrame ==
    ASSUME Next, rp # None, PlayerInv(rp)
    PROVE  PlayerInv(rp')
<1> USE DEF tuiVars
<1>1. CASE UNCHANGED <<rp, profile>>
    BY <1>1 DEF PlayerInv, Progress
<1> SUFFICES ASSUME TuiStep, profile' = profile PROVE PlayerInv(rp')
    <2>1. CASE LifecycleStep /\ UNCHANGED <<tuiVars, enrichVars>>
        <3>1. profile' = profile
            <4>1. CASE MainStep  BY <4>1, MainFrame
            <4>2. CASE Signal  BY <4>2 DEF Signal
            <4>3. CASE MgrStep  BY <4>3, MgrFrame
            <4>4. CASE \E ip \in DOMAIN engine : EngineStep(ip)  BY <4>4, EngineFrame
            <4>5. CASE \E fam \in Families : ReceiverStep(fam)  BY <4>5, ReceiverFrame
            <4>6. CASE \E k \in DOMAIN worker : WorkerEnds(k)  BY <4>6 DEF WorkerEnds
            <4> QED  BY <2>1, <4>1, <4>2, <4>3, <4>4, <4>5, <4>6 DEF LifecycleStep
        <3> QED  BY <1>1, <2>1, <3>1
    <2>2. CASE TuiStep /\ UNCHANGED enrichVars  BY <2>2, TuiFrame
    <2>3. CASE EnrichStep /\ UNCHANGED tuiVars  BY <1>1, <2>3, EnrichFrame
    <2>4. CASE RefreshKey  BY <1>1, <2>4 DEF RefreshKey, lifecycleVars
    <2>5. CASE Ended  BY <1>1, <2>5 DEF Ended, vars, lifecycleVars
    <2> QED  BY <2>1, <2>2, <2>3, <2>4, <2>5 DEF Next
<1>2. ASSUME NEW q, PlayerInv(q), rp' = q PROVE PlayerInv(rp')
    BY <1>2 DEF PlayerInv, Progress
<1>3. CASE Frame
    <2>1. rp' = Tick(rp)  BY <1>3 DEF Frame, PlayInto
    <2> QED  BY <1>2, <2>1, TickKeeps
<1>4. CASE Close \/ CloseFails  BY <1>1, <1>4 DEF Close, CloseFails
<1>5. CASE \E ms \in profile.times : Pass(ms)
    <2>1. PICK ms : rp' = [rp EXCEPT !.elapsed = @ + ms]  BY <1>5 DEF Pass
    <2> DEFINE v == rp.elapsed + ms
    <2>2. rp' = [rp EXCEPT !.elapsed = v]
        BY <2>1 DEF PlayerInv, Progress, PlayerFields
    <2> HIDE DEF v
    <2>3. Near(rp, [rp EXCEPT !.elapsed = v]) /\ [rp EXCEPT !.elapsed = v].finished = rp.finished
        BY ClockKeeps DEF PlayerInv
    <2>4. PlayerInv([rp EXCEPT !.elapsed = v])  BY <2>3, FinishedNear
    <2> QED  BY <1>2, <2>2, <2>4
<1>6. CASE \E k \in profile.keys : ViewKey(k)  BY <1>1, <1>6 DEF ViewKey
<1>7. CASE \E k \in profile.keys : ReplayKey(k)
    <2>1. PICK k \in DOMAIN Seeks : rp' = Seeks[k]  BY <1>7 DEF ReplayKey, PlayInto
    <2>2. \A delta : PlayerInv(SeekBy(rp, delta))  BY SeekKeeps DEF SeekBy
    <2>3. \A delta : PlayerInv(AdjustSpeed(rp, delta))  BY SpeedKeeps
    <2>4. PlayerInv(SeekTo(rp, 0)) /\ PlayerInv(SeekToEnd(rp))  BY SeekKeeps, SeekToEndKeeps
    <2>5. \/ \E delta : Seeks[k] \in {SeekBy(rp, delta), AdjustSpeed(rp, delta)}
          \/ Seeks[k] \in {SeekTo(rp, 0), SeekToEnd(rp)}
        BY DEF Seeks
    <2>6. PlayerInv(Seeks[k])  BY <2>2, <2>3, <2>4, <2>5
    <2> QED  BY <1>2, <2>1, <2>6
<1>8. CASE PauseKey
    <2>1. rp' = TogglePlayer(rp)  BY <1>8 DEF PauseKey
    <2> QED  BY <1>2, <2>1, ToggleKeeps
<1>9. CASE ResetKey
    <2>1. rp' = ResetShown(rp)  BY <1>9 DEF ResetKey
    <2> QED  BY <1>2, <2>1, ResetKeeps
<1>10. CASE AddKey  BY <1>1, <1>10 DEF AddKey
<1>11. CASE Render  BY <1>1, <1>11 DEF Render, Look, Draw, DrawingUnchanged
<1> QED  BY <1>3, <1>4, <1>5, <1>6, <1>7, <1>8, <1>9, <1>10, <1>11 DEF TuiStep

\* A run that does not replay never begins to.
LEMMA NoPlayer ==
    ASSUME Next, rp = None
    PROVE  rp' = None
<1> USE DEF tuiVars
<1>1. CASE TuiStep
    <2>1. CASE Frame  BY <2>1 DEF Frame, PlayInto
    <2>2. CASE Close \/ CloseFails  BY <2>2 DEF Close, CloseFails
    <2>3. CASE \E ms \in profile.times : Pass(ms)  BY <2>3 DEF Pass
    <2>4. CASE \E k \in profile.keys : ViewKey(k)  BY <2>4 DEF ViewKey
    <2>5. CASE \E k \in profile.keys : ReplayKey(k)  BY <2>5 DEF ReplayKey
    <2>6. CASE PauseKey  BY <2>6 DEF PauseKey
    <2>7. CASE ResetKey  BY <2>7 DEF ResetKey
    <2>8. CASE AddKey  BY <2>8 DEF AddKey
    <2>9. CASE Render  BY <2>9 DEF Render, Look, Draw, DrawingUnchanged
    <2> QED  BY <1>1, <2>1, <2>2, <2>3, <2>4, <2>5, <2>6, <2>7, <2>8, <2>9 DEF TuiStep
<1>2. CASE RefreshKey  BY <1>2 DEF RefreshKey
<1> QED  BY <1>1, <1>2 DEF Next, Ended, vars

ReplayInv == rp # None => PlayerInv(rp)

LEMMA PlayerStarts == ProgramInit => ReplayInv
<1> SUFFICES ASSUME ProgramInit, rp # None PROVE PlayerInv(rp)
    BY DEF ReplayInv
<1>1. rp = NewPlayer(profile.events, Args.speed) /\ profile \in Profiles
    BY DEF ProgramInit, TuiInit, Init
<1> DEFINE S == Recorded
           s == SortedByTime(profile.events)
<1>2. profile.events \in Seq(S) /\ \A e \in S : e.at \in Nat
    BY <1>1, RunsAssumption DEF Recorded
<1>3. s \in Seq(S) /\ InOrder(s)
    <2> HIDE DEF S
    <2> QED  BY <1>2, SortedInOrder
<1>4. NewPlayer(profile.events, Args.speed) =
        [events |-> s, index |-> 0, elapsed |-> 0, speed |-> Args.speed,
         paused |-> FALSE, finished |-> FALSE, pausedAt |-> 0, shown |-> <<>>, from |-> 0]
    BY DEF NewPlayer
<1> HIDE DEF s, S
<1>5. /\ rp.events = s /\ rp.index = 0 /\ rp.shown = <<>> /\ rp.from = 0 /\ rp.finished = FALSE
      /\ rp = [field \in PlayerFields |-> rp[field]]
    BY <1>1, <1>4 DEF PlayerFields
<1>6. SubSeq(s, 0 + 1, 0) = <<>>
    <2>1. SubSeq(s, 1, 0) = <<>>  BY SubSeqEmpty
    <2> QED  BY <2>1
<1>7. 0 \in 0..Len(s) /\ 0 \in 0..0  BY <1>3
<1> QED  BY <1>3, <1>5, <1>6, <1>7 DEF PlayerInv, Progress, S

\* A replay shows the recorded events up to its index, from the last reset on,
\* each once and in the order of time, however often it was paused, sought and
\* sped up; one that is finished has played them all (seek_replay_to,
\* tick_replay, ReplayState::new).
THEOREM ReplayShowsPrefix == Spec => []ReplayIsPrefix
<1>1. ProgramInit => ReplayInv
    BY PlayerStarts
<1>2. ReplayInv /\ [Next]_vars => ReplayInv'
    <2>1. CASE UNCHANGED vars
        <3>1. profile' = profile /\ rp' = rp  BY <2>1 DEF vars, lifecycleVars, tuiVars
        <3> QED  BY <3>1, Zenon DEF ReplayInv, PlayerInv, Progress
    <2> QED  BY <2>1, PlayerFrame, NoPlayer DEF ReplayInv
<1>3. ProgramInit => Started
    BY StartsWithNothing
<1>4. Started /\ [Next]_vars => Started'
    <2>1. CASE Next  BY <2>1, StartedKept
    <2>2. CASE UNCHANGED vars
        BY <2>2 DEF vars, lifecycleVars, mainVars, taskVars, mgrVars, enrichVars, Started, NothingYet,
                    Refused, Args, StartTargets
    <2> QED  BY <2>1, <2>2
<1>5. Started /\ ReplayInv => ReplayIsPrefix
    <2> SUFFICES ASSUME Started, PlayerInv(rp)
                 PROVE  /\ rp.shown = SubSeq(rp.events, rp.from + 1, rp.index)
                        /\ \A i \in 1..(Len(rp.events) - 1) : rp.events[i].at <= rp.events[i + 1].at
                        /\ rp.finished => rp.index = Len(rp.events)
        BY DEF ReplayInv, ReplayIsPrefix
    <2>1. Len(rp.events) \in Nat /\ InOrder(rp.events)  BY DEF PlayerInv, Progress
    <2>2. \A i \in 1..(Len(rp.events) - 1) : rp.events[i].at <= rp.events[i + 1].at
        <3> TAKE i \in 1..(Len(rp.events) - 1)
        <3>1. i \in 1..Len(rp.events) /\ i + 1 \in 1..Len(rp.events) /\ i <= i + 1  BY <2>1
        <3> QED  BY <2>1, <3>1 DEF InOrder
    <2> QED  BY <2>2 DEF PlayerInv, Progress
<1> QED  BY <1>1, <1>2, <1>3, <1>4, <1>5, PTL DEF Spec

-----------------------------------------------------------------------------
(* The tries of the exchange table.                                         *)

Bit == {0, 1}

\* A beginning of a beginning is a beginning.
LEMMA Beginnings ==
    ASSUME NEW B, NEW s \in Seq(B), NEW j \in 0..Len(s)
    PROVE  /\ SubSeq(s, 1, j) \in Seq(B) /\ Len(SubSeq(s, 1, j)) = j
           /\ \A i \in 0..j : SubSeq(SubSeq(s, 1, j), 1, i) = SubSeq(s, 1, i)
<1> DEFINE n == Len(s)
           b == SubSeq(s, 1, j)
<1>1. n \in Nat /\ j \in 0..n /\ j \in Int /\ \A i \in 1..n : s[i] \in B
    OBVIOUS
<1>2. b \in Seq(B) /\ Len(b) = j /\ \A i \in 1..j : b[i] = s[i]
    <2>1. \A i \in 1..j : s[i] \in B  BY <1>1
    <2>2. /\ SubSeq(s, 1, j) \in Seq(B)
          /\ Len(SubSeq(s, 1, j)) = IF 1 <= j THEN j - 1 + 1 ELSE 0
          /\ \A i \in 1..(j - 1 + 1) : SubSeq(s, 1, j)[i] = s[1 + i - 1]
        BY <1>1, <2>1, SubSeqProperties
    <2> QED  BY <1>1, <2>2
<1>3. ASSUME NEW i \in 0..j PROVE SubSeq(b, 1, i) = SubSeq(s, 1, i)
    <2>1. CASE i = 0
        <3>1. SubSeq(b, 1, i) = <<>> /\ SubSeq(s, 1, i) = <<>>  BY <2>1, SubSeqEmpty
        <3> QED  BY <3>1
    <2>2. CASE i # 0
        <3>1. i \in 1..(j - 1 + 1) /\ 1 \in 1..(j - 1 + 1) /\ 1 \in 1..n /\ j \in 1..n  BY <1>1, <2>2
        <3>2. SubSeq(SubSeq(s, 1, j), 1, i) = SubSeq(s, 1 + 1 - 1, 1 + i - 1)
            BY <3>1, SubSeqOfSubSeq
        <3>3. 1 + 1 - 1 = 1 /\ 1 + i - 1 = i  BY <3>1
        <3> QED  BY <3>2, <3>3
    <2> QED  BY <2>1, <2>2
<1> HIDE DEF b
<1>4. \A i \in 0..j : SubSeq(b, 1, i) = SubSeq(s, 1, i)  BY <1>3
<1> QED  BY <1>2, <1>4 DEF b

\* Where the prefix of an entry ends, and whether an entry of a family ends there.
PrefixOf(e) == SubSeq(e.bits, 1, e.len)
EndsAt(es, fam, i, node) == es[i].fam = fam /\ PrefixOf(es[i]) = node
EndsAtFirst(es, fam, i) ==
    es[i].fam = fam /\ \A j \in 1..(i - 1) : ~EndsAt(es, fam, j, PrefixOf(es[i]))

\* A trie holds the ways to the prefixes of the first k entries, and where a
\* prefix ends the info of the first entry that has it.
TrieOf(es, fam, k, trie) ==
    /\ <<>> \in DOMAIN trie
    /\ \A node \in DOMAIN trie : \A j \in 0..Len(node) : SubSeq(node, 1, j) \in DOMAIN trie
    /\ \A node \in DOMAIN trie : trie[node] # None => \E i \in 1..k : EndsAt(es, fam, i, node)
    /\ \A i \in 1..k : es[i].fam = fam => PrefixOf(es[i]) \in DOMAIN trie
    /\ \A i \in 1..k : EndsAtFirst(es, fam, i) => trie[PrefixOf(es[i])] = es[i].info

\* An entry of another family leaves a trie alone.
LEMMA SkippedTrie ==
    ASSUME NEW es, NEW fam, NEW k \in Nat, NEW trie, TrieOf(es, fam, k, trie), es[k + 1].fam # fam
    PROVE  TrieOf(es, fam, k + 1, trie)
<1>1. \A i \in 1..(k + 1) : i \in 1..k \/ i = k + 1  OBVIOUS
<1>2. 1..k \subseteq 1..(k + 1)  OBVIOUS
<1>3. /\ <<>> \in DOMAIN trie
      /\ \A node \in DOMAIN trie : \A j \in 0..Len(node) : SubSeq(node, 1, j) \in DOMAIN trie
    BY DEF TrieOf
<1>4. \A node \in DOMAIN trie : trie[node] # None => \E i \in 1..(k + 1) : EndsAt(es, fam, i, node)
    BY <1>2 DEF TrieOf
<1>5. \A i \in 1..(k + 1) : es[i].fam = fam => PrefixOf(es[i]) \in DOMAIN trie
    BY <1>1 DEF TrieOf
<1>6. \A i \in 1..(k + 1) : EndsAtFirst(es, fam, i) => trie[PrefixOf(es[i])] = es[i].info
    BY <1>1 DEF TrieOf, EndsAtFirst
<1> QED  BY <1>3, <1>4, <1>5, <1>6 DEF TrieOf

\* An entry that ends where one ended before has an earlier one that ends first.
LEMMA SomeEndsFirst ==
    ASSUME NEW es, NEW fam, NEW k \in Nat, NEW node, NEW i \in 1..k, EndsAt(es, fam, i, node)
    PROVE  \E m \in 1..k : EndsAt(es, fam, m, node) /\ EndsAtFirst(es, fam, m)
<1> DEFINE I == {j \in 1..k : EndsAt(es, fam, j, node)}
<1>1. I \in SUBSET Nat /\ I # {}  OBVIOUS
<1>2. PICK m \in I : \A j \in I : m <= j
    <2> HIDE DEF I
    <2> QED  BY <1>1, KF!LeastNat
<1>3. \A j \in 1..(m - 1) : j \in 1..k /\ ~(m <= j)  OBVIOUS
<1>4. \A j \in 1..(m - 1) : ~EndsAt(es, fam, j, node)  BY <1>2, <1>3
<1>5. m \in 1..k /\ EndsAt(es, fam, m, node)  OBVIOUS
<1>6. PrefixOf(es[m]) = node /\ es[m].fam = fam  BY <1>5 DEF EndsAt
<1>7. EndsAtFirst(es, fam, m)  BY <1>4, <1>6 DEF EndsAtFirst
<1> QED  BY <1>5, <1>7

\* A trie with the nodes of some way more, on which the entry's info ends.
Grown(trie, info, after) ==
    /\ \E way \in SUBSET Seq(Bit) : DOMAIN after = DOMAIN trie \cup way
    /\ after = [node \in DOMAIN after |-> after[node]]
    /\ \A node \in DOMAIN after :
        \/ node \in DOMAIN trie /\ after[node] = trie[node]
        \/ after[node] \in {info, None}

LEMMA InsertedTrie ==
    ASSUME NEW es, NEW fam, NEW k \in Nat, NEW trie, TrieOf(es, fam, k, trie),
           \A i \in 1..k : es[i].info # None,
           NEW bits \in Seq(Bit), NEW len \in 0..Len(bits), NEW info, info # None,
           es[k + 1].fam = fam, es[k + 1].bits = bits, es[k + 1].len = len, es[k + 1].info = info,
           NEW after, after = InsertPrefix(trie, bits, len, info)
    PROVE  TrieOf(es, fam, k + 1, after) /\ Grown(trie, info, after)
<1> DEFINE way  == {SubSeq(bits, 1, i) : i \in 0..len}
           last == SubSeq(bits, 1, len)
           D    == DOMAIN trie \cup way
           At(node) == IF node \in DOMAIN trie /\ (trie[node] # None \/ node # last) THEN trie[node]
                       ELSE IF node = last THEN info ELSE None
           t    == [node \in D |-> At(node)]
<1>1. after = t
    BY DEF InsertPrefix
<1>2. /\ Len(bits) \in Nat /\ len \in Nat
      /\ \A i \in 0..len : i \in 0..Len(bits)
    OBVIOUS
<1>3. way \in SUBSET Seq(Bit)
    BY <1>2, Beginnings
<1>4. last \in way /\ <<>> \in DOMAIN trie
    <2>1. len \in 0..len  BY <1>2
    <2>2. last \in way  BY <2>1
    <2> QED  BY <2>2 DEF TrieOf
<1>5. ASSUME NEW node \in way, NEW j \in 0..Len(node) PROVE SubSeq(node, 1, j) \in way
    <2>1. PICK i \in 0..len : node = SubSeq(bits, 1, i)  OBVIOUS
    <2>2. /\ Len(SubSeq(bits, 1, i)) = i
          /\ \A l \in 0..i : SubSeq(SubSeq(bits, 1, i), 1, l) = SubSeq(bits, 1, l)
        BY <1>2, Beginnings
    <2>3. j \in 0..i /\ j \in 0..len  BY <2>1, <2>2
    <2>4. SubSeq(node, 1, j) = SubSeq(bits, 1, j)  BY <2>1, <2>2, <2>3
    <2> QED  BY <2>3, <2>4
<1>6. PrefixOf(es[k + 1]) = last
    BY DEF PrefixOf
<1>7. \A i \in 1..(k + 1) : i \in 1..k \/ i = k + 1  OBVIOUS
<1>8. k + 1 \in 1..(k + 1) /\ 1..k \subseteq 1..(k + 1) /\ (k + 1) - 1 = k  OBVIOUS
<1>9. DOMAIN t = D /\ \A node \in D : t[node] = At(node)
    OBVIOUS
<1> HIDE DEF way, last, t
<1>10. <<>> \in D /\ last \in D
    BY <1>4
<1>11. \A node \in D : \A j \in 0..Len(node) : SubSeq(node, 1, j) \in D
    BY <1>5 DEF TrieOf
<1>12. ASSUME NEW node \in D, At(node) # None PROVE \E i \in 1..(k + 1) : EndsAt(es, fam, i, node)
    <2>1. CASE node = last
        BY <1>6, <1>8, <2>1 DEF EndsAt
    <2>2. CASE node # last
        <3>1. node \in DOMAIN trie /\ trie[node] # None  BY <1>12, <2>2
        <3>2. \E i \in 1..k : EndsAt(es, fam, i, node)  BY <3>1 DEF TrieOf
        <3> QED  BY <1>8, <3>2
    <2> QED  BY <2>1, <2>2
<1>13. ASSUME NEW i \in 1..(k + 1), es[i].fam = fam PROVE PrefixOf(es[i]) \in D
    <2>1. CASE i \in 1..k  BY <1>13, <2>1 DEF TrieOf
    <2>2. CASE i = k + 1  BY <1>6, <1>10, <2>2
    <2> QED  BY <1>7, <2>1, <2>2
<1>14. ASSUME NEW i \in 1..(k + 1), EndsAtFirst(es, fam, i) PROVE At(PrefixOf(es[i])) = es[i].info
    <2>1. es[i].fam = fam  BY <1>14 DEF EndsAtFirst
    <2>2. CASE i \in 1..k
        <3>1. PrefixOf(es[i]) \in DOMAIN trie /\ trie[PrefixOf(es[i])] = es[i].info
            BY <1>14, <2>1, <2>2 DEF TrieOf
        <3>2. es[i].info # None  BY <2>2
        <3> QED  BY <3>1, <3>2
    <2>3. CASE i = k + 1
        <3>1. \A j \in 1..k : ~EndsAt(es, fam, j, last)
            BY <1>6, <1>8, <1>14, <2>3 DEF EndsAtFirst
        <3>2. last \in DOMAIN trie => trie[last] = None
            BY <3>1 DEF TrieOf
        <3> QED  BY <1>6, <2>3, <3>2
    <2> QED  BY <1>7, <2>2, <2>3
<1>15. TrieOf(es, fam, k + 1, t)
    <2>1. \A node \in DOMAIN t : t[node] # None => \E i \in 1..(k + 1) : EndsAt(es, fam, i, node)
        BY <1>9, <1>12
    <2>2. \A i \in 1..(k + 1) : EndsAtFirst(es, fam, i) => t[PrefixOf(es[i])] = es[i].info
        <3> TAKE i \in 1..(k + 1)
        <3> HAVE EndsAtFirst(es, fam, i)
        <3>1. PrefixOf(es[i]) \in D  BY <1>13 DEF EndsAtFirst
        <3>2. At(PrefixOf(es[i])) = es[i].info  BY <1>14
        <3> QED  BY <1>9, <3>1, <3>2
    <2> HIDE DEF D, At
    <2> QED  BY <1>9, <1>10, <1>11, <1>13, <2>1, <2>2 DEF TrieOf
<1>16. t = [node \in DOMAIN t |-> t[node]]
    BY DEF t
<1>17. \A node \in DOMAIN t :
            \/ node \in DOMAIN trie /\ t[node] = trie[node]
            \/ t[node] \in {info, None}
    BY <1>9
<1> HIDE DEF At
<1>18. \E w \in SUBSET Seq(Bit) : DOMAIN t = DOMAIN trie \cup w
    BY <1>3, <1>9
<1> HIDE DEF D
<1>19. Grown(trie, info, t)  BY <1>16, <1>17, <1>18 DEF Grown
<1> QED  BY <1>1, <1>15, <1>19

\* The tries with nodes of bits, and the infos of the entries.
Infos(es) == {es[i].info : i \in 1..Len(es)} \cup {None}
Tries(es) == UNION {[D -> Infos(es)] : D \in SUBSET Seq(Bit)}

LEMMA TableTries ==
    ASSUME NEW es, es \in Seq(ToSet(es)), \A e \in ToSet(es) : Listed(e), NEW fam \in Families
    PROVE  Table(es)[fam] \in Tries(es) /\ TrieOf(es, fam, Len(es), Table(es)[fam])
<1> DEFINE n == Len(es)
           T == [k \in Nat |-> {t \in Tries(es) : TrieOf(es, fam, k, t)}]
<1>1. n \in Nat /\ DOMAIN es = 1..n  OBVIOUS
<1>2. ASSUME NEW i \in 1..n
      PROVE  es[i].bits \in Seq(Bit) /\ es[i].len \in 0..Len(es[i].bits) /\ es[i].info # None
             /\ es[i].info \in Infos(es)
    <2>1. es[i] \in ToSet(es)  BY <1>1 DEF ToSet
    <2>2. es[i].info \in Infos(es)  BY <1>1 DEF Infos
    <2> QED  BY <2>1, <2>2 DEF Listed, Bit
<1> HIDE DEF n
<1>3. Table(es)[fam] = TF!Iter(fam, es, Root, 1..n)[1..n]
    BY <1>1, Zenon DEF Table, FoldLeft, MapThenFoldSet, TF!Iter, TF!Recursion, TF!Step, TableOne, Highest
<1>4. Root \in T[0]
    <2>1. DOMAIN Root = {<<>>} /\ Root[<<>>] = None  BY DEF Root
    <2>2. \A j \in 0..0 : SubSeq(<<>>, 1, j) = <<>>
        <3>1. SubSeq(<<>>, 1, 0) = <<>>  BY SubSeqEmpty
        <3> QED  BY <3>1
    <2>3. Len(<<>>) = 0 /\ 1..0 = {} /\ {<<>>} \in SUBSET Seq(Bit)  OBVIOUS
    <2>4. TrieOf(es, fam, 0, Root)  BY <2>1, <2>2, <2>3 DEF TrieOf
    <2>5. Root \in [{<<>>} -> Infos(es)]  BY DEF Root, Infos
    <2>6. Root \in Tries(es)  BY <2>3, <2>5 DEF Tries
    <2> QED  BY <2>4, <2>6
<1>5. ASSUME NEW k \in Nat, k < n, NEW t \in T[k] PROVE TableOne(fam, es[k + 1], t) \in T[k + 1]
    <2>1. k + 1 \in 1..n /\ 1..k \subseteq 1..n  BY <1>1, <1>5
    <2>2. t \in Tries(es) /\ TrieOf(es, fam, k, t)  OBVIOUS
    <2>3. T[k + 1] = {r \in Tries(es) : TrieOf(es, fam, k + 1, r)}  OBVIOUS
    <2> HIDE DEF T
    <2>4. CASE es[k + 1].fam # fam
        BY <2>2, <2>3, <2>4, SkippedTrie DEF TableOne
    <2>5. CASE es[k + 1].fam = fam
        <3>1. PICK bits, len, info : bits = es[k + 1].bits /\ len = es[k + 1].len /\ info = es[k + 1].info
            OBVIOUS
        <3>2. /\ bits \in Seq(Bit) /\ len \in 0..Len(bits) /\ info # None /\ info \in Infos(es)
              /\ \A i \in 1..k : es[i].info # None
            BY <1>2, <2>1, <3>1
        <3>3. PICK r : r = InsertPrefix(t, bits, len, info)  OBVIOUS
        <3>4. TrieOf(es, fam, k + 1, r) /\ Grown(t, info, r)
            <4>1. /\ es[k + 1].fam = fam /\ es[k + 1].bits = bits
                  /\ es[k + 1].len = len /\ es[k + 1].info = info
                BY <2>5, <3>1
            <4>2. bits \in Seq(Bit) /\ len \in 0..Len(bits) /\ info # None  BY <3>2
            <4>3. \A i \in 1..k : es[i].info # None  BY <3>2
            <4>4. TrieOf(es, fam, k, t)  BY <2>2
            <4> QED  BY <3>3, <4>1, <4>2, <4>3, <4>4, InsertedTrie
        <3>5. DOMAIN t \in SUBSET Seq(Bit) /\ \A node \in DOMAIN t : t[node] \in Infos(es)
            BY <2>2 DEF Tries
        <3>6. DOMAIN r \in SUBSET Seq(Bit)  BY <3>4, <3>5 DEF Grown
        <3>7. \A node \in DOMAIN r : r[node] \in Infos(es)
            <4>1. None \in Infos(es)  BY DEF Infos
            <4> QED  BY <3>2, <3>4, <3>5, <4>1 DEF Grown
        <3>8. r \in [DOMAIN r -> Infos(es)]  BY <3>4, <3>7 DEF Grown
        <3>9. r \in Tries(es)  BY <3>6, <3>8 DEF Tries
        <3>10. TableOne(fam, es[k + 1], t) = r  BY <2>5, <3>1, <3>3 DEF TableOne
        <3> QED  BY <2>3, <3>4, <3>9, <3>10
    <2> QED  BY <2>4, <2>5
<1> HIDE DEF T
<1>6. TF!Iter(fam, es, Root, 1..n)[1..n] \in T[n]
    BY <1>1, <1>4, <1>5, FoldingThese, TF!Keeps
<1> QED  BY <1>1, <1>3, <1>6 DEF T, n

\* The walk along the bits of an address ends at the deepest node on them.
LEMMA WalkEnds ==
    ASSUME NEW trie, NEW bits \in Seq(Bit), <<>> \in DOMAIN trie,
           \A node \in DOMAIN trie : \A j \in 0..Len(node) : SubSeq(node, 1, j) \in DOMAIN trie
    PROVE  /\ WalkDepth(trie, bits) \in 0..Len(bits)
           /\ \A i \in 0..Len(bits) : i <= WalkDepth(trie, bits) <=> SubSeq(bits, 1, i) \in DOMAIN trie
<1> DEFINE n == Len(bits)
           Way(i) == SubSeq(bits, 1, i)
           Deepest(i) ==
                /\ \A j \in 0..i : Way(j) \in DOMAIN trie
                /\ i < n => Way(i + 1) \notin DOMAIN trie
<1>1. n \in Nat  OBVIOUS
<1>2. ASSUME NEW i \in 0..n, Way(i) \in DOMAIN trie, NEW j \in 0..i PROVE Way(j) \in DOMAIN trie
    <2>1. Len(Way(i)) = i /\ \A l \in 0..i : SubSeq(Way(i), 1, l) = Way(l)
        BY <1>1, Beginnings
    <2> HIDE DEF Way
    <2> QED  BY <1>2, <2>1
<1>3. Way(0) = <<>>
    BY SubSeqEmpty
<1> HIDE DEF n
<1>4. PICK m \in 0..n : Deepest(m)
    <2> DEFINE Off == {k \in Nat : k >= 1 /\ k <= n /\ Way(k) \notin DOMAIN trie}
    <2> HIDE DEF Way
    <2>1. CASE Off = {}
        <3>1. \A j \in 0..n : j = 0 \/ (j \in Nat /\ j >= 1 /\ j <= n)  BY <1>1
        <3>2. \A j \in 0..n : Way(j) \in DOMAIN trie  BY <1>3, <2>1, <3>1
        <3>3. n \in 0..n /\ ~(n < n)  BY <1>1
        <3> QED  BY <3>2, <3>3
    <2>2. CASE Off # {}
        <3>1. PICK k \in Off : \A j \in Off : k <= j
            <4>1. Off \in SUBSET Nat  OBVIOUS
            <4> HIDE DEF Off
            <4> QED  BY <2>2, <4>1, KF!LeastNat
        <3>2. k \in Nat /\ k >= 1 /\ k <= n /\ Way(k) \notin DOMAIN trie  OBVIOUS
        <3>3. k - 1 \in 0..n /\ (k - 1) + 1 = k  BY <1>1, <3>2
        <3>4. ASSUME NEW j \in 0..(k - 1) PROVE Way(j) \in DOMAIN trie
            <4>1. j = 0 \/ (j \in Nat /\ j >= 1 /\ j <= n /\ ~(k <= j))  BY <1>1, <3>2
            <4> QED  BY <1>3, <3>1, <4>1
        <3>5. \A j \in 0..(k - 1) : Way(j) \in DOMAIN trie  BY <3>4
        <3> HIDE DEF Off
        <3>6. Deepest(k - 1)  BY <3>2, <3>3, <3>5
        <3> QED  BY <3>3, <3>6
    <2> QED  BY <2>1, <2>2
<1> DEFINE w == WalkDepth(trie, bits)
<1>5. w \in 0..n /\ Deepest(w)
    <2>1. w = CHOOSE i \in 0..n : Deepest(i)
        BY Zenon DEF WalkDepth, n
    <2> HIDE DEF Deepest, w
    <2> QED  BY <1>4, <2>1
<1> HIDE DEF w, Way
<1>6. ASSUME NEW i \in 0..n PROVE i <= w <=> Way(i) \in DOMAIN trie
    <2>1. CASE i <= w
        <3>1. i \in 0..w  BY <1>1, <1>5, <2>1
        <3> QED  BY <1>5, <2>1, <3>1
    <2>2. CASE ~(i <= w)
        <3>1. w < n /\ w + 1 \in 0..i  BY <1>1, <1>5, <2>2
        <3>2. Way(w + 1) \notin DOMAIN trie  BY <1>5, <3>1
        <3>3. Way(i) \notin DOMAIN trie  BY <1>2, <3>1, <3>2
        <3> QED  BY <2>2, <3>3
    <2> QED  BY <2>1, <2>2
<1> QED  BY <1>5, <1>6 DEF n, w, Way

LEMMA ExchangeIsBest ==
    ASSUME NEW es, es \in Seq(ToSet(es)), \A e \in ToSet(es) : Listed(e),
           NEW addr \in DOMAIN Bits, Bits[addr] \in Seq(Bit)
    PROVE  ExchangeOf(Table(es), addr) = Best(es, addr)
<1> DEFINE fam  == Family(addr)
           bits == Bits[addr]
           n    == Len(es)
           Way(i) == SubSeq(bits, 1, i)
<1>1. fam \in Families  BY DEF Family, Families
<1>2. n \in Nat /\ Len(bits) \in Nat /\ DOMAIN es = 1..n  OBVIOUS
<1>3. PICK trie : trie = Table(es)[fam]  OBVIOUS
<1>4. TrieOf(es, fam, n, trie)
    <2> HIDE DEF fam
    <2> QED  BY <1>1, <1>3, TableTries
<1>5. ASSUME NEW i \in 1..n
      PROVE  /\ es[i].bits \in Seq(Bit) /\ es[i].len \in 0..Len(es[i].bits) /\ es[i].info # None
             /\ es[i].fam = fam => Len(bits) = Len(es[i].bits)
    <2>1. es[i] \in ToSet(es)  BY <1>2 DEF ToSet
    <2> QED  BY <2>1 DEF Listed, Bit
<1>6. \A i \in 0..Len(bits) : Len(Way(i)) = i
    BY <1>2, Beginnings
<1>7. ASSUME NEW i \in 1..n, es[i].fam = fam
      PROVE  es[i].len \in 0..Len(bits) /\ Len(PrefixOf(es[i])) = es[i].len
    <2>1. es[i].bits \in Seq(Bit) /\ es[i].len \in 0..Len(es[i].bits) /\ Len(bits) = Len(es[i].bits)
        BY <1>5, <1>7
    <2> QED  BY <2>1, Beginnings DEF PrefixOf
<1> HIDE DEF fam, bits, n
<1> DEFINE held == {i \in 1..n : EndsAt(es, fam, i, Way(es[i].len))}
           passed == {i \in 0..Len(bits) : Way(i) \in DOMAIN trie /\ trie[Way(i)] # None}
<1>8. Best(es, addr) =
        IF held = {} THEN None
        ELSE es[CHOOSE i \in held : \A j \in held :
                es[j].len < es[i].len \/ (es[j].len = es[i].len /\ i <= j)].info
    BY DEF Best, Holds, EndsAt, PrefixOf, n, fam, bits
<1>9. InfosPassed(trie, bits) = passed
    <2>1. /\ WalkDepth(trie, bits) \in 0..Len(bits)
          /\ \A i \in 0..Len(bits) : i <= WalkDepth(trie, bits) <=> Way(i) \in DOMAIN trie
        <3>1. bits \in Seq(Bit)  BY DEF bits
        <3> QED  BY <1>4, <3>1, WalkEnds DEF TrieOf
    <2> HIDE DEF Way
    <2>2. \A i : i \in 0..WalkDepth(trie, bits) <=> i \in 0..Len(bits) /\ Way(i) \in DOMAIN trie
        BY <1>2, <2>1
    <2>3. InfosPassed(trie, bits) = {i \in 0..WalkDepth(trie, bits) : trie[Way(i)] # None}
        BY DEF InfosPassed, Way
    <2> QED  BY <2>2, <2>3
<1>10. ExchangeOf(Table(es), addr) =
        IF passed = {} THEN None ELSE trie[Way(LastInfo(passed))]
    BY <1>3, <1>9 DEF ExchangeOf, LookupPrefix, fam, bits
<1>11. ASSUME NEW i \in 1..n, NEW l \in 0..Len(bits), EndsAt(es, fam, i, Way(l))
       PROVE  es[i].len = l /\ i \in held /\ l \in passed
    <2>1. es[i].fam = fam /\ PrefixOf(es[i]) = Way(l)  BY <1>11 DEF EndsAt
    <2>2. es[i].len = l  BY <1>6, <1>7, <2>1
    <2>3. PICK m \in 1..n : EndsAt(es, fam, m, Way(l)) /\ EndsAtFirst(es, fam, m)
        BY <1>2, <1>11, SomeEndsFirst
    <2>4. PrefixOf(es[m]) = Way(l) /\ es[m].fam = fam /\ es[m].info # None
        BY <1>5, <2>3 DEF EndsAt
    <2>5. Way(l) \in DOMAIN trie /\ trie[Way(l)] = es[m].info
        BY <1>4, <2>3, <2>4 DEF TrieOf
    <2> QED  BY <1>11, <2>2, <2>4, <2>5
<1>12. ASSUME NEW l \in passed
       PROVE  \E i \in held : EndsAt(es, fam, i, Way(l)) /\ es[i].len = l
    <2>1. l \in 0..Len(bits) /\ Way(l) \in DOMAIN trie /\ trie[Way(l)] # None  OBVIOUS
    <2>2. PICK i \in 1..n : EndsAt(es, fam, i, Way(l))  BY <1>4, <2>1 DEF TrieOf
    <2> QED  BY <1>11, <2>1, <2>2
<1>13. ASSUME NEW i \in held PROVE es[i].len \in passed /\ EndsAt(es, fam, i, Way(es[i].len))
    <2>1. i \in 1..n /\ EndsAt(es, fam, i, Way(es[i].len)) /\ es[i].fam = fam  BY DEF EndsAt
    <2>2. es[i].len \in 0..Len(bits)  BY <1>7, <2>1
    <2> QED  BY <1>11, <2>1, <2>2
<1>14. passed \in SUBSET (0..Len(bits)) /\ held \in SUBSET (1..n)  OBVIOUS
<1> HIDE DEF held, passed, Way
<1>15. CASE passed = {}
    <2>1. held = {}  BY <1>13, <1>15
    <2> QED  BY <1>8, <1>10, <1>15, <2>1
<1>16. CASE passed # {}
    <2> DEFINE L == LastInfo(passed)
               Longest(i) == \A j \in held : es[j].len < es[i].len \/ (es[j].len = es[i].len /\ i <= j)
    <2>1. L \in passed /\ \A j \in passed : j <= L
        <3> DEFINE T == {Len(bits) - x : x \in passed}
        <3>1. T \in SUBSET Nat /\ T # {}
            <4>1. \A x \in passed : Len(bits) - x \in Nat  BY <1>2, <1>14
            <4> QED  BY <1>16, <4>1
        <3>2. PICK k \in T : \A y \in T : k <= y
            <4> HIDE DEF T
            <4> QED  BY <3>1, KF!LeastNat
        <3>3. PICK m \in passed : k = Len(bits) - m  OBVIOUS
        <3>4. \A x \in passed : x <= m
            <4> TAKE x \in passed
            <4>1. Len(bits) - m <= Len(bits) - x  BY <3>2, <3>3
            <4> QED  BY <1>2, <1>14, <4>1
        <3> QED  BY <3>4 DEF LastInfo
    <2>2. L \in 0..Len(bits)  BY <1>14, <2>1
    <2> HIDE DEF L
    <2>3. PICK m \in held : Longest(m)
        <3> DEFINE I == {i \in held : es[i].len = L}
        <3>1. I # {} /\ I \in SUBSET Nat
            <4>1. \E i \in held : es[i].len = L  BY <1>12, <2>1
            <4>2. \A i \in held : i \in Nat  BY <1>2, <1>14
            <4> QED  BY <4>1, <4>2
        <3>2. PICK m \in I : \A j \in I : m <= j
            <4> HIDE DEF I
            <4> QED  BY <3>1, KF!LeastNat
        <3>3. ASSUME NEW j \in held PROVE es[j].len < L \/ (es[j].len = L /\ m <= j)
            <4>1. es[j].len \in passed  BY <1>13
            <4>2. es[j].len \in 0..Len(bits) /\ es[j].len <= L  BY <1>14, <2>1, <4>1
            <4>3. es[j].len < L \/ es[j].len = L  BY <2>2, <4>2
            <4> QED  BY <3>2, <4>3
        <3>4. m \in held /\ es[m].len = L  OBVIOUS
        <3> HIDE DEF I
        <3> QED  BY <3>3, <3>4
    <2> DEFINE c == CHOOSE i \in held : Longest(i)
    <2>4. c \in held /\ Longest(c)
        <3> HIDE DEF Longest
        <3> QED  BY <2>3
    <2>5. Best(es, addr) = es[c].info
        <3>1. held # {}  BY <2>3
        <3> QED  BY <1>8, <3>1
    <2> HIDE DEF c
    <2>6. es[c].len = L
        <3>1. PICK i \in held : es[i].len = L  BY <1>12, <2>1
        <3>2. es[c].len \in passed  BY <1>13, <2>4
        <3>3. es[c].len \in Int /\ L \in Int /\ es[c].len <= L  BY <1>14, <2>1, <2>2, <3>2
        <3>4. L < es[c].len \/ L = es[c].len  BY <2>4, <3>1
        <3> QED  BY <3>3, <3>4
    <2>7. c \in 1..n /\ EndsAt(es, fam, c, Way(L))  BY <1>13, <1>14, <2>4, <2>6
    <2>8. es[c].fam = fam /\ PrefixOf(es[c]) = Way(L)  BY <2>7 DEF EndsAt
    <2>9. EndsAtFirst(es, fam, c)
        <3>1. ASSUME NEW j \in 1..(c - 1), EndsAt(es, fam, j, Way(L)) PROVE FALSE
            <4>1. j \in 1..n /\ ~(c <= j)  BY <1>2, <2>7
            <4>2. j \in held /\ es[j].len = L  BY <1>11, <2>2, <3>1, <4>1
            <4>3. L < L \/ c <= j  BY <2>4, <2>6, <4>2
            <4> QED  BY <2>2, <4>1, <4>3
        <3> QED  BY <2>8, <3>1 DEF EndsAtFirst
    <2>10. trie[Way(L)] = es[c].info  BY <1>4, <2>7, <2>8, <2>9 DEF TrieOf
    <2> QED  BY <1>10, <1>16, <2>5, <2>10 DEF L
<1> QED  BY <1>15, <1>16

\* Whatever prefixes are listed, in whatever order and how often, the exchange of
\* every address is that of the longest that holds it, the first listed of these
\* (PrefixTrie insert and lookup).
THEOREM ExchangeIsLongestMatch == Spec => []LongestMatch
<1>1. ASSUME Started PROVE LongestMatch
    <2> SUFFICES ASSUME NEW addr \in DOMAIN Bits
                 PROVE  ExchangeOf(Table(profile.published), addr) = Best(profile.published, addr)
        BY DEF LongestMatch
    <2>1. PICK es : es = profile.published  OBVIOUS
    <2>2. es \in Seq(ToSet(es)) /\ \A e \in ToSet(es) : Listed(e)
        BY <1>1, <2>1, TablesAssumption DEF Started
    <2>3. Bits[addr] \in Seq(Bit)  BY TablesAssumption DEF Bit
    <2> QED  BY <2>1, <2>2, <2>3, ExchangeIsBest
<1>2. ProgramInit => Started
    BY StartsWithNothing
<1>3. Started /\ [Next]_vars => Started'
    <2>1. CASE Next  BY <2>1, StartedKept
    <2>2. CASE UNCHANGED vars
        BY <2>2 DEF vars, lifecycleVars, mainVars, taskVars, mgrVars, enrichVars, Started, NothingYet,
                    Refused, Args, StartTargets
    <2> QED  BY <2>1, <2>2
<1> QED  BY <1>1, <1>2, <1>3, PTL DEF Spec

-----------------------------------------------------------------------------
(* The screen.                                                              *)

UiFields == {"targets", "selected", "hop", "paused", "overlay", "listIndex", "theme", "display", "settings",
             "input", "update", "step", "left", "nextId"}
UiRecord(u) ==
    /\ u = [field \in UiFields |-> u[field]]
    /\ u.overlay \in {"none", "help", "input", "settings", "detail", "list"}

\* A replay has one target, and no list of them to choose from.
OneTarget(u) == Len(u.targets) = 1 /\ u.selected = 0 /\ u.overlay # "list"

\* The targets stay as they are, and so does the selected one if it is alone.
SameTargets(u, v) == UiRecord(v) /\ v.targets = u.targets /\ (OneTarget(u) => OneTarget(v))

LEMMA DetailKeeps ==
    ASSUME NEW u, UiRecord(u), NEW k
    PROVE  SameTargets(u, InDetail(u, k))
BY DEF InDetail, SameTargets, UiRecord, UiFields, OneTarget

\* Changes of what is shown of the targets.
LEMMA FieldsKeep ==
    ASSUME NEW u, UiRecord(u), NEW v, NEW w
    PROVE  /\ SameTargets(u, u)
           /\ SameTargets(u, [u EXCEPT !.hop = v])
           /\ SameTargets(u, [u EXCEPT !.listIndex = v])
           /\ SameTargets(u, [u EXCEPT !.update = v])
           /\ SameTargets(u, [u EXCEPT !.settings = v])
           /\ SameTargets(u, [u EXCEPT !.settings = v, !.theme = w])
           /\ SameTargets(u, [u EXCEPT !.theme = v, !.settings = w])
           /\ SameTargets(u, [u EXCEPT !.settings = v, !.display = w])
           /\ SameTargets(u, [u EXCEPT !.display = v, !.settings = w])
           /\ SameTargets(u, [u EXCEPT !.theme = v, !.display = w, !.overlay = "none"])
           /\ \A x \in {"none", "help", "settings", "input", "detail"} :
                /\ SameTargets(u, [u EXCEPT !.overlay = x])
                /\ SameTargets(u, [u EXCEPT !.overlay = x, !.settings = v])
                /\ SameTargets(u, [u EXCEPT !.overlay = x, !.input = v])
           /\ Len(u.targets) # 1 =>
                /\ SameTargets(u, [u EXCEPT !.overlay = "list", !.listIndex = v])
                /\ SameTargets(u, [u EXCEPT !.selected = v, !.hop = w])
<1> USE DEF SameTargets, UiRecord, UiFields, OneTarget
<1>1. /\ SameTargets(u, u)
      /\ SameTargets(u, [u EXCEPT !.hop = v])
      /\ SameTargets(u, [u EXCEPT !.listIndex = v])
      /\ SameTargets(u, [u EXCEPT !.update = v])
      /\ SameTargets(u, [u EXCEPT !.settings = v])
    OBVIOUS
<1>2. /\ SameTargets(u, [u EXCEPT !.settings = v, !.theme = w])
      /\ SameTargets(u, [u EXCEPT !.theme = v, !.settings = w])
    OBVIOUS
<1>3. /\ SameTargets(u, [u EXCEPT !.settings = v, !.display = w])
      /\ SameTargets(u, [u EXCEPT !.display = v, !.settings = w])
    OBVIOUS
<1>4. SameTargets(u, [u EXCEPT !.theme = v, !.display = w, !.overlay = "none"])
    OBVIOUS
<1>5. \A x \in {"none", "help", "settings", "input", "detail"} :
        SameTargets(u, [u EXCEPT !.overlay = x])
    OBVIOUS
<1>6. \A x \in {"none", "help", "settings", "input", "detail"} :
        SameTargets(u, [u EXCEPT !.overlay = x, !.settings = v])
    OBVIOUS
<1>7. \A x \in {"none", "help", "settings", "input", "detail"} :
        SameTargets(u, [u EXCEPT !.overlay = x, !.input = v])
    OBVIOUS
<1>8. Len(u.targets) # 1 =>
        /\ SameTargets(u, [u EXCEPT !.overlay = "list", !.listIndex = v])
        /\ SameTargets(u, [u EXCEPT !.selected = v, !.hop = w])
    OBVIOUS
<1> HIDE DEF SameTargets
<1> QED  BY <1>1, <1>2, <1>3, <1>4, <1>5, <1>6, <1>7, <1>8

LEMMA ListKeeps ==
    ASSUME NEW u, UiRecord(u), u.overlay = "list", NEW k
    PROVE  SameTargets(u, InList(u, k))
<1>1. ASSUME NEW w, UiRecord(w), w.targets = u.targets, NEW i
      PROVE  SameTargets(u, SelectFromList(w, i))
    <2> DEFINE v == [w EXCEPT !.selected = i, !.hop = None, !.overlay = "none"]
    <2>1. UiRecord(v) /\ v.targets = u.targets  BY <1>1 DEF UiRecord, UiFields
    <2> HIDE DEF v
    <2>2. \A p : LET x == [v EXCEPT !.paused = p] IN UiRecord(x) /\ x.targets = u.targets
        BY <2>1 DEF UiRecord, UiFields
    <2>3. SelectFromList(w, i) = [v EXCEPT !.paused = PausedAt(v)]  BY Zenon DEF SelectFromList, v
    <2> QED  BY <2>2, <2>3 DEF SameTargets, OneTarget
<1>2. \A v : LET w == [u EXCEPT !.listIndex = v] IN UiRecord(w) /\ w.targets = u.targets
    BY DEF UiRecord, UiFields
<1>3. SameTargets(u, SelectFromList([u EXCEPT !.listIndex = 1], 1))  BY <1>1, <1>2
<1>4. SameTargets(u, SelectFromList(u, u.listIndex))  BY <1>1
<1>5. SameTargets(u, [u EXCEPT !.listIndex = IF @ > 0 THEN @ - 1 ELSE Len(u.targets) - 1])
    <2> DEFINE v == IF u.listIndex > 0 THEN u.listIndex - 1 ELSE Len(u.targets) - 1
    <2>1. SameTargets(u, [u EXCEPT !.listIndex = v])  BY FieldsKeep
    <2> QED  BY <2>1 DEF UiRecord, UiFields
<1>6. SameTargets(u, [u EXCEPT !.listIndex = Wrap(@ + 1, Len(u.targets))])
    <2> DEFINE v == Wrap(u.listIndex + 1, Len(u.targets))
    <2>1. SameTargets(u, [u EXCEPT !.listIndex = v])  BY FieldsKeep
    <2> HIDE DEF Wrap
    <2> QED  BY <2>1 DEF UiRecord, UiFields
<1>7. SameTargets(u, u) /\ SameTargets(u, [u EXCEPT !.overlay = "none"])
    BY FieldsKeep
<1> QED  BY <1>3, <1>4, <1>5, <1>6, <1>7, Zenon DEF InList

LEMMA SettingsKeep ==
    ASSUME NEW u, UiRecord(u), NEW k
    PROVE  SameTargets(u, InSettings(u, k))
<1> USE DEF UiRecord, UiFields
<1>1. SameTargets(u, ApplySettings(u))  BY FieldsKeep DEF ApplySettings
<1>2. \A v : SameTargets(u, [u EXCEPT !.settings = v])  BY FieldsKeep
<1>3. \A v : SameTargets(u, [u EXCEPT !.settings.section = v])
    <2> TAKE v
    <2>1. [u EXCEPT !.settings.section = v] = [u EXCEPT !.settings = [u.settings EXCEPT !.section = v]]  OBVIOUS
    <2> QED  BY <1>2, <2>1
<1>4. \A v : SameTargets(u, [u EXCEPT !.settings.key = v])
    <2> TAKE v
    <2>1. [u EXCEPT !.settings.key = v] = [u EXCEPT !.settings = [u.settings EXCEPT !.key = v]]  OBVIOUS
    <2> QED  BY <1>2, <2>1
<1>5. \A i : SameTargets(u, MoveTheme(u, i))
    <2> TAKE i
    <2> DEFINE v == [u.settings EXCEPT !.theme = i]
    <2>1. [u EXCEPT !.settings.theme = i, !.theme = i] = [u EXCEPT !.settings = v, !.theme = i]  OBVIOUS
    <2> HIDE DEF v
    <2>2. SameTargets(u, u) /\ SameTargets(u, [u EXCEPT !.settings = v, !.theme = i])  BY FieldsKeep
    <2> QED  BY <2>1, <2>2 DEF MoveTheme
<1>6. SameTargets(u, [u EXCEPT !.settings.section = Wrap(@ + 1, Sections)])
    <2>1. [u EXCEPT !.settings.section = Wrap(@ + 1, Sections)] = [u EXCEPT !.settings.section = Wrap(u.settings.section + 1, Sections)]
        OBVIOUS
    <2> QED  BY <1>3, <2>1
<1>7. SameTargets(u, [u EXCEPT !.settings.check = ~@])
    <2>1. [u EXCEPT !.settings.check = ~@] = [u EXCEPT !.settings = [u.settings EXCEPT !.check = ~u.settings.check]]  OBVIOUS
    <2> QED  BY <1>2, <2>1
<1>8. SameTargets(u, [u EXCEPT !.settings.display = Wrap(@ + 1, 3), !.display = Wrap(u.settings.display + 1, 3)])
    <2> DEFINE w == Wrap(u.settings.display + 1, 3)
               v == [u.settings EXCEPT !.display = w]
    <2>1. [u EXCEPT !.settings.display = Wrap(@ + 1, 3), !.display = w] = [u EXCEPT !.settings = v, !.display = w]  OBVIOUS
    <2> HIDE DEF v, w
    <2>2. SameTargets(u, [u EXCEPT !.settings = v, !.display = w])  BY FieldsKeep
    <2> QED  BY <2>1, <2>2 DEF w
<1>9. SameTargets(u, u)  BY FieldsKeep
<1> HIDE DEF UiRecord
<1> QED  BY <1>1, <1>3, <1>4, <1>5, <1>6, <1>7, <1>8, <1>9, Zenon DEF InSettings

LEMMA InputKeeps ==
    ASSUME NEW u, UiRecord(u), NEW k, NEW v \in InInput(u, k)
    PROVE  SameTargets(u, v)
BY DEF InInput, SameTargets, UiRecord, UiFields, OneTarget

LEMMA MainKeeps ==
    ASSUME NEW u, UiRecord(u), NEW k
    PROVE  SameTargets(u, InMain(u, k))
<1> USE DEF UiRecord, UiFields
<1> DEFINE n == Len(u.targets)
           hops == HopCount(u)
<1>1. \A v : SameTargets(u, [u EXCEPT !.hop = v])  BY FieldsKeep
<1>2. ASSUME NEW i, n > 1 PROVE SameTargets(u, SwitchTo(u, i))
    <2> DEFINE v == [u EXCEPT !.selected = i, !.hop = None]
    <2>1. UiRecord(v) /\ v.targets = u.targets  OBVIOUS
    <2> HIDE DEF v
    <2>2. \A p : LET x == [v EXCEPT !.paused = p] IN UiRecord(x) /\ x.targets = u.targets
        BY <2>1
    <2>3. SwitchTo(u, i) = [v EXCEPT !.paused = PausedAt(v)]  BY Zenon DEF SwitchTo, v
    <2>4. n # 1
        <3> HIDE DEF n
        <3> QED  BY <1>2
    <2>5. ~OneTarget(u)  BY <2>4 DEF OneTarget
    <2> HIDE DEF UiRecord
    <2>6. UiRecord(SwitchTo(u, i)) /\ SwitchTo(u, i).targets = u.targets  BY <2>2, <2>3, Zenon
    <2> QED  BY <2>5, <2>6 DEF SameTargets
<1>3. SameTargets(u, [u EXCEPT !.theme = Wrap(@ + 1, NumThemes), !.settings.theme = Wrap(u.theme + 1, NumThemes)])
    <2> DEFINE v == Wrap(u.theme + 1, NumThemes)
               w == [u.settings EXCEPT !.theme = v]
    <2>1. [u EXCEPT !.theme = Wrap(@ + 1, NumThemes), !.settings.theme = v] = [u EXCEPT !.theme = v, !.settings = w]
        OBVIOUS
    <2> HIDE DEF v, w
    <2>2. SameTargets(u, [u EXCEPT !.theme = v, !.settings = w])  BY FieldsKeep
    <2> QED  BY <2>1, <2>2 DEF v
<1>4. SameTargets(u, [u EXCEPT !.display = Wrap(@ + 1, 3), !.settings.display = Wrap(u.display + 1, 3)])
    <2> DEFINE v == Wrap(u.display + 1, 3)
               w == [u.settings EXCEPT !.display = v]
    <2>1. [u EXCEPT !.display = Wrap(@ + 1, 3), !.settings.display = v] = [u EXCEPT !.display = v, !.settings = w]
        OBVIOUS
    <2> HIDE DEF v, w
    <2>2. SameTargets(u, [u EXCEPT !.display = v, !.settings = w])  BY FieldsKeep
    <2> QED  BY <2>1, <2>2 DEF v
<1>5. SameTargets(u, [u EXCEPT !.overlay = "settings",
                        !.settings = [NewSettings(u.theme, u.display, @.key) EXCEPT !.check = u.settings.check]])
    <2> DEFINE v == [NewSettings(u.theme, u.display, u.settings.key) EXCEPT !.check = u.settings.check]
    <2>1. [u EXCEPT !.overlay = "settings",
              !.settings = [NewSettings(u.theme, u.display, @.key) EXCEPT !.check = u.settings.check]]
            = [u EXCEPT !.overlay = "settings", !.settings = v]
        OBVIOUS
    <2> HIDE DEF v
    <2>2. SameTargets(u, [u EXCEPT !.overlay = "settings", !.settings = v])  BY FieldsKeep
    <2> QED  BY <2>1, <2>2
<1>6. /\ SameTargets(u, [u EXCEPT !.overlay = "help"]) /\ SameTargets(u, [u EXCEPT !.overlay = "detail"])
      /\ SameTargets(u, [u EXCEPT !.overlay = "input", !.input = NoInput])
      /\ SameTargets(u, [u EXCEPT !.update = "none"]) /\ SameTargets(u, u)
    BY FieldsKeep
<1>7. n > 1 => SameTargets(u, [u EXCEPT !.overlay = "list", !.listIndex = u.selected])
    <2>1. n > 1 => n # 1
        <3> HIDE DEF n
        <3> QED  OBVIOUS
    <2> QED  BY <2>1, FieldsKeep
<1>8. SameTargets(u, [u EXCEPT !.hop = IF @ = None \/ @ = 0 THEN hops - 1 ELSE @ - 1])
    <2>1. [u EXCEPT !.hop = IF @ = None \/ @ = 0 THEN hops - 1 ELSE @ - 1]
            = [u EXCEPT !.hop = IF u.hop = None \/ u.hop = 0 THEN hops - 1 ELSE u.hop - 1]
        <3> HIDE DEF hops
        <3> QED  OBVIOUS
    <2> QED  BY <1>1, <2>1
<1>9. SameTargets(u, [u EXCEPT !.hop = IF @ = None \/ @ >= hops - 1 THEN 0 ELSE @ + 1])
    <2>1. [u EXCEPT !.hop = IF @ = None \/ @ >= hops - 1 THEN 0 ELSE @ + 1]
            = [u EXCEPT !.hop = IF u.hop = None \/ u.hop >= hops - 1 THEN 0 ELSE u.hop + 1]
        <3> HIDE DEF hops
        <3> QED  OBVIOUS
    <2> QED  BY <1>1, <2>1
<1> HIDE DEF UiRecord
<1> QED  BY <1>1, <1>2, <1>3, <1>4, <1>5, <1>6, <1>7, <1>8, <1>9, Zenon DEF InMain

LEMMA ViewsKeep ==
    ASSUME NEW u, UiRecord(u), NEW k, NEW v \in Views(u, k)
    PROVE  SameTargets(u, v)
<1>1. SameTargets(u, [u EXCEPT !.overlay = "none"])  BY FieldsKeep
<1>2. /\ u.overlay = "help" => v = [u EXCEPT !.overlay = "none"]
      /\ u.overlay = "input" => v \in InInput(u, k)
      /\ u.overlay = "settings" => v = InSettings(u, k)
      /\ u.overlay = "detail" => v = InDetail(u, k)
      /\ u.overlay = "list" => v = InList(u, k)
      /\ u.overlay = "none" => v = InMain(u, k)
    BY DEF Views
<1>3. u.overlay \in {"none", "help", "input", "settings", "detail", "list"}
    BY DEF UiRecord
<1> QED  BY <1>1, <1>2, <1>3, DetailKeeps, ListKeeps, SettingsKeep, InputKeeps, MainKeeps

\* The place of a player stays the same.
Rests(p, q) == q.index = p.index /\ q.shown = p.shown

LEMMA ClockRests ==
    ASSUME NEW p, Progress(p), NEW v
    PROVE  /\ Rests(p, p)
           /\ Rests(p, [p EXCEPT !.elapsed = v]) /\ Rests(p, [p EXCEPT !.speed = v])
           /\ Rests(p, [p EXCEPT !.finished = v])
           /\ Rests(p, [p EXCEPT !.pausedAt = v, !.paused = TRUE]) /\ Rests(p, [p EXCEPT !.paused = FALSE])
BY DEF Progress, PlayerFields, Rests

\* A tick plays on, unless the player is paused.
LEMMA TickMoves ==
    ASSUME NEW p, PlayerInv(p)
    PROVE  /\ p.paused => Tick(p) = p
           /\ Rests(p, Tick(p)) \/ Tick(p).index > p.index
<1> DEFINE n == Len(p.events)
           A == {i \in 1..n : p.events[i].at <= Position(p)}
           i == PlayedBy(p)
           q == PlayTo(p, i)
           r == [q EXCEPT !.finished = q.index >= Len(q.events)]
<1>1. n \in Nat /\ A \in SUBSET (1..n) /\ p.index \in 0..n /\ Progress(p)
    BY PlayerNumbers DEF PlayerInv
<1>2. Cardinality(A) \in 0..n
    <2> HIDE DEF A, n
    <2> QED  BY <1>1, HowMany
<1>3. i = Higher(p.index, Cardinality(A))  BY DEF PlayedBy
<1>4. Tick(p) \in {p, r}  BY Zenon DEF Tick, q, r, i
<1> HIDE DEF A, i
<1>5. i \in p.index..n  BY <1>1, <1>2, <1>3 DEF Higher
<1>6. Progress(q) /\ q.index = i /\ q.events = p.events  BY <1>1, <1>5, PlayedOn
<1>7. q.from = p.from  BY <1>1 DEF Progress, PlayerFields, PlayTo
<1>8. p.shown = SubSeq(p.events, p.from + 1, p.index) /\ q.shown = SubSeq(q.events, q.from + 1, q.index)
    BY <1>1, <1>6 DEF Progress
<1> DEFINE v == q.index >= Len(q.events)
<1> HIDE DEF q
<1>9. Rests(q, r)
    <2>1. Rests(q, [q EXCEPT !.finished = v])
        <3> HIDE DEF v
        <3> QED  BY <1>6, ClockRests
    <2> QED  BY <2>1
<1> HIDE DEF r
<1>10. r.index = i /\ (i = p.index => r.shown = p.shown)
    BY <1>6, <1>7, <1>8, <1>9 DEF Rests
<1>11. p.paused => Tick(p) = p  BY Zenon DEF Tick
<1> QED  BY <1>1, <1>4, <1>5, <1>10, <1>11 DEF Rests

LEMMA StoppedRests ==
    ASSUME NEW p, Progress(p), NEW ms
    PROVE  Rests(p, StoppedAt(p, ms)) /\ StoppedAt(p, ms).paused
BY DEF Progress, PlayerFields, Rests, StoppedAt

\* A seek goes on, or back and pauses.
Seeked(p, q) == Rests(p, q) \/ q.index > p.index \/ (q.index < p.index /\ q.paused)

LEMMA SeekMoves ==
    ASSUME NEW p, PlayerInv(p), NEW to
    PROVE  Seeked(p, SeekTo(p, to))
<1> DEFINE n == Len(p.events)
           ms == Lower(to, Duration(p))
           A == {i \in 1..n : p.events[i].at <= ms}
           i == IndexAt(p, ms)
           q == IF i = p.index THEN p ELSE IF i < p.index THEN Rebuild(p, i) ELSE PlayTo(p, i)
<1>1. n \in Nat /\ p.index \in 0..n /\ p.index \in Nat /\ Progress(p)  BY PlayerNumbers DEF PlayerInv
<1>2. i \in 0..n
    <2>1. A \in SUBSET (1..n)  OBVIOUS
    <2>2. i = 0 \/ i = Cardinality(A)
        <3> HIDE DEF ms
        <3> QED  BY DEF IndexAt
    <2> HIDE DEF A, i, n
    <2>3. Cardinality(A) \in 0..n  BY <1>1, <2>1, HowMany
    <2> QED  BY <1>1, <2>2, <2>3
<1>3. SeekTo(p, to) = StoppedAt(q, ms)  BY Zenon DEF SeekTo
<1> HIDE DEF i, ms
<1>4. Progress(q) /\ (i = p.index => q = p) /\ (i # p.index => q.index = i)
    <2>1. CASE i = p.index  BY <1>1, <2>1
    <2>2. CASE i < p.index
        <3>1. q = Rebuild(p, i)  BY <1>1, <1>2, <2>2
        <3> QED  BY <1>1, <1>2, <2>2, <3>1, PlayedAnew
    <2>3. CASE i > p.index
        <3>1. q = PlayTo(p, i)  BY <1>1, <1>2, <2>3
        <3>2. i \in p.index..n  BY <1>1, <1>2, <2>3
        <3> QED  BY <1>1, <2>3, <3>1, <3>2, PlayedOn
    <2> QED  BY <1>1, <1>2, <2>1, <2>2, <2>3
<1> HIDE DEF q
<1>5. Rests(q, SeekTo(p, to)) /\ SeekTo(p, to).paused  BY <1>3, <1>4, StoppedRests
<1> QED  BY <1>1, <1>2, <1>4, <1>5 DEF Seeked, Rests

LEMMA SeekToEndMoves ==
    ASSUME NEW p, PlayerInv(p)
    PROVE  Seeked(p, SeekToEnd(p))
<1> DEFINE n == Len(p.events)
           d == Duration(p)
           q == PlayTo(p, n)
           e == SeekToEnd(p)
<1>1. n \in Nat /\ p.index \in 0..n /\ p.index \in Nat /\ Progress(p)  BY PlayerNumbers DEF PlayerInv
<1> HIDE DEF d
<1>2. Progress(q) /\ q.index = n /\ q.events = p.events  BY <1>1, PlayedOn
<1>3. q.from = p.from  BY <1>1 DEF Progress, PlayerFields, PlayTo
<1>4. p.shown = SubSeq(p.events, p.from + 1, p.index) /\ q.shown = SubSeq(q.events, q.from + 1, q.index)
    BY <1>1, <1>2 DEF Progress
<1>5. e = [q EXCEPT !.paused = TRUE, !.pausedAt = d, !.finished = TRUE]  BY Zenon DEF SeekToEnd, d
<1> HIDE DEF q, e
<1>6. Rests(q, e)  BY <1>2, <1>5 DEF Progress, PlayerFields, Rests
<1>7. e.index = n /\ (n = p.index => e.shown = p.shown)
    BY <1>2, <1>3, <1>4, <1>6 DEF Rests
<1> HIDE DEF n
<1> QED  BY <1>1, <1>7 DEF Seeked, Rests, e

LEMMA RebaseRests ==
    ASSUME NEW p, PlayerInv(p), NEW ms
    PROVE  Rests(p, Rebase(p, ms)) /\ PlayerInv(Rebase(p, ms))
<1> DEFINE v == (ms * 10) \div p.speed
<1>1. Rebase(p, ms) = [p EXCEPT !.elapsed = v]  BY DEF Rebase
<1> HIDE DEF v
<1>2. Rests(p, [p EXCEPT !.elapsed = v])  BY ClockRests DEF PlayerInv
<1>3. PlayerInv(Rebase(p, ms))  BY RebaseKeeps
<1> QED  BY <1>1, <1>2, <1>3, Zenon

LEMMA ToggleRests ==
    ASSUME NEW p, PlayerInv(p)
    PROVE  Rests(p, TogglePlayer(p))
<1> DEFINE q == Rebase(p, p.pausedAt)
           d == Position(p)
<1>1. Rests(p, q) /\ PlayerInv(q)  BY RebaseRests
<1>2. TogglePlayer(p) = IF p.paused THEN [q EXCEPT !.paused = FALSE] ELSE [p EXCEPT !.pausedAt = d, !.paused = TRUE]
    BY Zenon DEF TogglePlayer
<1> HIDE DEF q, d
<1>3. Rests(q, [q EXCEPT !.paused = FALSE])  BY <1>1, ClockRests DEF PlayerInv
<1>4. Rests(p, [p EXCEPT !.pausedAt = d, !.paused = TRUE])  BY ClockRests DEF PlayerInv
<1> QED  BY <1>1, <1>2, <1>3, <1>4 DEF Rests

LEMMA SpeedRests ==
    ASSUME NEW p, PlayerInv(p), NEW delta
    PROVE  Rests(p, AdjustSpeed(p, delta))
<1> DEFINE v == Lower(Higher(p.speed + delta, 1), 10000)
           q == [p EXCEPT !.speed = v]
           ms == Position(p)
<1>1. AdjustSpeed(p, delta) \in {q, Rebase(q, ms)}
    BY DEF AdjustSpeed, PlayerInv, Progress, PlayerFields
<1> HIDE DEF v, ms
<1>2. Rests(p, q)  BY ClockRests DEF PlayerInv
<1>3. PlayerInv(q)
    <2>1. Near(p, q) /\ q.finished = p.finished  BY ClockKeeps DEF PlayerInv
    <2> HIDE DEF q
    <2> QED  BY <2>1, FinishedNear
<1> HIDE DEF q
<1>4. Rests(q, Rebase(q, ms))  BY <1>3, RebaseRests
<1> QED  BY <1>1, <1>2, <1>4 DEF Rests

\* A session that shows something else is of a later generation.
Renews(s, t) == t.gen \in Nat /\ (t.gen > s.gen \/ (t.gen = s.gen /\ Shown(t) = Shown(s)))

Numbered == \A ip \in DOMAIN sessions : sessions[ip].gen \in Nat
SessionsRenew ==
    \A ip \in DOMAIN sessions : ip \in DOMAIN sessions' /\ Renews(sessions[ip], sessions'[ip])
\* The sessions that come to be are numbered too.
NewNumbered == \A ip \in DOMAIN sessions' \ DOMAIN sessions : sessions'[ip].gen \in Nat

\* Every write begins a new generation.
LEMMA WrittenRenews ==
    ASSUME NEW s, s.gen \in Nat, NEW t, "gen" \in DOMAIN t, t.gen = s.gen
    PROVE  Written(t).gen = s.gen + 1 /\ Renews(s, Written(t)) /\ Renews(s, s)
BY DEF Written, Renews

LEMMA ChangedGen ==
    ASSUME NEW s, SessionShape(s), NEW v, NEW e
    PROVE  /\ "gen" \in DOMAIN s
           /\ \A field \in {"paused", "sent", "seen", "labels", "log"} :
                "gen" \in DOMAIN [s EXCEPT ![field] = v] /\ [s EXCEPT ![field] = v].gen = s.gen
           /\ "gen" \in DOMAIN Sent(s, v) /\ Sent(s, v).gen = s.gen
           /\ "gen" \in DOMAIN Record(s, e) /\ Record(s, e).gen = s.gen
           /\ "gen" \in DOMAIN Record(Seen(s, v), e) /\ Record(Seen(s, v), e).gen = s.gen
<1> USE DEF SessionShape, Fields
<1>1. "gen" \in DOMAIN s /\ \A field \in {"paused", "sent", "seen", "labels", "log"} :
        "gen" \in DOMAIN [s EXCEPT ![field] = v] /\ [s EXCEPT ![field] = v].gen = s.gen
    OBVIOUS
<1>2. "gen" \in DOMAIN Sent(s, v) /\ Sent(s, v).gen = s.gen  BY DEF Sent
<1>3. \A t : "gen" \in DOMAIN t => "gen" \in DOMAIN Record(t, e) /\ Record(t, e).gen = t.gen
    BY DEF Record
<1>4. "gen" \in DOMAIN Seen(s, v) /\ Seen(s, v).gen = s.gen  BY DEF Seen
<1> QED  BY <1>1, <1>2, <1>3, <1>4

LEMMA ResetRenews ==
    ASSUME NEW s, s.gen \in Nat
    PROVE  ResetStats(s).gen = s.gen + 1
<1> DEFINE n == NewSession(s.flows)
           t == [n EXCEPT !.paused = s.paused, !.gen = s.gen]
<1>1. "gen" \in DOMAIN n  BY DEF NewSession
<1> HIDE DEF n
<1>2. "gen" \in DOMAIN t /\ t.gen = s.gen  BY <1>1
<1>3. ResetStats(s) = Written(t)  BY Zenon DEF ResetStats, n
<1> HIDE DEF t
<1> QED  BY <1>2, <1>3, WrittenRenews

LEMMA StaysRenewed ==
    ASSUME NEW s, s.gen \in Nat
    PROVE  Renews(s, s)
BY DEF Renews

LEMMA SameRenew ==
    ASSUME Numbered, UNCHANGED sessions
    PROVE  SessionsRenew /\ NewNumbered
BY StaysRenewed DEF Numbered, SessionsRenew, NewNumbered

LEMMA OneRenews ==
    ASSUME Numbered, NEW addr, NEW t,
           addr \in DOMAIN sessions => Renews(sessions[addr], t),
           sessions' = [sessions EXCEPT ![addr] = t]
    PROVE  SessionsRenew /\ NewNumbered
<1>1. DOMAIN sessions' = DOMAIN sessions  OBVIOUS
<1>2. ASSUME NEW ip \in DOMAIN sessions PROVE Renews(sessions[ip], sessions'[ip])
    <2>1. Renews(sessions[ip], sessions[ip])  BY StaysRenewed DEF Numbered
    <2> QED  BY <2>1
<1> QED  BY <1>1, <1>2 DEF SessionsRenew, NewNumbered

LEMMA DrainRenews ==
    ASSUME SessionsShape, Numbered, Drain
    PROVE  SessionsRenew /\ NewNumbered
<1>1. DOMAIN sessions' = DOMAIN sessions  BY DEF Drain
<1>2. ASSUME NEW ip \in DOMAIN sessions PROVE Renews(sessions[ip], sessions'[ip])
    <2>1. SessionShape(sessions[ip]) /\ sessions[ip].gen \in Nat  BY DEF SessionsShape, Numbered
    <2>2. sessions'[ip] = sessions[ip] \/ sessions'[ip] = Written([sessions[ip] EXCEPT !.log = <<>>])
        BY DEF Drain
    <2> QED  BY <2>1, <2>2, ChangedGen, WrittenRenews, StaysRenewed
<1> QED  BY <1>1, <1>2 DEF SessionsRenew, NewNumbered

\* The sessions a run starts with, and those of targets that are added.
LEMMA NewAreNumbered ==
    ASSUME Numbered, Started, BootReplay \/ BootTracing \/ MgrInserts
    PROVE  SessionsRenew /\ NewNumbered
<1>1. \A flows : NewSession(flows).gen = 0  BY DEF NewSession
<1>2. CASE BootReplay
    <2> DEFINE s == IF profile.events = <<>> THEN SavedSession ELSE NewSession(Cfg.flows)
    <2>1. s.gen = 0
        <3>1. SavedSession.gen = 0  BY DEF SavedSession, NewSession
        <3> QED  BY <1>1, <3>1
    <2>2. DOMAIN sessions = {}  BY <1>2 DEF Started, BootReplay, NothingYet
    <2>3. sessions' = Inserted(sessions, profile.recorded, s)  BY <1>2 DEF BootReplay
    <2> HIDE DEF s
    <2> QED  BY <2>1, <2>2, <2>3 DEF SessionsRenew, NewNumbered, Inserted
<1>3. CASE BootTracing
    <2>1. stage = "boot"  BY <1>3 DEF BootTracing
    <2>2. sessions = <<>>  BY <2>1 DEF Started, NothingYet
    <2>3. \E S, flowsOf : sessions' = [ip \in S |-> NewSession(flowsOf[ip])]
        <3> DEFINE ips == StartTargets
        <3>1. PICK works \in [ToSet(ips) -> BOOLEAN] :
                sessions' = [ip \in ToSet(ips) |-> NewSession(StartFlows(ips, works).flowsOf[ip])]
            BY <1>3, Zenon DEF BootTracing
        <3> QED  BY <3>1, Zenon
    <2>4. PICK S, flowsOf : sessions' = [ip \in S |-> NewSession(flowsOf[ip])]  BY <2>3
    <2> QED  BY <1>1, <2>2, <2>4 DEF SessionsRenew, NewNumbered
<1>4. CASE MgrInserts
    <2>1. PICK ip, flows : ip \notin DOMAIN sessions /\ sessions' = Inserted(sessions, ip, NewSession(flows))
        BY <1>4 DEF MgrInserts
    <2> DEFINE s == NewSession(flows)
    <2>2. s.gen = 0  BY <1>1
    <2> HIDE DEF s
    <2>3. DOMAIN sessions' = DOMAIN sessions \cup {ip} /\ sessions'[ip] = s
          /\ \A a \in DOMAIN sessions : sessions'[a] = sessions[a]
        BY <2>1 DEF Inserted, s
    <2> QED  BY <2>2, <2>3, StaysRenewed DEF Numbered, SessionsRenew, NewNumbered
<1> QED  BY <1>2, <1>3, <1>4

\* A player that is set back makes its session anew.
SetsBack ==
    /\ rp # None /\ rp'.index < rp.index /\ rp'.paused
    /\ \E k \in profile.keys : ReplayKey(k)

LEMMA SeeksMove ==
    ASSUME rp # None, PlayerInv(rp), NEW k \in DOMAIN Seeks
    PROVE  Seeked(rp, Seeks[k])
<1>1. \A delta : Seeked(rp, SeekBy(rp, delta))  BY SeekMoves DEF SeekBy
<1>2. Seeked(rp, SeekTo(rp, 0))  BY SeekMoves
<1>3. Seeked(rp, SeekToEnd(rp))  BY SeekToEndMoves
<1>4. \A delta : Seeked(rp, AdjustSpeed(rp, delta))  BY SpeedRests DEF Seeked
<1>5. \/ \E delta : Seeks[k] = SeekBy(rp, delta)
      \/ Seeks[k] = SeekTo(rp, 0)
      \/ Seeks[k] = SeekToEnd(rp)
      \/ \E delta : Seeks[k] = AdjustSpeed(rp, delta)
    BY DEF Seeks
<1> QED  BY <1>1, <1>2, <1>3, <1>4, <1>5

\* What the interface does to a player.
LEMMA PlayerSteps ==
    ASSUME TuiStep, rp # None, PlayerInv(rp)
    PROVE  \/ Rests(rp, rp') /\ ~ResetKey
           \/ rp'.index > rp.index
           \/ SetsBack
           \/ ResetKey /\ rp'.index = rp.index
<1> USE DEF tuiVars
<1>1. Progress(rp) /\ rp.index \in Nat  BY PlayerNumbers DEF PlayerInv
<1>2. ASSUME ResetKey PROVE rp'.index = rp.index
    <2>1. rp' = ResetShown(rp)  BY <1>2 DEF ResetKey
    <2> QED  BY <1>1, <2>1 DEF ResetShown, Progress, PlayerFields
<1>3. CASE UNCHANGED rp  BY <1>2, <1>3 DEF Rests
<1>4. CASE Frame
    <2>1. rp' = Tick(rp)  BY <1>4 DEF Frame, PlayInto
    <2> QED  BY <1>2, <2>1, TickMoves
<1>5. CASE \E ms \in profile.times : Pass(ms)
    <2>1. PICK ms : rp' = [rp EXCEPT !.elapsed = @ + ms]  BY <1>5 DEF Pass
    <2> DEFINE v == rp.elapsed + ms
    <2>2. rp' = [rp EXCEPT !.elapsed = v]  BY <1>1, <2>1 DEF Progress, PlayerFields
    <2> HIDE DEF v
    <2> QED  BY <1>1, <1>2, <2>2, ClockRests
<1>6. CASE \E k \in profile.keys : ReplayKey(k)
    <2>1. PICK k \in DOMAIN Seeks : rp' = Seeks[k]  BY <1>6 DEF ReplayKey, PlayInto
    <2>2. Seeked(rp, rp')  BY <2>1, SeeksMove
    <2> QED  BY <1>2, <1>6, <2>2 DEF Seeked, SetsBack
<1>7. CASE PauseKey
    <2>1. rp' = TogglePlayer(rp)  BY <1>7 DEF PauseKey
    <2> QED  BY <1>2, <2>1, ToggleRests
<1>8. CASE ResetKey  BY <1>2, <1>8
<1>9. CASE Render \/ Close \/ CloseFails \/ AddKey \/ \E k \in profile.keys : ViewKey(k)
    BY <1>3, <1>9 DEF Close, CloseFails, AddKey, ViewKey, Render, Look, Draw, DrawingUnchanged
<1> QED  BY <1>4, <1>5, <1>6, <1>7, <1>8, <1>9 DEF TuiStep

\* The player rests while others work.
LEMMA OthersRest ==
    ASSUME Next, ~TuiStep
    PROVE  UNCHANGED <<rp, look, drawn>>
<1> USE DEF tuiVars
<1>1. CASE RefreshKey  BY <1>1 DEF RefreshKey
<1>2. CASE Ended  BY <1>2 DEF Ended, vars
<1> QED  BY <1>1, <1>2 DEF Next

LEMMA PlayedRenews ==
    ASSUME NEW s, SessionShape(s), s.gen \in Nat, NEW p, NEW q
    PROVE  /\ Played(s, p, q).gen \in Nat
           /\ ~(q.index < p.index) => Renews(s, Played(s, p, q))
<1>1. "gen" \in DOMAIN s  BY ChangedGen
<1>2. [s EXCEPT !.gen = 1].gen \in Nat  BY <1>1
<1>3. Written(s).gen = s.gen + 1 /\ Renews(s, Written(s)) /\ Renews(s, s)  BY <1>1, WrittenRenews
<1>4. Played(s, p, q) = IF q.index < p.index THEN [s EXCEPT !.gen = 1]
                        ELSE IF q.index > p.index THEN Written(s) ELSE s
    BY Zenon DEF Played
<1> QED  BY <1>2, <1>3, <1>4

\* Playing on writes the session, or leaves it.
LEMMA PlayIntoRenews ==
    ASSUME SessionsShape, Numbered, NEW q, PlayInto(q)
    PROVE  /\ rp = None \/ ~(rp'.index < rp.index) => SessionsRenew /\ NewNumbered
           /\ Numbered' /\ DOMAIN sessions' = DOMAIN sessions
<1>1. CASE UNCHANGED sessions  BY <1>1, SameRenew DEF Numbered
<1>2. CASE ~UNCHANGED sessions
    <2> DEFINE addr == Target(ui)
               t == Played(sessions[addr], rp, q)
    <2>1. rp # None /\ addr \in DOMAIN sessions /\ rp' = q  BY <1>2 DEF PlayInto, HasSession
    <2>2. sessions' = [sessions EXCEPT ![addr] = t]
        <3>1. sessions' = [sessions EXCEPT ![addr] = Played(@, rp, q)]  BY <1>2 DEF PlayInto
        <3> QED  BY <2>1, <3>1
    <2>3. SessionShape(sessions[addr]) /\ sessions[addr].gen \in Nat
        BY <2>1 DEF SessionsShape, Numbered
    <2>4. t.gen \in Nat /\ (~(q.index < rp.index) => Renews(sessions[addr], t))
        BY <2>3, PlayedRenews
    <2> HIDE DEF t, addr
    <2>5. Numbered' /\ DOMAIN sessions' = DOMAIN sessions  BY <2>2, <2>4 DEF Numbered
    <2>6. ~(q.index < rp.index) => SessionsRenew /\ NewNumbered  BY <2>2, <2>4, OneRenews
    <2> QED  BY <2>1, <2>5, <2>6
<1> QED  BY <1>1, <1>2

\* No session that is shown changes without a new generation, but for that of a
\* player set back.
LEMMA SessionsAdvance ==
    ASSUME SessionsShape, PendingShape, Started, DOMAIN engine \subseteq DOMAIN sessions, Numbered,
           rp # None => PlayerInv(rp), Next
    PROVE  (SessionsRenew /\ NewNumbered) \/ (SetsBack /\ DOMAIN sessions' = DOMAIN sessions /\ Numbered')
<1>1. CASE LifecycleStep /\ UNCHANGED <<tuiVars, enrichVars>>
    <2>1. CASE MainStep
        <3>1. CASE Emit  BY <3>1, DrainRenews DEF Emit
        <3>2. CASE Finish
            <4>1. Drain \/ UNCHANGED sessions  BY <3>2 DEF Finish, FinalDrain
            <4> QED  BY <4>1, DrainRenews, SameRenew
        <3>3. CASE BootReplay \/ BootTracing  BY <3>3, NewAreNumbered
        <3> QED  BY <2>1, <3>1, <3>2, <3>3, MainFrame, SameRenew
    <2>2. CASE Signal  BY <2>2, SameRenew DEF Signal
    <2>3. CASE MgrStep  BY <2>3, MgrFrame, SameRenew, NewAreNumbered
    <2>4. CASE \E ip \in DOMAIN engine : EngineStep(ip)
        <3>1. PICK ip \in DOMAIN engine : EngineStep(ip)  BY <2>4
        <3>2. CASE Round(ip)
            <4> DEFINE u == Sent(sessions[ip], DestKnown(ip))
                       t == Written(u)
            <4>1. SessionShape(sessions[ip]) /\ ip \in DOMAIN sessions /\ sessions[ip].gen \in Nat
                BY DEF SessionsShape, Numbered
            <4>2. sessions' = [sessions EXCEPT ![ip] = t]  BY <3>2, <4>1 DEF Round
            <4>3. "gen" \in DOMAIN u /\ u.gen = sessions[ip].gen  BY <4>1, ChangedGen
            <4> HIDE DEF u
            <4>4. Renews(sessions[ip], t)  BY <4>1, <4>3, WrittenRenews
            <4> HIDE DEF t
            <4> QED  BY <4>2, <4>4, OneRenews
        <3> QED  BY <3>1, <3>2, EngineFrame, SameRenew
    <2>5. CASE \E fam \in Families : ReceiverStep(fam)
        <3>1. PICK fam \in Families : ReceiverStep(fam)  BY <2>5
        <3>2. CASE ReceiverFails(fam)  BY <3>2, SameRenew DEF ReceiverFails
        <3>3. CASE Answered(fam)
            <4>1. PICK p \in pending : sessions' = [sessions EXCEPT ![p[1]] =
                            Written(Record(Seen(@, p[3]), <<"reply", p[2], p[3]>>))]
                BY <3>3 DEF Answered
            <4>2. p[1] \in DOMAIN sessions
                <5>1. p \in (DOMAIN engine) \X Nat \X Int  BY DEF PendingShape
                <5> QED  BY <5>1
            <4> DEFINE s == sessions[p[1]]
                       v == p[3]
                       e == <<"reply", p[2], p[3]>>
                       u == Record(Seen(s, v), e)
                       t == Written(u)
            <4>3. SessionShape(s) /\ s.gen \in Nat  BY <4>2 DEF SessionsShape, Numbered
            <4>4. sessions' = [sessions EXCEPT ![p[1]] = t]  BY <4>1, <4>2
            <4> HIDE DEF s, v, e
            <4>5. "gen" \in DOMAIN u /\ u.gen = s.gen  BY <4>3, ChangedGen
            <4> HIDE DEF u
            <4>6. Renews(s, t)  BY <4>3, <4>5, WrittenRenews
            <4> HIDE DEF t
            <4> QED  BY <4>4, <4>6, OneRenews DEF s
        <3>4. CASE TimedOut(fam)
            <4>1. PICK p \in pending : sessions' = [sessions EXCEPT ![p[1]] = Written(Record(@, <<"timeout", p[2], p[3]>>))]
                BY <3>4 DEF TimedOut
            <4>2. p[1] \in DOMAIN sessions
                <5>1. p \in (DOMAIN engine) \X Nat \X Int  BY DEF PendingShape
                <5> QED  BY <5>1
            <4> DEFINE s == sessions[p[1]]
                       e == <<"timeout", p[2], p[3]>>
                       u == Record(s, e)
                       t == Written(u)
            <4>3. SessionShape(s) /\ s.gen \in Nat  BY <4>2 DEF SessionsShape, Numbered
            <4>4. sessions' = [sessions EXCEPT ![p[1]] = t]  BY <4>1, <4>2
            <4> HIDE DEF s, e
            <4>5. "gen" \in DOMAIN u /\ u.gen = s.gen  BY <4>3, ChangedGen
            <4> HIDE DEF u
            <4>6. Renews(s, t)  BY <4>3, <4>5, WrittenRenews
            <4> HIDE DEF t
            <4> QED  BY <4>4, <4>6, OneRenews DEF s
        <3>5. CASE Flush(fam)
            <4>1. DOMAIN sessions' = DOMAIN sessions  BY <3>5 DEF Flush
            <4>2. ASSUME NEW ip \in DOMAIN sessions PROVE Renews(sessions[ip], sessions'[ip])
                <5>1. SessionShape(sessions[ip]) /\ sessions[ip].gen \in Nat  BY DEF SessionsShape, Numbered
                <5>2. sessions'[ip] = sessions[ip] \/ sessions'[ip] = Written(sessions[ip])  BY <3>5 DEF Flush
                <5>3. "gen" \in DOMAIN sessions[ip]  BY <5>1, ChangedGen
                <5> QED  BY <5>1, <5>2, <5>3, WrittenRenews
            <4> QED  BY <4>1, <4>2 DEF SessionsRenew, NewNumbered
        <3> QED  BY <3>1, <3>2, <3>3, <3>4, <3>5, ReceiverFrame
    <2>6. CASE \E k \in DOMAIN worker : WorkerEnds(k)  BY <2>6, SameRenew DEF WorkerEnds
    <2> QED  BY <1>1, <2>1, <2>2, <2>3, <2>4, <2>5, <2>6 DEF LifecycleStep
<1>2. CASE TuiStep /\ UNCHANGED enrichVars
    <2>1. ASSUME NEW q, PlayInto(q), Frame \/ \E k \in profile.keys : ReplayKey(k)
          PROVE  (SessionsRenew /\ NewNumbered) \/ (SetsBack /\ DOMAIN sessions' = DOMAIN sessions /\ Numbered')
        <3>1. CASE rp = None \/ ~(rp'.index < rp.index)  BY <2>1, <3>1, PlayIntoRenews
        <3>2. CASE rp # None /\ rp'.index < rp.index
            <4>1. PlayerInv(rp) /\ rp.index \in Nat  BY <3>2, PlayerNumbers DEF PlayerInv
            <4>2. SetsBack
                <5>1. \/ Rests(rp, rp') /\ ~ResetKey
                      \/ rp'.index > rp.index
                      \/ SetsBack
                      \/ ResetKey /\ rp'.index = rp.index
                    BY <1>2, <3>2, <4>1, PlayerSteps
                <5>2. PlayerInv(rp')  BY <3>2, <4>1, PlayerFrame
                <5>3. rp'.index \in Nat  BY <5>2, PlayerNumbers DEF PlayerInv
                <5> QED  BY <3>2, <4>1, <5>1, <5>3 DEF Rests
            <4> QED  BY <2>1, <4>2, PlayIntoRenews
        <3> QED  BY <3>1, <3>2
    <2>2. CASE Frame  BY <2>1, <2>2 DEF Frame
    <2>3. CASE \E k \in profile.keys : ReplayKey(k)  BY <2>1, <2>3 DEF ReplayKey
    <2>4. CASE PauseKey
        <3>1. CASE UNCHANGED sessions  BY <3>1, SameRenew
        <3>2. CASE ~UNCHANGED sessions
            <4> DEFINE addr == Target(ui)
                       u == [sessions[addr] EXCEPT !.paused = ui'.paused]
                       t == Written(u)
            <4>1. addr \in DOMAIN sessions  BY <2>4, <3>2 DEF PauseKey, HasSession
            <4>2. sessions' = [sessions EXCEPT ![addr] = t]
                <5>1. sessions' = [sessions EXCEPT ![addr] = Written([@ EXCEPT !.paused = ui'.paused])]
                    BY <2>4, <3>2 DEF PauseKey
                <5> QED  BY <4>1, <5>1
            <4>3. SessionShape(sessions[addr]) /\ sessions[addr].gen \in Nat
                BY <4>1 DEF SessionsShape, Numbered
            <4>4. "gen" \in DOMAIN u /\ u.gen = sessions[addr].gen  BY <4>3, ChangedGen
            <4> HIDE DEF u
            <4>5. Renews(sessions[addr], t)  BY <4>3, <4>4, WrittenRenews
            <4> HIDE DEF t, addr
            <4> QED  BY <4>2, <4>5, OneRenews
        <3> QED  BY <3>1, <3>2
    <2>5. CASE ResetKey
        <3> DEFINE addr == Target(ui)
                   t == ResetStats(sessions[addr])
        <3>1. addr \in DOMAIN sessions  BY <2>5 DEF ResetKey, HasSession
        <3>2. sessions' = [sessions EXCEPT ![addr] = t]
            <4>1. sessions' = [sessions EXCEPT ![addr] = ResetStats(@)]  BY <2>5 DEF ResetKey
            <4> QED  BY <3>1, <4>1
        <3>3. sessions[addr].gen \in Nat  BY <3>1 DEF Numbered
        <3>4. Renews(sessions[addr], t)  BY <3>3, ResetRenews DEF Renews
        <3> HIDE DEF t, addr
        <3> QED  BY <3>2, <3>4, OneRenews
    <2> QED  BY <1>2, <2>2, <2>3, <2>4, <2>5, TuiFrame, SameRenew
<1>3. CASE EnrichStep /\ UNCHANGED tuiVars
    <2>1. ASSUME NEW k, FinishBatch(k) PROVE SessionsRenew /\ NewNumbered
        <3>1. DOMAIN sessions' = DOMAIN sessions  BY <2>1 DEF FinishBatch
        <3>2. ASSUME NEW ip \in DOMAIN sessions PROVE Renews(sessions[ip], sessions'[ip])
            <4>1. SessionShape(sessions[ip]) /\ sessions[ip].gen \in Nat  BY DEF SessionsShape, Numbered
            <4>2. \/ sessions'[ip] = sessions[ip]
                  \/ \E v : sessions'[ip] = Written([sessions[ip] EXCEPT !.labels = v])
                BY <2>1 DEF FinishBatch
            <4>3. ASSUME NEW v PROVE Renews(sessions[ip], Written([sessions[ip] EXCEPT !.labels = v]))
                <5> DEFINE u == [sessions[ip] EXCEPT !.labels = v]
                <5>1. "gen" \in DOMAIN u /\ u.gen = sessions[ip].gen  BY <4>1, ChangedGen
                <5> HIDE DEF u
                <5>2. Renews(sessions[ip], Written(u))  BY <4>1, <5>1, WrittenRenews
                <5> QED  BY <5>2 DEF u
            <4> QED  BY <4>1, <4>2, <4>3, StaysRenewed
        <3> QED  BY <3>1, <3>2 DEF SessionsRenew, NewNumbered
    <2> QED  BY <1>3, <2>1, EnrichFrame, SameRenew
<1>4. CASE RefreshKey  BY <1>4, SameRenew DEF RefreshKey, lifecycleVars
<1>5. CASE Ended  BY <1>5, SameRenew DEF Ended, vars, lifecycleVars
<1> QED  BY <1>1, <1>2, <1>3, <1>4, <1>5 DEF Next

LEMMA PressingKeeps ==
    ASSUME NEW u, NEW v, SameTargets(u, v)
    PROVE  SameTargets(u, Pressing(v)) /\ Pressing(v).step = "poll"
<1> DEFINE w == v.left - 1
<1>1. Pressing(v) = [v EXCEPT !.step = "poll", !.left = w]
    BY DEF Pressing, SameTargets, UiRecord, UiFields
<1> HIDE DEF w
<1> QED  BY <1>1 DEF SameTargets, UiRecord, UiFields, OneTarget

\* An answer of the manager may add a target, which is selected then.
LEMMA ReplyKeeps ==
    ASSUME NEW u, UiRecord(u), NEW r
    PROVE  LET v == AfterReply(u, r)
           IN  UiRecord(v) /\ (v.targets = u.targets \/ v.targets = Append(u.targets, r.ip))
<1> DEFINE targets == IF Contains(u.targets, r.ip) THEN u.targets ELSE Append(u.targets, r.ip)
           i == (CHOOSE k \in 1..Len(targets) : targets[k] = r.ip) - 1
           x == IF u.overlay = "input" THEN "none" ELSE u.overlay
           v == [u EXCEPT !.input = NoInput, !.overlay = x, !.targets = targets, !.selected = i, !.hop = None]
           n == [[[u.input EXCEPT !.pending = None] EXCEPT !.resolving = FALSE] EXCEPT !.error = TRUE]
           w == [u EXCEPT !.input = n]
<1>1. targets = u.targets \/ targets = Append(u.targets, r.ip)  OBVIOUS
<1>2. AfterReply(u, r) = v \/ AfterReply(u, r) = w
    <2>1. CASE r.result \in {"added", "existed"}
        <3>1. AfterReply(u, r) = [u EXCEPT !.input = NoInput, !.overlay = IF @ = "input" THEN "none" ELSE @,
                                           !.targets = targets, !.selected = i, !.hop = None]
            BY <2>1, Zenon DEF AfterReply
        <3> HIDE DEF targets, i
        <3>2. AfterReply(u, r) = v  BY <3>1 DEF UiRecord, UiFields
        <3> QED  BY <3>2
    <2>2. CASE r.result \notin {"added", "existed"}
        <3>1. AfterReply(u, r) = [u EXCEPT !.input.pending = None, !.input.resolving = FALSE, !.input.error = TRUE]
            BY <2>2, Zenon DEF AfterReply
        <3>2. AfterReply(u, r) = w  BY <3>1 DEF UiRecord, UiFields
        <3> QED  BY <3>2
    <2> QED  BY <2>1, <2>2
<1>3. UiRecord(v) /\ v.targets = targets
    <2> HIDE DEF targets, i
    <2> QED  BY DEF UiRecord, UiFields
<1>4. UiRecord(w) /\ w.targets = u.targets
    <2> HIDE DEF n
    <2> QED  BY DEF UiRecord, UiFields
<1> HIDE DEF v, w, targets
<1> QED  BY <1>1, <1>2, <1>3, <1>4

\* What a step does to the interface.
UiMoves ==
    /\ UiRecord(ui')
    /\ \/ SameTargets(ui, ui')
       \/ Frame /\ replies # {} /\ \E ip : ui'.targets \in {ui.targets, Append(ui.targets, ip)}
    /\ \/ ui' = ui
       \/ Frame /\ ui'.step = "look"
       \/ Look /\ ui' \in {[ui EXCEPT !.step = "draw"], [ui EXCEPT !.step = "keys"]}
       \/ Draw /\ ui' = [ui EXCEPT !.step = "keys"]
       \/ ui.step = "keys" /\ ui'.step = "poll"

LEMMA UiSteps ==
    ASSUME Next, UiRecord(ui)
    PROVE  UiMoves
<1> USE DEF tuiVars
<1>1. CASE UNCHANGED ui
    <2>1. SameTargets(ui, ui)  BY FieldsKeep
    <2> QED  BY <1>1, <2>1 DEF UiMoves
<1>2. ASSUME NEW u, SameTargets(ui, u), ui' = Pressing(u), ui.step = "keys" PROVE UiMoves
    <2>1. SameTargets(ui, ui') /\ ui'.step = "poll"  BY <1>2, PressingKeeps
    <2> QED  BY <1>2, <2>1 DEF UiMoves, SameTargets
<1>3. SameTargets(ui, ui)  BY FieldsKeep
<1>4. CASE Frame
    <2> DEFINE v == PollAddTarget(ui)
    <2>1. PICK u \in PollUpdate(v) : ui' = [u EXCEPT !.step = "look"]  BY <1>4 DEF Frame
    <2>2. \/ v = ui
          \/ /\ replies # {} /\ UiRecord(v)
             /\ \E ip : v.targets \in {ui.targets, Append(ui.targets, ip)}
        <3> DEFINE answers == {r \in replies : r.id = ui.input.pending}
        <3>1. CASE answers = {}  BY <3>1, Zenon DEF PollAddTarget
        <3>2. CASE answers # {}
            <4>1. PICK r : v = AfterReply(ui, r)  BY <3>2, Zenon DEF PollAddTarget
            <4>2. replies # {}  BY <3>2
            <4> QED  BY <4>1, <4>2, ReplyKeeps
        <3> QED  BY <3>1, <3>2
    <2>3. UiRecord(v) /\ SameTargets(v, v)  BY <2>2, FieldsKeep
    <2> HIDE DEF v
    <2>4. SameTargets(v, u)
        <3>1. u \in {v, [v EXCEPT !.update = "available"], [v EXCEPT !.update = "none"]}  BY <2>1 DEF PollUpdate
        <3>2. \A x : SameTargets(v, [v EXCEPT !.update = x])  BY <2>3, FieldsKeep
        <3> QED  BY <2>3, <3>1, <3>2
    <2>5. SameTargets(v, ui') /\ ui'.step = "look"
        BY <2>1, <2>4 DEF SameTargets, UiRecord, UiFields, OneTarget
    <2>6. CASE v = ui  BY <1>4, <2>5, <2>6 DEF UiMoves, SameTargets
    <2>7. CASE v # ui  BY <1>4, <2>2, <2>5, <2>7 DEF UiMoves, SameTargets
    <2> QED  BY <2>6, <2>7
<1>5. CASE \E k \in profile.keys : ViewKey(k)
    <2>1. PICK k \in profile.keys : \E u \in Views(ui, k) : ui' = Pressing(u) /\ ui.step = "keys"  BY <1>5 DEF ViewKey, Pressed
    <2>2. PICK u \in Views(ui, k) : ui' = Pressing(u) /\ ui.step = "keys"  BY <2>1
    <2> QED  BY <1>2, <2>2, ViewsKeep
<1>6. CASE \E k \in profile.keys : ReplayKey(k)
    BY <1>2, <1>3, <1>6 DEF ReplayKey, Pressed
<1>7. CASE PauseKey
    <2>1. \A x : SameTargets(ui, [ui EXCEPT !.paused = x])
        BY DEF SameTargets, UiRecord, UiFields, OneTarget
    <2>2. SameTargets(ui, [ui EXCEPT !.paused = ~@])
        BY DEF SameTargets, UiRecord, UiFields, OneTarget
    <2>3. ui.step = "keys" /\ (ui' = Pressing(ui) \/ ui' = Pressing([ui EXCEPT !.paused = ~@]))
        BY <1>7 DEF PauseKey, Pressed
    <2> QED  BY <1>2, <1>3, <2>2, <2>3
<1>8. CASE ResetKey  BY <1>2, <1>3, <1>8 DEF ResetKey, Pressed
<1>9. CASE RefreshKey  BY <1>2, <1>3, <1>9 DEF RefreshKey, Pressed
<1>10. CASE AddKey
    <2>1. ASSUME NEW x, NEW n PROVE SameTargets(ui, [ui EXCEPT !.input = x]) /\ SameTargets(ui, [ui EXCEPT !.nextId = n, !.input = x])
        BY DEF SameTargets, UiRecord, UiFields, OneTarget
    <2> DEFINE a == [ui EXCEPT !.input.error = TRUE]
               b == [ui EXCEPT !.nextId = @ + 1,
                               !.input = [@ EXCEPT !.pending = ui.nextId, !.resolving = TRUE, !.error = FALSE]]
    <2>2. a = [ui EXCEPT !.input = [ui.input EXCEPT !.error = TRUE]]
        BY DEF UiRecord, UiFields
    <2>3. SameTargets(ui, a)  BY <2>1, <2>2
    <2>4. SameTargets(ui, b)
        <3> DEFINE x == [ui.input EXCEPT !.pending = ui.nextId, !.resolving = TRUE, !.error = FALSE]
                   n == ui.nextId + 1
        <3>1. b = [ui EXCEPT !.nextId = n, !.input = x]
            BY DEF UiRecord, UiFields
        <3> HIDE DEF x, n, b
        <3> QED  BY <2>1, <3>1
    <2>5. ui.step = "keys" /\ (ui' = Pressing(a) \/ ui' = Pressing(b))
        BY <1>10, Zenon DEF AddKey, Pressed
    <2> HIDE DEF a, b
    <2> QED  BY <1>2, <2>3, <2>4, <2>5
<1>11. CASE Close \/ CloseFails \/ \E ms \in profile.times : Pass(ms)
    BY <1>1, <1>11 DEF Close, CloseFails, Pass
<1>14. CASE Render
    <2>1. \/ Look /\ ui' \in {[ui EXCEPT !.step = "draw"], [ui EXCEPT !.step = "keys"]}
          \/ Draw /\ ui' = [ui EXCEPT !.step = "keys"]
        BY <1>14 DEF Render, Look, Draw
    <2>2. SameTargets(ui, [ui EXCEPT !.step = "draw"]) /\ SameTargets(ui, [ui EXCEPT !.step = "keys"])
        BY DEF SameTargets, UiRecord, UiFields, OneTarget
    <2>3. SameTargets(ui, ui')  BY <2>1, <2>2
    <2> QED  BY <2>1, <2>3 DEF UiMoves, SameTargets
<1>12. CASE TuiStep
    BY <1>4, <1>5, <1>6, <1>7, <1>8, <1>10, <1>11, <1>12, <1>14 DEF TuiStep
<1>13. CASE Ended  BY <1>1, <1>13 DEF Ended, vars
<1> QED  BY <1>1, <1>9, <1>12, <1>13 DEF Next

\* What is on the screen belongs to the fingerprint drawn: the target, if none
\* was added since; what is shown of the session, if its generation is the same;
\* what the player has played, if its index is; and all that is around them.
OfTargets ==
    LET f == drawn.fp
    IN  /\ f.targets \in Nat /\ f.targets <= Len(ui.targets)
        /\ f.targets = Len(ui.targets) =>
            drawn.screen.target = IF f.selected < Len(ui.targets) THEN ui.targets[f.selected + 1] ELSE None
Generation(a) == IF a \in DOMAIN sessions THEN sessions[a].gen ELSE None
OfSession ==
    LET a == drawn.screen.target
        g == drawn.fp.generation
    IN  /\ a \notin DOMAIN sessions => drawn.screen.session = None
        /\ g # None =>
            /\ a \in DOMAIN sessions /\ g \in Nat /\ g <= sessions[a].gen
            /\ g = sessions[a].gen => drawn.screen.session = Shown(sessions[a])
\* The interface around the session, as a fingerprint tells it.
OverlayOf(f) ==
    CASE f.overlay = "settings" -> <<"settings", f.settings>>
      [] f.overlay = "list"     -> <<"list", f.listIndex>>
      [] f.overlay = "input"    -> <<"input", f.input[1], f.input[2], f.input[3]>>
      [] OTHER -> <<f.overlay>>
ViewOf(f) == <<f.selected + 1, f.targets, f.hop, f.paused, f.theme, f.display, f.update>>
BarOf(f) == <<f.player[2], f.player[1], f.player[3], f.player[5]>>
OfPlayer ==
    LET a == drawn.screen.target
        played == drawn.fp.player
    IN  /\ played = <<>> => rp = None /\ drawn.screen.shown = None /\ drawn.screen.chrome[3] = <<>>
        /\ (played # <<>> /\ rp # None) =>
            /\ a = Target(ui) /\ played[3] \in Nat /\ played[3] <= rp.index
            /\ drawn.screen.chrome[3] = BarOf(drawn.fp)
            /\ (played[3] = rp.index /\ drawn.fp.generation = Generation(a)) => drawn.screen.shown = rp.shown
ScreenFields == {"target", "session", "shown", "chrome"}
InStep ==
    /\ drawn.screen = [field \in ScreenFields |-> drawn.screen[field]]
    /\ OfTargets /\ OfSession /\ OfPlayer
    /\ drawn.screen.chrome = <<ViewOf(drawn.fp), OverlayOf(drawn.fp), drawn.screen.chrome[3]>>

\* Or the player was set back, to another index, and nothing was drawn since.
Behind ==
    /\ ui.step # "keys" /\ rp.paused
    /\ drawn.fp.player # <<>> /\ drawn.fp.player[3] # rp.index

DrawnInv == drawn # None => Behind \/ InStep

\* Between the fingerprint and the drawing only sessions are written, and time passes.
LookFits ==
    /\ look.targets = Len(ui.targets) /\ look.selected = ui.selected
    /\ look.generation # None =>
        /\ Target(ui) \in DOMAIN sessions
        /\ look.generation \in Nat /\ look.generation <= sessions[Target(ui)].gen
    /\ look.player = <<>> => rp = None
    /\ (look.player # <<>> /\ rp # None) => look.player[3] = rp.index /\ BarOf(look) = ProgressBar
    /\ ViewOf(look) = MainView /\ OverlayOf(look) = Overlay
LookInv == ui.step = "draw" => LookFits

\* When keys are handled, all that was played has been drawn.
SeenInv == (ui.step = "keys" /\ rp # None) => drawn.fp.player # <<>> /\ drawn.fp.player[3] = rp.index
AloneInv == rp # None => RunMode = "replay" /\ OneTarget(ui) /\ replies = {} /\ mgr.pc = "off"
TargetsInv ==
    /\ UiRecord(ui)
    /\ stage = "boot" => ui.targets = StartTargets
    /\ stage # "boot" => \E S : ui.targets \in Seq(S)

LEMMA SessionInStep ==
    ASSUME Numbered, OfSession, drawn' = drawn, SessionsRenew
    PROVE  OfSession'
<1> DEFINE a == drawn.screen.target
           g == drawn.fp.generation
<1>1. CASE g = None
    <2>1. a \in DOMAIN sessions => a \in DOMAIN sessions'  BY DEF SessionsRenew
    <2> QED  BY <1>1, <2>1 DEF OfSession
<1>2. CASE g # None
    <2>1. /\ a \in DOMAIN sessions /\ g \in Nat /\ g <= sessions[a].gen /\ sessions[a].gen \in Nat
          /\ g = sessions[a].gen => drawn.screen.session = Shown(sessions[a])
        BY <1>2 DEF OfSession, Numbered
    <2>2. a \in DOMAIN sessions' /\ Renews(sessions[a], sessions'[a])  BY <2>1 DEF SessionsRenew
    <2>3. g <= sessions'[a].gen /\ (g = sessions'[a].gen => drawn.screen.session = Shown(sessions'[a]))
        BY <2>1, <2>2 DEF Renews
    <2> QED  BY <1>2, <2>1, <2>2, <2>3 DEF OfSession, Shown
<1> QED  BY <1>1, <1>2

LEMMA TargetsInStep ==
    ASSUME OfTargets, drawn' = drawn, \E S : ui.targets \in Seq(S),
           \E ip : ui'.targets \in {ui.targets, Append(ui.targets, ip)}
    PROVE  OfTargets'
<1> PICK S : ui.targets \in Seq(S)  OBVIOUS
<1> PICK ip : ui'.targets \in {ui.targets, Append(ui.targets, ip)}  OBVIOUS
<1>1. CASE ui'.targets = ui.targets  BY <1>1 DEF OfTargets
<1>2. CASE ui'.targets = Append(ui.targets, ip)
    <2>1. Len(ui'.targets) = Len(ui.targets) + 1 /\ Len(ui.targets) \in Nat  BY <1>2
    <2> QED  BY <2>1 DEF OfTargets
<1> QED  BY <1>1, <1>2

LEMMA PlayerInStep ==
    ASSUME Numbered, OfSession, OfPlayer, drawn' = drawn, SessionsRenew, NewNumbered,
           rp = None => rp' = None,
           rp # None => /\ Target(ui') = Target(ui) /\ rp.index \in Nat
                        /\ \/ Rests(rp, rp')
                           \/ rp'.index > rp.index /\ rp'.index \in Nat
                           \/ ResetKey /\ rp'.index = rp.index
    PROVE  OfPlayer'
<1> DEFINE a == drawn.screen.target
           g == drawn.fp.generation
           played == drawn.fp.player
<1>1. CASE played = <<>>  BY <1>1 DEF OfPlayer
<1>2. CASE played # <<>> /\ rp' = None  BY <1>2 DEF OfPlayer
<1>3. CASE played # <<>> /\ rp' # None
    <2>1. /\ rp # None /\ a = Target(ui) /\ played[3] \in Nat /\ played[3] <= rp.index
          /\ drawn.screen.chrome[3] = BarOf(drawn.fp)
          /\ (played[3] = rp.index /\ g = Generation(a)) => drawn.screen.shown = rp.shown
        BY <1>3 DEF OfPlayer
    <2>2. a = Target(ui') /\ rp.index \in Nat /\ (rp'.index = rp.index \/ (rp'.index > rp.index /\ rp'.index \in Nat))
        BY <2>1 DEF Rests
    <2>3. played[3] <= rp'.index  BY <2>1, <2>2
    <2>4. ASSUME g = Generation(a)', ResetKey PROVE FALSE
        <3>1. a \in DOMAIN sessions /\ sessions[a].gen \in Nat
            BY <2>1, <2>4 DEF ResetKey, HasSession, Numbered
        <3>2. sessions'[a].gen = sessions[a].gen + 1 /\ a \in DOMAIN sessions'
            <4>1. sessions' = [sessions EXCEPT ![a] = ResetStats(@)]  BY <2>1, <2>4 DEF ResetKey
            <4>2. sessions' = [sessions EXCEPT ![a] = ResetStats(sessions[a])]  BY <3>1, <4>1
            <4>3. ResetStats(sessions[a]).gen = sessions[a].gen + 1  BY <3>1, ResetRenews
            <4> QED  BY <3>1, <4>2, <4>3
        <3>3. g = sessions[a].gen + 1  BY <2>4, <3>2 DEF Generation
        <3>4. g # None  BY <3>1, <3>3, NoneAssumption
        <3>5. g <= sessions[a].gen  BY <3>4 DEF OfSession
        <3> QED  BY <3>1, <3>3, <3>5
    <2>5. ASSUME g = Generation(a)' PROVE g = Generation(a)
        <3>1. CASE a \in DOMAIN sessions
            <4>1. Renews(sessions[a], sessions'[a]) /\ sessions[a].gen \in Nat /\ a \in DOMAIN sessions'
                BY <3>1 DEF SessionsRenew, Numbered
            <4>2. g = sessions'[a].gen /\ g \in Nat  BY <2>5, <4>1 DEF Generation, Renews
            <4>3. g # None  BY <4>2, NoneAssumption
            <4>4. g <= sessions[a].gen  BY <4>3 DEF OfSession
            <4> QED  BY <3>1, <4>1, <4>2, <4>4 DEF Generation, Renews
        <3>2. CASE a \notin DOMAIN sessions
            <4>1. g = None  BY <3>2 DEF OfSession
            <4> QED  BY <3>2, <4>1 DEF Generation
        <3> QED  BY <3>1, <3>2
    <2>6. ASSUME played[3] = rp'.index, g = Generation(a)' PROVE drawn.screen.shown = rp'.shown
        <3>1. Rests(rp, rp')  BY <2>1, <2>2, <2>4, <2>6
        <3> QED  BY <2>1, <2>5, <2>6, <3>1 DEF Rests
    <2>7. a = Target(ui)'  BY <2>2 DEF Target
    <2>8. drawn'.screen.chrome[3] = BarOf(drawn.fp)'  BY <2>1 DEF BarOf
    <2> QED  BY <1>3, <2>1, <2>3, <2>6, <2>7, <2>8 DEF OfPlayer
<1> QED  BY <1>1, <1>2, <1>3

\* What a fingerprint tells.
LEMMA FingerprintTells ==
    LET f == Fingerprint
    IN  /\ f.targets = Len(ui.targets) /\ f.selected = ui.selected
        /\ f.generation = Generation(Target(ui))
        /\ rp = None => f.player = <<>>
        /\ rp # None => f.player # <<>> /\ f.player[3] = rp.index /\ BarOf(f) = ProgressBar
        /\ ViewOf(f) = MainView /\ OverlayOf(f) = Overlay
<1> DEFINE f == Fingerprint
           p == <<rp.paused, rp.finished, rp.index, Position(rp), rp.speed>>
           x == <<ui.input.text, ui.input.error, ui.input.resolving>>
           available == ui.update = "available"
<1>1. /\ f.generation = IF HasSession(ui) THEN SessionOf(ui).gen ELSE None
      /\ f.targets = Len(ui.targets) /\ f.selected = ui.selected /\ f.hop = ui.hop /\ f.paused = ui.paused
      /\ f.overlay = ui.overlay /\ f.listIndex = ui.listIndex /\ f.theme = ui.theme /\ f.display = ui.display
      /\ f.settings = ui.settings /\ f.update = available /\ f.input = x
      /\ f.player = IF rp = None THEN <<>> ELSE p
    <2> HIDE DEF p, x, available
    <2> QED  BY DEF Fingerprint, p, x, available
<1>2. p # <<>> /\ p[1] = rp.paused /\ p[2] = rp.finished /\ p[3] = rp.index /\ p[5] = rp.speed
    OBVIOUS
<1>3. x[1] = ui.input.text /\ x[2] = ui.input.error /\ x[3] = ui.input.resolving
    OBVIOUS
<1> HIDE DEF f, p, x, available
<1>4. f.generation = Generation(Target(ui))
    BY <1>1 DEF HasSession, SessionOf, Generation
<1>5. ViewOf(f) = MainView  BY <1>1 DEF ViewOf, MainView, available
<1>6. OverlayOf(f) = Overlay  BY <1>1, <1>3 DEF OverlayOf, Overlay
<1>7. rp # None => BarOf(f) = ProgressBar  BY <1>1, <1>2 DEF BarOf, ProgressBar
<1> QED  BY <1>1, <1>2, <1>4, <1>5, <1>6, <1>7 DEF f

\* A screen that has just been drawn is in step with the fingerprint seen before.
LEMMA DrawInStep ==
    ASSUME Draw, LookFits, UiRecord(ui), Len(ui.targets) \in Nat, Numbered, rp # None => rp.index \in Nat
    PROVE  InStep'
<1> DEFINE s == Screen
           a == Target(ui)
<1>1. drawn'.fp = look /\ drawn'.screen = s
    <2>1. drawn' = [fp |-> look, screen |-> s]  BY DEF Draw
    <2> HIDE DEF s
    <2> QED  BY <2>1
<1>2. /\ s.target = a /\ s = [field \in ScreenFields |-> s[field]]
      /\ s.session = IF a \in DOMAIN sessions THEN Shown(sessions[a]) ELSE None
      /\ s.shown = IF rp = None THEN None ELSE rp.shown
      /\ s.chrome = <<MainView, Overlay, ProgressBar>>
      /\ s.chrome[3] = ProgressBar
    BY DEF Screen, ScreenFields, HasSession, SessionOf
<1>3. /\ sessions' = sessions /\ rp' = rp
      /\ ui'.targets = ui.targets /\ ui'.selected = ui.selected /\ Target(ui') = a
    BY DEF Draw, DrawingUnchanged, lifecycleVars, UiRecord, UiFields, Target
<1> HIDE DEF s
<1>4. drawn'.screen = [field \in ScreenFields |-> drawn'.screen[field]]  BY <1>1, <1>2
<1>5. OfTargets'  BY <1>1, <1>2, <1>3 DEF OfTargets, LookFits, Target
<1>6. OfSession'
    <2>1. a \notin DOMAIN sessions => s.session = None  BY <1>2
    <2>2. look.generation # None =>
            /\ a \in DOMAIN sessions /\ look.generation \in Nat /\ look.generation <= sessions[a].gen
            /\ s.session = Shown(sessions[a])
        BY <1>2 DEF LookFits
    <2>3. Shown(sessions[a])' = Shown(sessions[a])  BY <1>3 DEF Shown, Target
    <2> HIDE DEF a
    <2> QED  BY <1>1, <1>2, <1>3, <2>1, <2>2 DEF OfSession, Shown
<1>7. OfPlayer'
    <2>1. Target(ui)' = Target(ui')  BY DEF Target
    <2>2. rp = None => ProgressBar = <<>>  BY DEF ProgressBar
    <2>3. BarOf(drawn.fp)' = BarOf(look)  BY <1>1 DEF BarOf
    <2> QED  BY <1>1, <1>2, <1>3, <2>1, <2>2, <2>3 DEF OfPlayer, LookFits
<1>8. ViewOf(drawn.fp)' = ViewOf(look) /\ OverlayOf(drawn.fp)' = OverlayOf(look)
    BY <1>1 DEF ViewOf, OverlayOf
<1>9. drawn'.screen.chrome = <<ViewOf(look), OverlayOf(look), drawn'.screen.chrome[3]>>
    BY <1>1, <1>2 DEF LookFits
<1> QED  BY <1>4, <1>5, <1>6, <1>7, <1>8, <1>9 DEF InStep

LEMMA StartTargetsListed ==
    ASSUME profile \in Profiles, ~Refused
    PROVE  \E S : StartTargets \in Seq(S)
<1>1. CASE ReplayOrDiff(Args)
    <2>1. StartTargets \in Seq({profile.recorded})  BY <1>1 DEF StartTargets
    <2> QED  BY <2>1
<1>2. CASE ~ReplayOrDiff(Args)
    <2>1. /\ Args.targets \in Seq(DOMAIN profile.dns)
          /\ \A host \in DOMAIN profile.dns : profile.dns[host] \in Seq(DOMAIN profile.path)
        BY RunsAssumption DEF Args
    <2>2. StartTargets = InitialTargets(Args, profile.dns) /\ StartTargets # None
        BY <1>2 DEF StartTargets, Refused
    <2>3. StartTargets \in Seq(DOMAIN profile.path)  BY <2>1, <2>2, TargetsType
    <2> QED  BY <2>3
<1> QED  BY <1>1, <1>2

LEMMA ProfileStays ==
    ASSUME Started, Next
    PROVE  profile' = profile
<1>1. CASE stage = "boot"  BY <1>1, OnlyBootSteps
<1>2. CASE stage # "boot"  BY <1>2, StagesMove
<1> QED  BY <1>1, <1>2

\* Before the program has started the interface is as it was made.
LEMMA BootUi ==
    ASSUME Next, stage = "boot"
    PROVE  UNCHANGED ui
<1> USE DEF tuiVars
<1>1. ~Shows  BY DEF Shows
<1>2. ~TuiStep  BY <1>1, TuiFrame
<1>3. ~RefreshKey  BY <1>1 DEF RefreshKey, Pressed
<1>4. CASE Ended  BY <1>4 DEF Ended, vars
<1> QED  BY <1>2, <1>3, <1>4 DEF Next

LEMMA TargetsKept ==
    ASSUME Started, Started', TargetsInv, Next
    PROVE  TargetsInv'
<1>1. UiMoves  BY UiSteps DEF TargetsInv
<1>2. profile' = profile  BY ProfileStays
<1>3. CASE stage = "boot"
    <2>1. ui' = ui /\ ui.targets = StartTargets  BY <1>3, BootUi DEF TargetsInv
    <2>2. stage' # "boot" => \E S : StartTargets \in Seq(S)
        <3>1. StartTargets' = StartTargets /\ (Refused' <=> Refused)
            BY <1>2 DEF StartTargets, Refused, Args
        <3> QED  BY <1>2, <3>1, StartTargetsListed DEF Started
    <2>3. StartTargets' = StartTargets  BY <1>2 DEF StartTargets, Args
    <2> QED  BY <1>1, <2>1, <2>2, <2>3 DEF TargetsInv, UiMoves
<1>4. CASE stage # "boot"
    <2>1. stage' # "boot"  BY <1>4, StagesMove
    <2>2. PICK S : ui.targets \in Seq(S)  BY <1>4 DEF TargetsInv
    <2>3. ui'.targets = ui.targets \/ \E ip : ui'.targets = Append(ui.targets, ip)
        BY <1>1 DEF UiMoves, SameTargets
    <2>4. CASE ui'.targets = ui.targets  BY <1>1, <2>1, <2>2, <2>4 DEF TargetsInv, UiMoves
    <2>5. CASE \E ip : ui'.targets = Append(ui.targets, ip)
        <3>1. PICK ip : ui'.targets = Append(ui.targets, ip)  BY <2>5
        <3>2. ui.targets \in Seq(S \cup {ip}) /\ ip \in S \cup {ip}  BY <2>2
        <3> DEFINE T == S \cup {ip}
        <3> HIDE DEF T
        <3>3. ui'.targets \in Seq(T)  BY <3>1, <3>2 DEF T
        <3> QED  BY <1>1, <2>1, <3>3 DEF TargetsInv, UiMoves
    <2> QED  BY <2>3, <2>4, <2>5
<1> QED  BY <1>3, <1>4

\* A replay has no manager.
LEMMA AloneKept ==
    ASSUME Started, TargetsInv, AloneInv, Next
    PROVE  AloneInv'
<1> SUFFICES ASSUME rp' # None
             PROVE  RunMode' = "replay" /\ OneTarget(ui') /\ replies' = {} /\ mgr'.pc = "off"
    BY DEF AloneInv, OneTarget
<1>1. RunMode = "replay" /\ OneTarget(ui) /\ replies = {} /\ mgr.pc = "off"
    BY NoPlayer DEF AloneInv
<1>2. RunMode' = RunMode  BY ProfileStays DEF RunMode, Args
<1>3. OneTarget(ui')
    <2>1. UiMoves  BY UiSteps DEF TargetsInv
    <2> QED  BY <1>1, <2>1 DEF UiMoves, SameTargets
<1>4. ~BootTracing
    <2>1. ReplayOrDiff(Args)  BY <1>1 DEF RunMode, Mode, ReplayOrDiff
    <2> QED  BY <2>1 DEF BootTracing
<1>5. UNCHANGED <<replies, mgr>>
    <2> USE DEF mgrVars
    <2>1. CASE LifecycleStep /\ UNCHANGED <<tuiVars, enrichVars>>
        <3>1. CASE MainStep  BY <1>4, <3>1, MainFrame
        <3>2. CASE Signal  BY <3>2 DEF Signal
        <3>3. CASE MgrStep  BY <1>1, <3>3, MgrFrame
        <3>4. CASE \E ip \in DOMAIN engine : EngineStep(ip)  BY <3>4, EngineFrame
        <3>5. CASE \E fam \in Families : ReceiverStep(fam)  BY <3>5, ReceiverFrame
        <3>6. CASE \E k \in DOMAIN worker : WorkerEnds(k)  BY <3>6 DEF WorkerEnds
        <3> QED  BY <2>1, <3>1, <3>2, <3>3, <3>4, <3>5, <3>6 DEF LifecycleStep
    <2>2. CASE TuiStep
        BY <2>2 DEF TuiStep, Frame, Render, Look, Draw, DrawingUnchanged, Close, CloseFails, Pass, ViewKey, ReplayKey, PauseKey,
                    ResetKey, AddKey, lifecycleVars
    <2>3. CASE EnrichStep  BY <2>3, EnrichFrame
    <2>4. CASE RefreshKey  BY <2>4 DEF RefreshKey, lifecycleVars
    <2>5. CASE Ended  BY <2>5 DEF Ended, vars, lifecycleVars
    <2> QED  BY <2>1, <2>2, <2>3, <2>4, <2>5 DEF Next
<1> QED  BY <1>1, <1>2, <1>3, <1>5

LEMMA OthersDraw ==
    ASSUME Next, ~Draw
    PROVE  drawn' = drawn
<1>1. CASE TuiStep
    BY <1>1 DEF TuiStep, Frame, Render, Look, Close, CloseFails, Pass, ViewKey, ReplayKey, PauseKey, ResetKey, AddKey,
                tuiVars
<1>2. CASE ~TuiStep  BY <1>2, OthersRest
<1> QED  BY <1>1, <1>2

\* While no key is handled and no turn begins, the player does not move.
LEMMA OnlyClock ==
    ASSUME Next, UiRecord(ui), ui.step # "keys", ~Frame
    PROVE  rp' = rp \/ (rp # None /\ ~rp.paused /\ \E ms : rp' = [rp EXCEPT !.elapsed = @ + ms])
<1>1. CASE TuiStep
    <2>1. Render \/ Close \/ CloseFails \/ \E ms \in profile.times : Pass(ms)
        BY <1>1 DEF TuiStep, ViewKey, ReplayKey, PauseKey, ResetKey, AddKey, Pressed
    <2>2. CASE Render \/ Close \/ CloseFails
        BY <2>2 DEF Render, Look, Draw, DrawingUnchanged, Close, CloseFails, tuiVars
    <2>3. CASE \E ms \in profile.times : Pass(ms)
        <3> PICK ms \in profile.times : Pass(ms)  BY <2>3
        <3> QED  BY DEF Pass
    <2> QED  BY <2>1, <2>2, <2>3
<1>2. CASE ~TuiStep  BY <1>2, OthersRest
<1> QED  BY <1>1, <1>2

\* What the clock of a replay leaves.
LEMMA ClockLeaves ==
    ASSUME PlayerInv(rp), \E ms : rp' = [rp EXCEPT !.elapsed = @ + ms]
    PROVE  rp'.index = rp.index /\ rp'.finished = rp.finished /\ rp'.paused = rp.paused /\ rp'.speed = rp.speed
BY DEF PlayerInv, Progress, PlayerFields

\* A player set back stays so until it is drawn.
LEMMA BehindKept ==
    ASSUME Next, UiRecord(ui), rp # None => PlayerInv(rp), Behind, ~Draw
    PROVE  Behind'
<1>1. drawn' = drawn  BY OthersDraw
<1>2. rp' = rp
    <2>1. CASE Frame
        <3>1. rp' = IF rp = None THEN None ELSE Tick(rp)  BY <2>1 DEF Frame, PlayInto
        <3>2. rp # None => Tick(rp) = rp  BY TickMoves DEF Behind
        <3> QED  BY <3>1, <3>2
    <2>2. CASE ~Frame  BY <2>2, OnlyClock DEF Behind
    <2> QED  BY <2>1, <2>2
<1>3. ui'.step # "keys"
    <2>1. UiMoves  BY UiSteps
    <2>2. CASE Look
        <3>1. drawn.fp # Fingerprint  BY FingerprintTells DEF Behind
        <3>2. ui' = [ui EXCEPT !.step = "draw"]  BY <2>2, <3>1 DEF Look
        <3> QED  BY <3>2 DEF UiRecord, UiFields
    <2> QED  BY <2>1, <2>2 DEF UiMoves, Behind
<1> QED  BY <1>1, <1>2, <1>3 DEF Behind

\* What was looked at stays as it was until it is drawn, but for the session.
LEMMA LookKept ==
    ASSUME Next, UiRecord(ui), Numbered, rp # None => PlayerInv(rp), LookInv, ~SetsBack => SessionsRenew
    PROVE  LookInv'
<1> SUFFICES ASSUME ui'.step = "draw" PROVE LookFits'
    BY DEF LookInv
<1>1. UiMoves  BY UiSteps
<1>2. CASE Look
    <2>1. ui' = [ui EXCEPT !.step = "draw"] /\ look' = Fingerprint /\ rp' = rp /\ sessions' = sessions
        <3>1. [ui EXCEPT !.step = "keys"].step = "keys"  BY DEF UiRecord, UiFields
        <3> QED  BY <1>2, <3>1 DEF Look, DrawingUnchanged, lifecycleVars
    <2>2. \A field \in UiFields \ {"step"} : ui'[field] = ui[field]  BY <2>1 DEF UiRecord, UiFields
    <2>3. /\ ui'.targets = ui.targets /\ ui'.selected = ui.selected /\ ui'.hop = ui.hop /\ ui'.paused = ui.paused
          /\ ui'.overlay = ui.overlay /\ ui'.listIndex = ui.listIndex /\ ui'.theme = ui.theme
          /\ ui'.display = ui.display /\ ui'.settings = ui.settings /\ ui'.update = ui.update /\ ui'.input = ui.input
        BY <2>2 DEF UiFields
    <2>4. Target(ui)' = Target(ui)  BY <2>3 DEF Target
    <2>5. MainView' = MainView /\ Overlay' = Overlay /\ ProgressBar' = ProgressBar
        BY <2>1, <2>3 DEF MainView, Overlay, ProgressBar
    <2> DEFINE f == Fingerprint
    <2>6. /\ f.targets = Len(ui.targets) /\ f.selected = ui.selected /\ f.generation = Generation(Target(ui))
          /\ rp = None => f.player = <<>>
          /\ rp # None => f.player # <<>> /\ f.player[3] = rp.index /\ BarOf(f) = ProgressBar
          /\ ViewOf(f) = MainView /\ OverlayOf(f) = Overlay
        BY FingerprintTells
    <2>7. look' = f  BY <2>1
    <2> HIDE DEF f
    <2>8. ViewOf(look)' = ViewOf(f) /\ OverlayOf(look)' = OverlayOf(f) /\ BarOf(look)' = BarOf(f)
        BY <2>7 DEF ViewOf, OverlayOf, BarOf
    <2>9. f.generation # None =>
            /\ Target(ui) \in DOMAIN sessions
            /\ f.generation \in Nat /\ f.generation <= sessions[Target(ui)].gen
        BY <2>6 DEF Generation, Numbered
    <2> QED  BY <2>1, <2>3, <2>4, <2>5, <2>6, <2>7, <2>8, <2>9 DEF LookFits
<1>3. CASE ~Look
    <2>1. ui' = ui
        <3>1. [ui EXCEPT !.step = "keys"].step = "keys"  BY DEF UiRecord, UiFields
        <3> QED  BY <1>1, <1>3, <3>1 DEF UiMoves
    <2>2. LookFits /\ ui.step = "draw"  BY <2>1 DEF LookInv
    <2>3. ~Frame  BY <2>2 DEF Frame
    <2>4. rp' = rp \/ (rp # None /\ \E ms : rp' = [rp EXCEPT !.elapsed = @ + ms])
        BY <2>2, <2>3, OnlyClock
    <2>5. /\ rp = None => rp' = None
          /\ rp # None => /\ rp'.index = rp.index /\ rp'.finished = rp.finished
                          /\ rp'.paused = rp.paused /\ rp'.speed = rp.speed
        <3>1. CASE rp' = rp  BY <3>1
        <3>2. CASE rp # None /\ \E ms : rp' = [rp EXCEPT !.elapsed = @ + ms]  BY <3>2, ClockLeaves
        <3> QED  BY <2>4, <3>1, <3>2
    <2>6. ~Draw
        <3>1. [ui EXCEPT !.step = "keys"].step = "keys"  BY DEF UiRecord, UiFields
        <3> QED  BY <2>1, <2>2, <3>1 DEF Draw
    <2>7. look' = look
        <3>1. CASE TuiStep
            BY <1>3, <2>2, <2>3, <2>6, <3>1
            DEF TuiStep, Render, Close, CloseFails, Pass, ViewKey, ReplayKey, PauseKey, ResetKey, AddKey, Pressed, tuiVars
        <3>2. CASE ~TuiStep  BY <3>2, OthersRest
        <3> QED  BY <3>1, <3>2
    <2>8. SessionsRenew
        <3>1. ~SetsBack  BY <2>2 DEF SetsBack, ReplayKey, Pressed
        <3> QED  BY <3>1
    <2>9. look.generation # None =>
            /\ Target(ui) \in DOMAIN sessions'
            /\ look.generation \in Nat /\ look.generation <= sessions'[Target(ui)].gen
        <3> DEFINE a == Target(ui)
        <3> HIDE DEF a
        <3>1. look.generation # None =>
                a \in DOMAIN sessions /\ look.generation \in Nat /\ look.generation <= sessions[a].gen
            BY <2>2 DEF LookFits, a
        <3>2. a \in DOMAIN sessions =>
                a \in DOMAIN sessions' /\ sessions[a].gen \in Nat /\ Renews(sessions[a], sessions'[a])
            BY <2>8 DEF SessionsRenew, Numbered
        <3> QED  BY <3>1, <3>2 DEF Renews, a
    <2>10. Target(ui)' = Target(ui) /\ MainView' = MainView /\ Overlay' = Overlay
        BY <2>1 DEF Target, MainView, Overlay
    <2>11. (rp # None /\ rp' # None) => ProgressBar' = ProgressBar  BY <2>5 DEF ProgressBar
    <2>12. ViewOf(look)' = ViewOf(look) /\ OverlayOf(look)' = OverlayOf(look) /\ BarOf(look)' = BarOf(look)
        BY <2>7 DEF ViewOf, OverlayOf, BarOf
    <2> QED  BY <2>1, <2>2, <2>5, <2>7, <2>9, <2>10, <2>11, <2>12 DEF LookFits
<1> QED  BY <1>2, <1>3

\* The loop comes to its keys with what was played drawn, and the player waits for them.
LEMMA SeenKept ==
    ASSUME Next, UiRecord(ui), rp # None => PlayerInv(rp), LookInv, SeenInv
    PROVE  SeenInv'
<1> SUFFICES ASSUME ui'.step = "keys", rp' # None
             PROVE  drawn'.fp.player # <<>> /\ drawn'.fp.player[3] = rp'.index
    BY DEF SeenInv
<1>1. UiMoves /\ rp # None  BY UiSteps, NoPlayer
<1>2. CASE Draw
    <2>1. drawn'.fp = look /\ rp' = rp /\ LookFits
        <3> DEFINE s == Screen
        <3>1. drawn' = [fp |-> look, screen |-> s] /\ ui.step = "draw"  BY <1>2 DEF Draw
        <3> HIDE DEF s
        <3>2. drawn'.fp = look  BY <3>1
        <3> QED  BY <1>2, <3>1, <3>2 DEF Draw, DrawingUnchanged, LookInv
    <2> QED  BY <1>1, <2>1 DEF LookFits
<1>3. CASE Look
    <2>1. [ui EXCEPT !.step = "draw"].step = "draw"  BY DEF UiRecord, UiFields
    <2>2. drawn.fp = Fingerprint /\ drawn' = drawn /\ rp' = rp
        BY <1>3, <2>1 DEF Look, DrawingUnchanged
    <2> DEFINE f == Fingerprint
    <2>3. f.player # <<>> /\ f.player[3] = rp.index  BY <1>1, FingerprintTells
    <2> HIDE DEF f
    <2>4. drawn'.fp = f  BY <2>2 DEF f
    <2> QED  BY <2>2, <2>3, <2>4
<1>4. CASE ~Draw /\ ~Look
    <2>1. drawn' = drawn /\ rp # None  BY <1>1, <1>4, OthersDraw
    <2>2. ui' = ui  BY <1>1, <1>4 DEF UiMoves
    <2>3. rp'.index = rp.index
        <3>1. Pressing(ui).step = "poll"
            <4>1. SameTargets(ui, ui)  BY FieldsKeep
            <4> QED  BY <4>1, PressingKeeps
        <3>2. CASE \E ms \in profile.times : Pass(ms)
            <4>1. \E ms : rp' = [rp EXCEPT !.elapsed = @ + ms]  BY <3>2 DEF Pass
            <4> QED  BY <1>1, <4>1, ClockLeaves
        <3>3. ~ResetKey /\ (\A k : ~ReplayKey(k)) /\ ~PauseKey
            <4>1. ui' # Pressing(ui)  BY <2>2, <3>1
            <4> QED  BY <2>1, <4>1 DEF ResetKey, ReplayKey, PauseKey
        <3>4. CASE Close \/ CloseFails \/ AddKey \/ \E k \in profile.keys : ViewKey(k)
            BY <3>4 DEF Close, CloseFails, AddKey, ViewKey, tuiVars
        <3>5. ~Frame
            <4>1. SUFFICES ASSUME Frame PROVE FALSE  OBVIOUS
            <4>2. PICK u : ui' = [u EXCEPT !.step = "look"]  BY <4>1 DEF Frame
            <4>3. "step" \in DOMAIN ui'  BY <2>2 DEF UiRecord, UiFields
            <4> QED  BY <4>2, <4>3
        <3>6. CASE ~TuiStep  BY <3>6, OthersRest
        <3> QED  BY <1>4, <3>2, <3>3, <3>4, <3>5, <3>6 DEF TuiStep, Render
    <2> QED  BY <2>1, <2>2, <2>3 DEF SeenInv
<1> QED  BY <1>2, <1>3, <1>4

LEMMA SetBackIsBehind ==
    ASSUME UiRecord(ui), SeenInv, rp # None => PlayerInv(rp), Next, SetsBack
    PROVE  Behind'
<1>1. rp # None /\ rp'.index < rp.index /\ rp'.paused  BY DEF SetsBack
<1>2. PlayerInv(rp) /\ PlayerInv(rp')  BY <1>1, PlayerFrame
<1>3. rp.index \in Nat /\ rp'.index \in Nat  BY <1>2, PlayerNumbers DEF PlayerInv
<1>4. ui.step = "keys" /\ ui' = Pressing(ui) /\ drawn' = drawn  BY DEF SetsBack, ReplayKey, Pressed
<1>5. ui'.step # "keys"
    <2>1. SameTargets(ui, ui)  BY FieldsKeep
    <2> QED  BY <1>4, <2>1, PressingKeeps
<1>6. drawn.fp.player # <<>> /\ drawn.fp.player[3] = rp.index  BY <1>1, <1>4 DEF SeenInv
<1> QED  BY <1>1, <1>3, <1>4, <1>5, <1>6 DEF Behind

\* What is drawn stays in step, whatever is written meanwhile.
LEMMA InStepKept ==
    ASSUME Started, Numbered, TargetsInv, AloneInv, ReplayInv, Next, InStep, drawn' = drawn,
           SessionsRenew, NewNumbered, ~SetsBack
    PROVE  InStep'
<1>1. UiMoves  BY UiSteps DEF TargetsInv
<1>2. OfTargets'
    <2>1. CASE stage = "boot"
        <3>1. ui' = ui  BY <2>1, BootUi
        <3> QED  BY <3>1, Zenon DEF InStep, OfTargets
    <2>2. CASE stage # "boot"
        <3>1. \E S : ui.targets \in Seq(S)  BY <2>2 DEF TargetsInv
        <3>2. \E ip : ui'.targets \in {ui.targets, Append(ui.targets, ip)}
            BY <1>1 DEF UiMoves, SameTargets
        <3>3. OfTargets  BY DEF InStep
        <3> QED  BY <3>1, <3>2, <3>3, TargetsInStep
    <2> QED  BY <2>1, <2>2
<1>3. OfSession'  BY SessionInStep DEF InStep
<1>4. OfPlayer'
    <2>1. rp = None => rp' = None  BY NoPlayer
    <2>2. ASSUME rp # None
          PROVE  /\ Target(ui') = Target(ui) /\ rp.index \in Nat
                 /\ \/ Rests(rp, rp')
                    \/ rp'.index > rp.index /\ rp'.index \in Nat
                    \/ ResetKey /\ rp'.index = rp.index
        <3>1. PlayerInv(rp) /\ PlayerInv(rp')  BY <2>2, PlayerFrame DEF ReplayInv
        <3>2. rp.index \in Nat /\ rp'.index \in Nat  BY <3>1, PlayerNumbers DEF PlayerInv
        <3>3. Target(ui') = Target(ui)
            <4>1. OneTarget(ui) /\ replies = {}  BY <2>2 DEF AloneInv
            <4>2. OneTarget(ui') /\ ui'.targets = ui.targets
                BY <1>1, <4>1 DEF UiMoves, SameTargets
            <4> QED  BY <4>1, <4>2 DEF Target, OneTarget
        <3>4. CASE TuiStep  BY <2>2, <3>1, <3>2, <3>3, <3>4, PlayerSteps
        <3>5. CASE ~TuiStep
            <4>1. rp' = rp  BY <3>5, OthersRest
            <4> QED  BY <3>2, <3>3, <4>1 DEF Rests
        <3> QED  BY <3>4, <3>5
    <2> QED  BY <2>1, <2>2, PlayerInStep DEF InStep
<1>5. drawn'.screen = [field \in ScreenFields |-> drawn'.screen[field]]
    BY DEF InStep
<1>6. drawn'.screen.chrome = <<ViewOf(drawn.fp)', OverlayOf(drawn.fp)', drawn'.screen.chrome[3]>>
    <2>1. ViewOf(drawn.fp)' = ViewOf(drawn.fp) /\ OverlayOf(drawn.fp)' = OverlayOf(drawn.fp)
        BY DEF ViewOf, OverlayOf
    <2> QED  BY <2>1 DEF InStep
<1> QED  BY <1>2, <1>3, <1>4, <1>5, <1>6 DEF InStep

FreshInv == Numbered /\ TargetsInv /\ AloneInv /\ ReplayInv /\ LookInv /\ SeenInv /\ DrawnInv

LEMMA FreshKept ==
    ASSUME FlowsInductive, FlowsInductive', FreshInv, Next
    PROVE  FreshInv'
<1> USE DEF FreshInv
<1>1. Started /\ Started' /\ SessionsShape /\ PendingShape /\ DOMAIN engine \subseteq DOMAIN sessions
    BY DEF FlowsInductive, Shapes
<1>2. UiRecord(ui)  BY DEF TargetsInv
<1>3. rp # None => PlayerInv(rp)  BY DEF ReplayInv
<1>4. (SessionsRenew /\ NewNumbered) \/ (SetsBack /\ DOMAIN sessions' = DOMAIN sessions /\ Numbered')
    BY <1>1, <1>3, SessionsAdvance
<1>5. Numbered'
    <2>1. CASE SessionsRenew /\ NewNumbered
        BY <2>1 DEF Numbered, SessionsRenew, NewNumbered, Renews
    <2> QED  BY <1>4, <2>1
<1>6. TargetsInv'  BY <1>1, TargetsKept
<1>7. AloneInv'  BY <1>1, AloneKept
<1>8. ReplayInv'
    <2>1. rp' # None => PlayerInv(rp')  BY <1>3, PlayerFrame, NoPlayer
    <2>2. PlayerInv(rp') => PlayerInv(rp)'
        <3>1. profile' = profile  BY <1>1, ProfileStays
        <3> QED  BY <3>1, Zenon DEF PlayerInv, Progress
    <2> QED  BY <2>1, <2>2 DEF ReplayInv
<1>9. LookInv'  BY <1>2, <1>3, <1>4, LookKept
<1>10. SeenInv'  BY <1>2, <1>3, SeenKept
<1>11. DrawnInv'
    <2> SUFFICES ASSUME drawn' # None PROVE Behind' \/ InStep'
        BY DEF DrawnInv
    <2>1. CASE Draw
        <3>1. stage # "boot" /\ LookFits  BY <2>1 DEF Draw, Shows, LookInv
        <3>2. Len(ui.targets) \in Nat  BY <3>1 DEF TargetsInv
        <3>3. rp # None => rp.index \in Nat  BY <1>3, PlayerNumbers DEF PlayerInv
        <3> QED  BY <1>2, <2>1, <3>1, <3>2, <3>3, DrawInStep
    <2>2. CASE ~Draw
        <3>1. drawn' = drawn  BY <2>2, OthersDraw
        <3>2. Behind \/ InStep  BY <3>1 DEF DrawnInv
        <3>3. CASE Behind  BY <1>2, <1>3, <2>2, <3>3, BehindKept
        <3>4. CASE SetsBack  BY <1>2, <1>3, <3>4, SetBackIsBehind
        <3>5. CASE InStep /\ ~SetsBack  BY <1>1, <1>4, <3>1, <3>5, InStepKept
        <3> QED  BY <3>2, <3>3, <3>4, <3>5
    <2> QED  BY <2>1, <2>2
<1> QED  BY <1>5, <1>6, <1>7, <1>8, <1>9, <1>10, <1>11

LEMMA StartsFresh ==
    ASSUME ProgramInit, FlowsInductive
    PROVE  Numbered /\ TargetsInv /\ AloneInv /\ LookInv /\ SeenInv /\ DrawnInv
<1>1. /\ stage = "boot" /\ NothingYet /\ drawn = None /\ replies = {} /\ ui = InitUi(profile)
      /\ rp # None => RunMode = "replay"
    BY DEF ProgramInit, Init, TuiInit, EnrichInit, NothingYet
<1> DEFINE saved == LoadPrefs(profile)
           n == NewSettings(saved.theme, saved.display, saved.key)
           settings == [n EXCEPT !.check = saved.check]
           theme == saved.theme
           display == saved.display
           update == profile.update
           left == profile.keysLeft
<1>2. ui = [targets |-> StartTargets, selected |-> 0, hop |-> None, paused |-> FALSE, overlay |-> "none",
            listIndex |-> 0, theme |-> theme, display |-> display,
            settings |-> settings, input |-> NoInput,
            update |-> update, step |-> "poll", left |-> left, nextId |-> 1]
    BY <1>1, Zenon DEF InitUi
<1> HIDE DEF settings, theme, display, update, left
<1>3. UiRecord(ui) /\ ui.targets = StartTargets /\ ui.selected = 0 /\ ui.overlay = "none" /\ ui.step = "poll"
    BY <1>2 DEF UiRecord, UiFields
<1>4. RunMode = "replay" => Len(StartTargets) = 1
    BY DEF RunMode, Mode, StartTargets, ReplayOrDiff
<1>5. Numbered  BY <1>1 DEF NothingYet, Numbered
<1>6. TargetsInv  BY <1>1, <1>3 DEF TargetsInv
<1>7. AloneInv  BY <1>1, <1>3, <1>4 DEF AloneInv, OneTarget, NothingYet
<1>8. LookInv /\ SeenInv /\ DrawnInv  BY <1>1, <1>3 DEF LookInv, SeenInv, DrawnInv
<1> QED  BY <1>5, <1>6, <1>7, <1>8

\* Equal fingerprints, equal screens: the screen last drawn is in step, unless the
\* player was set back since, and then its fingerprint is another.
LEMMA FreshScreen ==
    ASSUME FreshInv
    PROVE  ScreenFresh
<1> SUFFICES ASSUME Shows, drawn # None, drawn.fp = Fingerprint PROVE drawn.screen = Screen
    BY DEF ScreenFresh
<1> DEFINE f == Fingerprint
           s == drawn.screen
           a == Target(ui)
<1>1. /\ rp = None => f.player = <<>>
      /\ rp # None => f.player # <<>> /\ f.player[3] = rp.index /\ BarOf(f) = ProgressBar
      /\ ViewOf(f) = MainView /\ OverlayOf(f) = Overlay
      /\ f.targets = Len(ui.targets) /\ f.selected = ui.selected
    BY FingerprintTells
<1>3. f.generation = Generation(a)
    BY FingerprintTells
<1> HIDE DEF f
<1>4. drawn.fp = f  BY DEF f
<1>5. InStep  BY <1>1, <1>4 DEF FreshInv, DrawnInv, Behind
<1>6. s.target = a  BY <1>1, <1>4, <1>5 DEF InStep, OfTargets, Target
<1>7. s.session = IF a \in DOMAIN sessions THEN Shown(sessions[a]) ELSE None
    <2>1. CASE a \in DOMAIN sessions
        <3>1. f.generation = sessions[a].gen /\ sessions[a].gen \in Nat
            BY <1>3, <2>1 DEF Generation, FreshInv, Numbered
        <3>2. f.generation # None  BY <3>1, NoneAssumption
        <3> QED  BY <1>4, <1>5, <1>6, <2>1, <3>1, <3>2 DEF InStep, OfSession
    <2>2. CASE a \notin DOMAIN sessions
        BY <1>5, <1>6, <2>2 DEF InStep, OfSession
    <2> QED  BY <2>1, <2>2
<1>8. s.shown = IF rp = None THEN None ELSE rp.shown
    <2>1. CASE rp = None  BY <1>1, <1>4, <1>5, <2>1 DEF InStep, OfPlayer
    <2>2. CASE rp # None  BY <1>1, <1>3, <1>4, <1>5, <2>2 DEF InStep, OfPlayer
    <2> QED  BY <2>1, <2>2
<1>9. s = [field \in ScreenFields |-> s[field]]  BY <1>5 DEF InStep
<1>10. s.chrome = <<MainView, Overlay, ProgressBar>>
    <2>1. s.chrome[3] = ProgressBar
        <3>1. CASE rp = None
            <4>1. ProgressBar = <<>>  BY <3>1 DEF ProgressBar
            <4> QED  BY <1>1, <1>4, <1>5, <3>1, <4>1 DEF InStep, OfPlayer
        <3>2. CASE rp # None  BY <1>1, <1>4, <1>5, <3>2 DEF InStep, OfPlayer
        <3> QED  BY <3>1, <3>2
    <2>2. s.chrome = <<ViewOf(f), OverlayOf(f), s.chrome[3]>>  BY <1>4, <1>5 DEF InStep
    <2> QED  BY <1>1, <2>1, <2>2
<1> DEFINE c == <<MainView, Overlay, ProgressBar>>
<1>11. s.chrome = c  BY <1>10
<1>12. Screen = [target |-> a,
                 session |-> IF a \in DOMAIN sessions THEN Shown(sessions[a]) ELSE None,
                 shown |-> IF rp = None THEN None ELSE rp.shown,
                 chrome |-> c]
    BY DEF Screen, HasSession, SessionOf
<1> HIDE DEF s, a, c
<1> QED  BY <1>6, <1>7, <1>8, <1>9, <1>11, <1>12 DEF s, ScreenFields

\* A screen is drawn anew when anything it shows has changed: as long as the
\* fingerprint is the one drawn last, the screen is what a fresh drawing would
\* show, whoever wrote the sessions meanwhile (run_app, RenderFingerprint).
THEOREM ScreenStaysFresh == Spec => []ScreenFresh
<1>1. ProgramInit => FlowsInductive /\ FreshInv
    BY StartsFlowing, StartsFresh, PlayerStarts DEF FreshInv
<1>2. FlowsInductive /\ FreshInv /\ [Next]_vars => FlowsInductive' /\ FreshInv'
    <2> SUFFICES ASSUME FlowsInductive, FreshInv, [Next]_vars PROVE FlowsInductive' /\ FreshInv'
        OBVIOUS
    <2>1. FlowsInductive'  BY FlowsStay
    <2>2. CASE Next  BY <2>1, <2>2, FreshKept
    <2>3. CASE UNCHANGED vars
        <3>1. UNCHANGED <<stage, profile, sessions, mgr, replies, ui, rp, look, drawn>>
            BY <2>3 DEF vars, lifecycleVars, mainVars, mgrVars, tuiVars
        <3>2. Numbered' /\ ReplayInv' /\ SeenInv'
            BY <3>1, Zenon DEF FreshInv, Numbered, ReplayInv, SeenInv, PlayerInv, Progress
        <3>5. LookInv'
            BY <3>1, Zenon DEF FreshInv, LookInv, LookFits, Target, ViewOf, OverlayOf, BarOf, MainView, Overlay, ProgressBar
        <3>3. TargetsInv' /\ AloneInv'
            BY <3>1, Zenon DEF FreshInv, TargetsInv, UiRecord, AloneInv, OneTarget, RunMode, Args, StartTargets
        <3>4. DrawnInv'
            BY <3>1, Zenon DEF FreshInv, DrawnInv, Behind, InStep, OfTargets, OfSession, OfPlayer, Generation, Target,
                                ViewOf, OverlayOf, BarOf, Shown
        <3> QED  BY <2>1, <3>2, <3>3, <3>4, <3>5 DEF FreshInv
    <2> QED  BY <2>2, <2>3
<1>3. FreshInv => ScreenFresh  BY FreshScreen
<1> QED  BY <1>1, <1>2, <1>3, PTL DEF Spec
-----------------------------------------------------------------------------
(* The caches of the workers.                                               *)

\* The two folds of a cache: its entries that are not stale, and those of other
\* addresses.
LiveOne(c, e, kept) == IF Stale(e) THEN kept ELSE Append(kept, e)
OtherOne(a, e, kept) == IF e.addr = a THEN kept ELSE Append(kept, e)
LF == INSTANCE FoldTheory WITH Op <- LiveOne, Choice <- Highest
AF == INSTANCE FoldTheory WITH Op <- OtherOne, Choice <- Highest

LEMMA FoldingCaches ==
    /\ LF!Greatest /\ \A k \in Nat : LF!Chooses(1..k)
    /\ AF!Greatest /\ \A k \in Nat : AF!Chooses(1..k)
BY MaxGreatest DEF LF!Greatest, LF!Chooses, AF!Greatest, AF!Chooses

LEMMA LiveType ==
    ASSUME NEW S, NEW es \in Seq(S)
    PROVE  Live(es) \in Seq(S)
<1> DEFINE n == Len(es)
           T == [k \in Nat |-> Seq(S)]
<1>1. n \in Nat /\ DOMAIN es = 1..n  OBVIOUS
<1> HIDE DEF n
<1>2. Live(es) = LF!Iter(0, es, <<>>, 1..n)[1..n]
    BY <1>1, Zenon DEF Live, FoldLeft, MapThenFoldSet, LF!Iter, LF!Recursion, LF!Step, LiveOne, Highest
<1>3. <<>> \in T[0]  OBVIOUS
<1>4. ASSUME NEW k \in Nat, k < n, NEW r \in T[k] PROVE LiveOne(0, es[k + 1], r) \in T[k + 1]
    <2>1. k + 1 \in 1..n  BY <1>1, <1>4
    <2>2. es[k + 1] \in S  BY <1>1, <2>1
    <2>3. r \in Seq(S) /\ T[k + 1] = Seq(S)  OBVIOUS
    <2> HIDE DEF T
    <2> QED  BY <2>2, <2>3 DEF LiveOne
<1> HIDE DEF T
<1>5. LF!Iter(0, es, <<>>, 1..n)[1..n] \in T[n]
    BY <1>1, <1>3, <1>4, FoldingCaches, LF!Keeps
<1> QED  BY <1>1, <1>2, <1>5 DEF T

LEMMA OthersType ==
    ASSUME NEW S, NEW es \in Seq(S), NEW a
    PROVE  Others(es, a) \in Seq(S)
<1> DEFINE n == Len(es)
           T == [k \in Nat |-> Seq(S)]
<1>1. n \in Nat /\ DOMAIN es = 1..n  OBVIOUS
<1> HIDE DEF n
<1>2. Others(es, a) = AF!Iter(a, es, <<>>, 1..n)[1..n]
    BY <1>1, Zenon DEF Others, FoldLeft, MapThenFoldSet, AF!Iter, AF!Recursion, AF!Step, OtherOne, Highest
<1>3. <<>> \in T[0]  OBVIOUS
<1>4. ASSUME NEW k \in Nat, k < n, NEW r \in T[k] PROVE OtherOne(a, es[k + 1], r) \in T[k + 1]
    <2>1. k + 1 \in 1..n  BY <1>1, <1>4
    <2>2. es[k + 1] \in S  BY <1>1, <2>1
    <2>3. r \in Seq(S) /\ T[k + 1] = Seq(S)  OBVIOUS
    <2> HIDE DEF T
    <2> QED  BY <2>2, <2>3 DEF OtherOne
<1> HIDE DEF T
<1>5. AF!Iter(a, es, <<>>, 1..n)[1..n] \in T[n]
    BY <1>1, <1>3, <1>4, FoldingCaches, AF!Keeps
<1> QED  BY <1>1, <1>2, <1>5 DEF T

\* Whatever a cache held, what is left of it is no more than its cap.
LEMMA PrunedFits ==
    ASSUME NEW S, NEW es \in Seq(S)
    PROVE  Pruned(es) \in Seq(S) /\ Len(Pruned(es)) <= Cap
<1> DEFINE kept == Live(es)
           from == Len(kept) - Cap + 1
<1>1. kept \in Seq(S) /\ Len(kept) \in Nat /\ Cap \in Nat  BY LiveType, TablesAssumption
<1> HIDE DEF kept
<1>2. CASE Len(kept) > Cap
    <2>1. from \in 1..(Len(kept) + 1) /\ Len(kept) - from + 1 = Cap /\ Len(kept) \in (from - 1)..Len(kept)
        BY <1>1, <1>2
    <2>2. Pruned(es) = SubSeq(kept, from, Len(kept))  BY <1>2 DEF Pruned, kept
    <2> HIDE DEF from
    <2>3. SubSeq(kept, from, Len(kept)) \in Seq(S)
        <3>1. from \in 1..(Len(kept) + 1)  BY <2>1
        <3> QED  BY <1>1, <3>1
    <2>4. Len(SubSeq(kept, from, Len(kept))) = Cap
        BY <1>1, <2>1
    <2> QED  BY <1>1, <2>2, <2>3, <2>4
<1>3. CASE ~(Len(kept) > Cap)
    <2>1. Pruned(es) = kept  BY <1>3 DEF Pruned, kept
    <2> QED  BY <1>1, <1>3, <2>1
<1> QED  BY <1>2, <1>3

\* A run has the caches of its workers, each within its cap.
Bounded(c) == (\E S : c \in Seq(S)) /\ Len(c) <= Cap
CachesInv ==
    /\ DOMAIN worker = profile.workers
    /\ cache = [k \in profile.workers |-> cache[k]] /\ \A k \in profile.workers : Bounded(cache[k])

\* An entry is cached, or one expires, or a cache is cleared.
CacheWritten == \E k \in profile.workers : \E c : Bounded(c) /\ cache' = [cache EXCEPT ![k] = c]

LEMMA CacheMoves ==
    ASSUME EnrichStep
    PROVE  \/ UNCHANGED cache
           \/ \E l \in lookups : Keep(l)
           \/ \E k \in DOMAIN worker : Age(k)
           \/ RefreshClear
<1>1. CASE \E k \in DOMAIN worker : StartBatch(k) \/ FinishBatch(k)  BY <1>1 DEF StartBatch, FinishBatch
<1>2. CASE \E k \in DOMAIN worker : Age(k)  BY <1>2
<1>3. CASE \E l \in lookups : LookupStep(l)
    BY <1>3 DEF LookupStep, Check, Ask, Match, Load, Enter, LoadData
<1>4. CASE BackoffOver  BY <1>4 DEF BackoffOver
<1>5. CASE RefreshStep  BY <1>5 DEF RefreshStep, RefreshFetch, RefreshReplace
<1> QED  BY <1>1, <1>2, <1>3, <1>4, <1>5 DEF EnrichStep

\* No worker comes or goes: those of the profile are there from the start.
LEMMA WorkersStay ==
    ASSUME Started, Next, DOMAIN worker = profile.workers
    PROVE  DOMAIN worker' = profile.workers
<1> USE DEF taskVars, lifecycleVars
<1>1. CASE LifecycleStep /\ UNCHANGED <<tuiVars, enrichVars>>
    <2>1. CASE BootTracing  BY <2>1 DEF BootTracing
    <2>2. CASE MainStep /\ ~BootTracing  BY <2>2, MainFrame
    <2>3. CASE Signal  BY <2>3 DEF Signal
    <2>4. CASE MgrStep  BY <2>4, MgrFrame
    <2>5. CASE \E ip \in DOMAIN engine : EngineStep(ip)  BY <2>5, EngineFrame
    <2>6. CASE \E fam \in Families : ReceiverStep(fam)  BY <2>6, ReceiverFrame
    <2>7. CASE \E k \in DOMAIN worker : WorkerEnds(k)  BY <2>7 DEF WorkerEnds
    <2> QED  BY <1>1, <2>1, <2>2, <2>3, <2>4, <2>5, <2>6, <2>7 DEF LifecycleStep
<1>2. CASE TuiStep /\ UNCHANGED enrichVars  BY <1>2, TuiFrame
<1>3. CASE EnrichStep /\ UNCHANGED tuiVars
    <2>1. CASE UNCHANGED worker  BY <2>1
    <2>2. CASE \E k \in DOMAIN worker : StartBatch(k) \/ FinishBatch(k)
        BY <2>2 DEF StartBatch, FinishBatch
    <2> QED  BY <1>3, <2>1, <2>2, EnrichFrame
<1>4. CASE RefreshKey  BY <1>4 DEF RefreshKey
<1>5. CASE Ended  BY <1>5 DEF Ended, vars
<1> QED  BY <1>1, <1>2, <1>3, <1>4, <1>5 DEF Next

\* What each step of a worker leaves in its cache.
LEMMA KeepFits ==
    ASSUME LookupsInv, CachesInv, NEW l \in lookups, Keep(l)
    PROVE  CacheWritten
<1> DEFINE entry == [addr |-> l.addr, result |-> l.result, expired |-> FALSE]
           k == l.kind
           es == Append(Others(cache[k], l.addr), entry)
<1>1. k \in profile.workers  BY DEF LookupsInv, LookupOf, CachesInv
<1>2. PICK S : cache[k] \in Seq(S)  BY <1>1 DEF CachesInv, Bounded
<1>3. cache' = [cache EXCEPT ![k] = Pruned(es)]
    BY <1>1 DEF Keep, CachesInv
<1> DEFINE U == S \cup {entry}
<1>4. entry \in U /\ cache[k] \in Seq(U)
    <2> HIDE DEF entry, k
    <2> QED  BY <1>2
<1> HIDE DEF entry, U
<1>5. Others(cache[k], l.addr) \in Seq(U)  BY <1>4, OthersType
<1>6. es \in Seq(U)  BY <1>4, <1>5
<1> HIDE DEF es
<1>7. Bounded(Pruned(es))  BY <1>6, PrunedFits DEF Bounded
<1> QED  BY <1>1, <1>3, <1>7 DEF CacheWritten

LEMMA AgeFits ==
    ASSUME CachesInv, NEW k \in DOMAIN worker, Age(k)
    PROVE  CacheWritten
<1>1. PICK i \in 1..Len(cache[k]) : cache' = [cache EXCEPT ![k][i].expired = TRUE]  BY DEF Age
<1>2. k \in profile.workers  BY DEF CachesInv
<1>3. PICK S : cache[k] \in Seq(S) /\ Len(cache[k]) <= Cap  BY <1>2 DEF CachesInv, Bounded
<1> DEFINE e == [cache[k][i] EXCEPT !.expired = TRUE]
           s == cache[k]
           c == [s EXCEPT ![i] = e]
           U == S \cup {e}
<1>4. cache' = [cache EXCEPT ![k] = c]  BY <1>1, <1>2, <1>3 DEF CachesInv
<1>5. e \in U /\ s \in Seq(U) /\ i \in 1..Len(s) /\ Len(s) <= Cap
    <2> HIDE DEF e
    <2> QED  BY <1>1, <1>3
<1> HIDE DEF e, U, s
<1>6. c \in Seq(U) /\ Len(c) = Len(s)  BY <1>5
<1> HIDE DEF c
<1>7. Bounded(c)  BY <1>5, <1>6 DEF Bounded
<1> QED  BY <1>2, <1>4, <1>7 DEF CacheWritten

LEMMA ClearFits ==
    ASSUME CachesInv, RefreshClear, cache' # cache
    PROVE  CacheWritten
<1>1. cache' = [cache EXCEPT !["ix"] = <<>>]  BY DEF RefreshClear
<1>2. "ix" \in profile.workers
    <2> SUFFICES ASSUME "ix" \notin profile.workers PROVE cache' = cache
        OBVIOUS
    <2> QED  BY <1>1 DEF CachesInv
<1>3. Bounded(<<>>)
    <2>1. <<>> \in Seq({}) /\ Len(<<>>) = 0 /\ 0 <= Cap  BY TablesAssumption
    <2> QED  BY <2>1 DEF Bounded
<1> QED  BY <1>1, <1>2, <1>3 DEF CacheWritten

LEMMA CachesKept ==
    ASSUME Started, LookupsInv, CachesInv, Next
    PROVE  CachesInv'
<1> USE DEF lifecycleVars, taskVars, enrichVars
<1>1. profile' = profile /\ DOMAIN worker' = profile.workers
    BY ProfileStays, WorkersStay DEF CachesInv
<1>2. CASE UNCHANGED cache  BY <1>1, <1>2 DEF CachesInv
<1>3. CASE CacheWritten
    <2>1. PICK k \in profile.workers : \E c : Bounded(c) /\ cache' = [cache EXCEPT ![k] = c]
        BY <1>3 DEF CacheWritten
    <2>2. PICK c : Bounded(c) /\ cache' = [cache EXCEPT ![k] = c]  BY <2>1
    <2> QED  BY <1>1, <2>2 DEF CachesInv
<1>4. EnrichStep => CacheWritten \/ UNCHANGED cache
    BY CacheMoves, KeepFits, AgeFits, ClearFits
<1>5. ~EnrichStep => UNCHANGED cache
    BY DEF Next, RefreshKey, Ended, vars
<1> QED  BY <1>2, <1>3, <1>4, <1>5

-----------------------------------------------------------------------------
(* The stages of the program, and the rounds of its probes.                 *)

\* The stages of the main task, and the ways a program ends.
StagesInv ==
    /\ stage \in {"boot", "engines", "settle", "loop", "tui", "receivers", "manager", "workers"}
    /\ exit \in {None, "ok", "error", "130"} /\ cancelled \in BOOLEAN

LEMMA StagesKept ==
    ASSUME StagesInv, Next
    PROVE  StagesInv'
<1> USE DEF StagesInv, mainVars, GoTo, Leave
<1>1. CASE UNCHANGED <<stage, exit>> /\ cancelled' \in BOOLEAN  BY <1>1
<1>2. CASE LifecycleStep /\ UNCHANGED <<tuiVars, enrichVars>>
    <2>1. CASE MainStep
        <3>1. CASE BootFails  BY <3>1 DEF BootFails
        <3>2. CASE BootPrint  BY <3>2 DEF BootPrint
        <3>3. CASE BootReplay  BY <3>3 DEF BootReplay
        <3>4. CASE BootTracing  BY <3>4 DEF BootTracing, FirstStage
        <3>5. CASE AwaitEngines  BY <3>5 DEF AwaitEngines, Await
        <3>6. CASE AwaitReceivers  BY <3>6 DEF AwaitReceivers, Await
        <3>7. CASE AwaitManager  BY <3>7 DEF AwaitManager, Await
        <3>8. CASE Settle  BY <3>8 DEF Settle
        <3>9. CASE Emit  BY <3>9 DEF Emit
        <3>10. CASE LoopEnds  BY <3>10 DEF LoopEnds
        <3>11. CASE Finish  BY <3>11 DEF Finish
        <3> QED  BY <2>1, <3>1, <3>2, <3>3, <3>4, <3>5, <3>6, <3>7, <3>8, <3>9, <3>10, <3>11 DEF MainStep
    <2>2. CASE Signal  BY <2>2 DEF Signal
    <2>3. CASE MgrStep  BY <2>3, MgrFrame
    <2>4. CASE \E ip \in DOMAIN engine : EngineStep(ip)
        <3>1. PICK ip : EngineStep(ip)  BY <2>4
        <3>2. cancelled' \in BOOLEAN
            BY <3>1 DEF EngineStep, EngineStart, Round, CountReached, EngineCancelled
        <3> QED  BY <1>1, <3>1, <3>2, EngineFrame
    <2>5. CASE \E fam \in Families : ReceiverStep(fam)  BY <2>5, ReceiverFrame
    <2>6. CASE \E k \in DOMAIN worker : WorkerEnds(k)  BY <2>6 DEF WorkerEnds
    <2> QED  BY <1>2, <2>1, <2>2, <2>3, <2>4, <2>5, <2>6 DEF LifecycleStep
<1>3. CASE TuiStep
    <2>1. stage' \in {stage, "engines"} /\ exit' \in {exit, "ok", "error"}  BY <1>3, TuiFrame
    <2>2. cancelled' \in BOOLEAN
        BY <1>3 DEF TuiStep, Frame, Render, Look, Draw, DrawingUnchanged, Close, CloseFails, Pass, ViewKey, ReplayKey, PauseKey,
                    ResetKey, AddKey, lifecycleVars, mainVars
    <2> QED  BY <2>1, <2>2
<1>4. CASE EnrichStep /\ UNCHANGED tuiVars  BY <1>4, EnrichFrame
<1>5. CASE RefreshKey  BY <1>5 DEF RefreshKey, lifecycleVars
<1>6. CASE Ended  BY <1>6 DEF Ended, vars, lifecycleVars
<1> QED  BY <1>2, <1>3, <1>4, <1>5, <1>6 DEF Next

\* A probe that is pending was sent in a round its engine has begun.
RoundsInv == \A p \in pending : p[1] \in DOMAIN engine /\ p[2] <= engine[p[1]].rounds

LEMMA RoundsStay ==
    ASSUME RoundsInv, EnginesShape, PendingShape, pending' \subseteq pending, DOMAIN engine \subseteq DOMAIN engine',
           \A ip \in DOMAIN engine : engine'[ip].rounds \in Int /\ engine[ip].rounds <= engine'[ip].rounds
    PROVE  RoundsInv'
<1> SUFFICES ASSUME NEW p \in pending'
             PROVE  p[1] \in DOMAIN engine' /\ p[2] <= engine'[p[1]].rounds
    BY DEF RoundsInv
<1> DEFINE ip == p[1]
           n == p[2]
<1>1. ip \in DOMAIN engine /\ n \in Nat /\ n <= engine[ip].rounds /\ engine[ip].rounds \in Nat
    BY DEF RoundsInv, PendingShape, EnginesShape, EngineRecord
<1> HIDE DEF ip, n
<1>2. ip \in DOMAIN engine' /\ n <= engine'[ip].rounds  BY <1>1
<1> QED  BY <1>2 DEF ip, n

LEMMA RoundsKept ==
    ASSUME FlowsInductive, RoundsInv, Next
    PROVE  RoundsInv'
<1> USE DEF lifecycleVars, taskVars
<1>1. Started /\ EnginesShape /\ PendingShape /\ \A ip \in DOMAIN engine : engine[ip].rounds \in Nat
    BY DEF FlowsInductive, Shapes, EnginesShape, EngineRecord
<1>2. CASE UNCHANGED engine /\ pending' \subseteq pending  BY <1>1, <1>2, RoundsStay
<1>3. CASE LifecycleStep /\ UNCHANGED <<tuiVars, enrichVars>>
    <2>1. CASE BootTracing
        <3>1. pending' = {}  BY <1>1, <2>1 DEF BootTracing, Started, NothingYet
        <3> QED  BY <3>1 DEF RoundsInv
    <2>2. CASE MainStep /\ ~BootTracing  BY <1>2, <2>2, MainFrame
    <2>3. CASE Signal  BY <1>2, <2>3 DEF Signal
    <2>4. CASE MgrStep
        <3>1. CASE MgrSpawns
            <4>1. /\ engine' = Inserted(engine, mgr.ip, NewEngine("manager")) /\ pending' = pending
                  /\ mgr.pc = "inserted"
                BY <2>4, <3>1, MgrFrame DEF MgrSpawns
            <4>2. mgr.ip \notin DOMAIN engine  BY <4>1 DEF FlowsInductive, FlowsInv
            <4>3. DOMAIN engine \subseteq DOMAIN engine' /\ \A ip \in DOMAIN engine : engine'[ip] = engine[ip]
                BY <4>1, <4>2 DEF Inserted
            <4> QED  BY <1>1, <4>1, <4>3, RoundsStay
        <3> QED  BY <1>2, <2>4, <3>1, MgrFrame
    <2>5. CASE \E ip \in DOMAIN engine : EngineStep(ip)
        <3> PICK ip \in DOMAIN engine : EngineStep(ip)  BY <2>5
        <3>1. CASE Round(ip)
            <4> DEFINE n == engine[ip].rounds + 1
            <4>1. engine' = [engine EXCEPT ![ip].rounds = n]  BY <3>1 DEF Round
            <4>2. pending' = pending \cup {<<ip, n, ttl>> : ttl \in 1..Len(profile.path[ip])}
                BY <3>1 DEF Round
            <4>3. n \in Nat /\ engine[ip].rounds <= n  BY <1>1
            <4> HIDE DEF n
            <4>4. DOMAIN engine' = DOMAIN engine /\ engine'[ip].rounds = n
                  /\ \A d \in DOMAIN engine \ {ip} : engine'[d] = engine[d]
                BY <1>1, <4>1 DEF EnginesShape, EngineRecord
            <4> SUFFICES ASSUME NEW p \in pending' PROVE p[1] \in DOMAIN engine' /\ p[2] <= engine'[p[1]].rounds
                BY DEF RoundsInv
            <4>5. CASE p \in pending
                <5>1. p[1] \in DOMAIN engine /\ p[2] \in Nat /\ p[2] <= engine[p[1]].rounds
                    BY <1>1, <4>5 DEF RoundsInv, PendingShape
                <5>2. engine[p[1]].rounds <= engine'[p[1]].rounds /\ engine[p[1]].rounds \in Nat /\ engine'[p[1]].rounds \in Nat
                    BY <1>1, <4>3, <4>4, <5>1
                <5> QED  BY <4>4, <5>1, <5>2
            <4>6. CASE p \notin pending
                <5>1. PICK ttl : p = <<ip, n, ttl>>  BY <4>2, <4>6
                <5> QED  BY <4>3, <4>4, <5>1
            <4> QED  BY <4>5, <4>6
        <3>2. CASE ~Round(ip)
            <4>1. pending' = pending  BY <3>2, EngineFrame
            <4>2. DOMAIN engine' = DOMAIN engine
                  /\ \A d \in DOMAIN engine : engine'[d].rounds = engine[d].rounds
                <5>1. CASE EngineStart(ip)
                    <6>1. \/ \E works : engine' = [engine EXCEPT ![ip].pc = "run", ![ip].works = works]
                          \/ engine' = [engine EXCEPT ![ip].pc = "failed"]
                        BY <5>1 DEF EngineStart
                    <6>2. CASE engine' = [engine EXCEPT ![ip].pc = "failed"]
                        BY <1>1, <6>2 DEF EnginesShape, EngineRecord
                    <6>3. ASSUME NEW works, engine' = [engine EXCEPT ![ip].pc = "run", ![ip].works = works]
                          PROVE  /\ DOMAIN engine' = DOMAIN engine
                                 /\ \A d \in DOMAIN engine : engine'[d].rounds = engine[d].rounds
                        BY <1>1, <6>3 DEF EnginesShape, EngineRecord
                    <6> QED  BY <6>1, <6>2, <6>3
                <5>2. CASE CountReached(ip) \/ EngineCancelled(ip)
                    BY <1>1, <5>2 DEF CountReached, EngineCancelled, EnginesShape, EngineRecord
                <5> QED  BY <3>2, <5>1, <5>2 DEF EngineStep
            <4> QED  BY <1>1, <4>1, <4>2, RoundsStay
        <3> QED  BY <3>1, <3>2
    <2>6. CASE \E fam \in Families : ReceiverStep(fam)
        <3>1. PICK fam \in Families : ReceiverStep(fam)  BY <2>6
        <3>2. pending' \subseteq pending
            BY <3>1, ReceiverFrame DEF ReceiverFails, Answered, TimedOut, Flush
        <3> QED  BY <1>2, <3>1, <3>2, ReceiverFrame
    <2>7. CASE \E k \in DOMAIN worker : WorkerEnds(k)  BY <1>2, <2>7 DEF WorkerEnds
    <2> QED  BY <1>3, <2>1, <2>2, <2>3, <2>4, <2>5, <2>6, <2>7 DEF LifecycleStep
<1>4. CASE TuiStep /\ UNCHANGED enrichVars  BY <1>2, <1>4, TuiFrame
<1>5. CASE EnrichStep /\ UNCHANGED tuiVars  BY <1>2, <1>5, EnrichFrame
<1>6. CASE RefreshKey  BY <1>2, <1>6 DEF RefreshKey
<1>7. CASE Ended  BY <1>2, <1>7 DEF Ended, vars
<1> QED  BY <1>3, <1>4, <1>5, <1>6, <1>7 DEF Next

-----------------------------------------------------------------------------
(* What is selected in the interface.                                       *)

\* An interface fits when the selected target is one of the targets, if there are
\* any, the selected hop one of its session or the one of a replay, the rows
\* and themes chosen are there, and a request is open in its overlay only.
SettingsFields == {"section", "theme", "display", "key", "check"}
InputFields == {"text", "pending", "resolving", "error"}
Themes == 0..(NumThemes - 1)
LastHop(a) == IF rp # None THEN 0 ELSE HopLimit(a) - 1

Placed(u) == u.selected \in Nat /\ (u.selected < Len(u.targets) \/ (u.targets = <<>> /\ u.selected = 0))
HopOf(a, hop) == a \in DOMAIN profile.path /\ hop \in 0..LastHop(a)
HopFits(u) ==
    /\ u.hop # None => HopOf(Target(u), u.hop)
    /\ u.overlay = "detail" => u.hop # None
RowOf(u, i) == i \in Nat /\ i < Len(u.targets)
ListFits(u) == u.overlay = "list" => RowOf(u, u.listIndex)
SettingsFit(s) ==
    s = [field \in SettingsFields |-> s[field]] /\ s.theme \in Themes /\ s.section \in 0..(Sections - 1)
InputFit(x) ==
    x = [field \in InputFields |-> x[field]] /\ x.text \in {None} \cup DOMAIN profile.dns
InputFits(u) ==
    /\ InputFit(u.input) /\ u.nextId \in Nat
    /\ u.overlay # "input" => u.input.pending = None
UiFits(u) ==
    /\ UiRecord(u) /\ (\E S : u.targets \in Seq(S))
    /\ Placed(u) /\ HopFits(u) /\ ListFits(u)
    /\ u.theme \in Themes /\ SettingsFit(u.settings) /\ InputFits(u)

\* A view is one before it but for some of its fields.
IsBut(v, u, fields) == UiRecord(v) /\ \A field \in UiFields \ fields : v[field] = u[field]

\* Each field that a key or an answer may change, on its own.
LEMMA HopChanges ==
    ASSUME NEW u, UiFits(u), NEW v
    PROVE  /\ HopOf(Target(u), v) => UiFits([u EXCEPT !.hop = v])
           /\ u.overlay # "detail" => UiFits([u EXCEPT !.hop = None])
<1> DEFINE w == [u EXCEPT !.hop = v]
           x == [u EXCEPT !.hop = None]
<1>1. IsBut(w, u, {"hop"}) /\ w.hop = v
    BY DEF UiFits, UiRecord, UiFields, IsBut
<1>2. IsBut(x, u, {"hop"}) /\ x.hop = None
    BY DEF UiFits, UiRecord, UiFields, IsBut
<1> HIDE DEF w, x
<1>3. HopOf(Target(u), v) => UiFits(w)
    <2>1. Target(w) = Target(u)  BY <1>1 DEF Target, IsBut, UiFields
    <2>2. v = None => ~HopOf(Target(u), v)
        BY NoneAssumption DEF HopOf
    <2> QED  BY <1>1, <2>1, <2>2 DEF UiFits, Placed, HopFits, ListFits, RowOf, InputFits, IsBut, UiFields
<1>4. u.overlay # "detail" => UiFits(x)
    BY <1>2 DEF UiFits, Placed, HopFits, ListFits, RowOf, InputFits, IsBut, UiFields
<1> QED  BY <1>3, <1>4 DEF w, x

LEMMA LabelChanges ==
    ASSUME NEW u, UiFits(u), NEW v
    PROVE  UiFits([u EXCEPT !.paused = v]) /\ UiFits([u EXCEPT !.update = v])
<1> USE DEF IsBut, UiFields
<1> DEFINE w == [u EXCEPT !.paused = v]
           x == [u EXCEPT !.update = v]
<1>1. IsBut(w, u, {"paused"}) /\ IsBut(x, u, {"update"})
    BY DEF UiFits, UiRecord
<1> HIDE DEF w, x
<1>2. Target(w) = Target(u) /\ Target(x) = Target(u)  BY <1>1 DEF Target
<1>3. UiFits(w)  BY <1>1, <1>2 DEF UiFits, Placed, HopFits, ListFits, RowOf, InputFits
<1>4. UiFits(x)  BY <1>1, <1>2 DEF UiFits, Placed, HopFits, ListFits, RowOf, InputFits
<1> QED  BY <1>3, <1>4 DEF w, x

LEMMA StepFits ==
    ASSUME NEW u, UiFits(u), NEW x
    PROVE  UiFits([u EXCEPT !.step = x])
<1> USE DEF IsBut, UiFields
<1> DEFINE y == [u EXCEPT !.step = x]
<1>1. IsBut(y, u, {"step"})  BY DEF UiFits, UiRecord
<1> HIDE DEF y
<1>2. Target(y) = Target(u)  BY <1>1 DEF Target
<1>3. UiFits(y)  BY <1>1, <1>2 DEF UiFits, Placed, HopFits, ListFits, RowOf, InputFits
<1> QED  BY <1>3 DEF y

LEMMA OverlayChanges ==
    ASSUME NEW u, UiFits(u), u.overlay # "input", NEW i, NEW x \in {"none", "help", "settings", "detail"}
    PROVE  /\ (x = "detail" => u.hop # None) => UiFits([u EXCEPT !.overlay = x])
           /\ RowOf(u, i) => UiFits([u EXCEPT !.overlay = "list", !.listIndex = i])
           /\ RowOf(u, i) => UiFits([u EXCEPT !.listIndex = i])
<1> USE DEF IsBut, UiFields
<1> DEFINE v == [u EXCEPT !.overlay = x]
           w == [u EXCEPT !.overlay = "list", !.listIndex = i]
           y == [u EXCEPT !.listIndex = i]
<1>1. /\ IsBut(v, u, {"overlay"}) /\ v.overlay = x
      /\ IsBut(w, u, {"overlay", "listIndex"}) /\ w.overlay = "list" /\ w.listIndex = i
      /\ IsBut(y, u, {"listIndex"}) /\ y.listIndex = i
    BY DEF UiFits, UiRecord
<1> HIDE DEF v, w, y
<1>2. Target(v) = Target(u) /\ Target(w) = Target(u) /\ Target(y) = Target(u)  BY <1>1 DEF Target
<1>3. (x = "detail" => u.hop # None) => UiFits(v)
    BY <1>1, <1>2 DEF UiFits, Placed, HopFits, ListFits, RowOf, InputFits
<1>4. RowOf(u, i) => UiFits(w)  BY <1>1, <1>2 DEF UiFits, Placed, HopFits, ListFits, RowOf, InputFits
<1>5. RowOf(u, i) => UiFits(y)  BY <1>1, <1>2 DEF UiFits, Placed, HopFits, ListFits, RowOf, InputFits
<1> QED  BY <1>3, <1>4, <1>5 DEF v, w, y

LEMMA SelectionChanges ==
    ASSUME NEW u, UiFits(u), NEW i, RowOf(u, i)
    PROVE  /\ u.overlay # "detail" => UiFits([u EXCEPT !.selected = i, !.hop = None])
           /\ u.overlay # "input" => UiFits([u EXCEPT !.selected = i, !.hop = None, !.overlay = "none"])
<1> USE DEF IsBut, UiFields
<1> DEFINE v == [u EXCEPT !.selected = i, !.hop = None]
           w == [u EXCEPT !.selected = i, !.hop = None, !.overlay = "none"]
<1>1. /\ IsBut(v, u, {"selected", "hop"}) /\ v.selected = i /\ v.hop = None
      /\ IsBut(w, u, {"selected", "hop", "overlay"}) /\ w.selected = i /\ w.hop = None /\ w.overlay = "none"
    BY DEF UiFits, UiRecord
<1> HIDE DEF v, w
<1>2. u.overlay # "detail" => UiFits(v)
    BY <1>1 DEF UiFits, Placed, HopFits, ListFits, RowOf, InputFits
<1>3. u.overlay # "input" => UiFits(w)
    BY <1>1 DEF UiFits, Placed, HopFits, ListFits, RowOf, InputFits
<1> QED  BY <1>2, <1>3 DEF v, w

LEMMA SettingsChange ==
    ASSUME NEW u, UiFits(u), NEW s, SettingsFit(s)
    PROVE  /\ UiFits([u EXCEPT !.settings = s])
           /\ u.overlay # "input" => UiFits([u EXCEPT !.overlay = "settings", !.settings = s])
<1> USE DEF IsBut, UiFields
<1> DEFINE a == [u EXCEPT !.settings = s]
           e == [u EXCEPT !.overlay = "settings", !.settings = s]
<1>1. /\ IsBut(a, u, {"settings"}) /\ a.settings = s
      /\ IsBut(e, u, {"settings", "overlay"}) /\ e.settings = s /\ e.overlay = "settings"
    BY DEF UiFits, UiRecord
<1> HIDE DEF a, e
<1>2. Target(a) = Target(u) /\ Target(e) = Target(u)  BY <1>1 DEF Target
<1>3. UiFits(a)  BY <1>1, <1>2 DEF UiFits, Placed, HopFits, ListFits, RowOf, InputFits
<1>4. u.overlay # "input" => UiFits(e)  BY <1>1, <1>2 DEF UiFits, Placed, HopFits, ListFits, RowOf, InputFits
<1> QED  BY <1>3, <1>4 DEF a, e

LEMMA ThemeChanges ==
    ASSUME NEW u, UiFits(u), NEW s, SettingsFit(s), NEW t \in Themes
    PROVE  UiFits([u EXCEPT !.settings = s, !.theme = t]) /\ UiFits([u EXCEPT !.theme = t, !.settings = s])
<1> USE DEF IsBut, UiFields
<1> DEFINE b == [u EXCEPT !.settings = s, !.theme = t]
<1>1. IsBut(b, u, {"settings", "theme"}) /\ b.settings = s /\ b.theme = t
    BY DEF UiFits, UiRecord
<1>2. [u EXCEPT !.theme = t, !.settings = s] = b  BY DEF UiFits, UiRecord
<1> HIDE DEF b
<1>3. Target(b) = Target(u)  BY <1>1 DEF Target
<1>4. UiFits(b)  BY <1>1, <1>3 DEF UiFits, Placed, HopFits, ListFits, RowOf, InputFits
<1> QED  BY <1>2, <1>4 DEF b

LEMMA DisplayChanges ==
    ASSUME NEW u, UiFits(u), NEW s, SettingsFit(s), NEW d
    PROVE  UiFits([u EXCEPT !.settings = s, !.display = d]) /\ UiFits([u EXCEPT !.display = d, !.settings = s])
<1> USE DEF IsBut, UiFields
<1> DEFINE c == [u EXCEPT !.settings = s, !.display = d]
<1>1. IsBut(c, u, {"settings", "display"}) /\ c.settings = s
    BY DEF UiFits, UiRecord
<1>2. [u EXCEPT !.display = d, !.settings = s] = c  BY DEF UiFits, UiRecord
<1> HIDE DEF c
<1>3. Target(c) = Target(u)  BY <1>1 DEF Target
<1>4. UiFits(c)  BY <1>1, <1>3 DEF UiFits, Placed, HopFits, ListFits, RowOf, InputFits
<1> QED  BY <1>2, <1>4 DEF c

\* Leaving the settings applies them.
LEMMA SettingsApply ==
    ASSUME NEW u, UiFits(u), u.overlay # "input", NEW t \in Themes, NEW d
    PROVE  UiFits([u EXCEPT !.theme = t, !.display = d, !.overlay = "none"])
<1> USE DEF IsBut, UiFields
<1> DEFINE f == [u EXCEPT !.theme = t, !.display = d, !.overlay = "none"]
<1>1. IsBut(f, u, {"theme", "display", "overlay"}) /\ f.theme = t /\ f.overlay = "none"
    BY DEF UiFits, UiRecord
<1> HIDE DEF f
<1>2. Target(f) = Target(u)  BY <1>1 DEF Target
<1>3. UiFits(f)  BY <1>1, <1>2 DEF UiFits, Placed, HopFits, ListFits, RowOf, InputFits
<1> QED  BY <1>3 DEF f

LEMMA InputChanges ==
    ASSUME NEW u, UiFits(u), NEW x, InputFit(x)
    PROVE  /\ u.overlay = "input" \/ x.pending = None => UiFits([u EXCEPT !.input = x])
           /\ UiFits([u EXCEPT !.overlay = "input", !.input = x])
           /\ x.pending = None => UiFits([u EXCEPT !.input = x, !.overlay = "none"])
<1> USE DEF IsBut, UiFields
<1> DEFINE a == [u EXCEPT !.input = x]
           c == [u EXCEPT !.overlay = "input", !.input = x]
           d == [u EXCEPT !.input = x, !.overlay = "none"]
<1>1. /\ IsBut(a, u, {"input"}) /\ a.input = x
      /\ IsBut(c, u, {"overlay", "input"}) /\ c.input = x /\ c.overlay = "input"
      /\ IsBut(d, u, {"overlay", "input"}) /\ d.input = x /\ d.overlay = "none"
    BY DEF UiFits, UiRecord
<1> HIDE DEF a, c, d
<1>2. Target(a) = Target(u) /\ Target(c) = Target(u) /\ Target(d) = Target(u)
    BY <1>1 DEF Target
<1>3. u.overlay = "input" \/ x.pending = None => UiFits(a)
    BY <1>1, <1>2 DEF UiFits, Placed, HopFits, ListFits, RowOf, InputFits
<1>4. UiFits(c)  BY <1>1, <1>2 DEF UiFits, Placed, HopFits, ListFits, RowOf, InputFits
<1>5. x.pending = None => UiFits(d)  BY <1>1, <1>2 DEF UiFits, Placed, HopFits, ListFits, RowOf, InputFits
<1> QED  BY <1>3, <1>4, <1>5 DEF a, c, d

LEMMA RequestChanges ==
    ASSUME NEW u, UiFits(u), u.overlay = "input", NEW x, InputFit(x), NEW n \in Nat
    PROVE  UiFits([u EXCEPT !.nextId = n, !.input = x])
<1> USE DEF IsBut, UiFields
<1> DEFINE b == [u EXCEPT !.nextId = n, !.input = x]
<1>1. IsBut(b, u, {"nextId", "input"}) /\ b.input = x /\ b.nextId = n
    BY DEF UiFits, UiRecord
<1> HIDE DEF b
<1>2. Target(b) = Target(u)  BY <1>1 DEF Target
<1>3. UiFits(b)  BY <1>1, <1>2 DEF UiFits, Placed, HopFits, ListFits, RowOf, InputFits
<1> QED  BY <1>3 DEF b

LEMMA WrapType ==
    ASSUME NEW i \in Nat, NEW n \in Nat \ {0}
    PROVE  Wrap(i, n) \in 0..(n - 1)
BY DEF Wrap

LEMMA SectionsType == Sections \in {3, 4} /\ (IxEnabled => Sections = 4)
BY DEF Sections

LEMMA ThemesType == NumThemes \in Nat \ {0} /\ Themes = 0..(NumThemes - 1)
BY ThemesAssumption DEF Themes

\* The sessions are of addresses to which there is a path.
PathsInv == DOMAIN sessions \subseteq DOMAIN profile.path

LEMMA LastHopType ==
    ASSUME profile \in Profiles, NEW a \in DOMAIN profile.path
    PROVE  /\ LastHop(a) \in Nat /\ HopLimit(a) \in Nat /\ LastHop(a) <= HopLimit(a) - 1
           /\ Len(profile.path[a]) \in 0..HopLimit(a) /\ Cfg.maxTtl \in 0..HopLimit(a)
<1>1. profile.path[a] \in Seq(ToSet(profile.path[a])) /\ profile.path[a] # <<>>
    BY RunsAssumption
<1> DEFINE s == profile.path[a]
           S == ToSet(s)
<1>2. s \in Seq(S) /\ s # <<>>  BY <1>1
<1> HIDE DEF s, S
<1>3. Len(s) \in Nat \ {0}  BY <1>2
<1>4. Cfg.maxTtl \in Nat
    <2>1. Parsed(Args)  BY RunsAssumption DEF Args
    <2>2. {Args.maxTtl, Args.flows} \subseteq 0..255  BY <2>1 DEF Parsed
    <2>4. Args.maxTtl \in Nat  BY <2>2
    <2>3. Cfg.maxTtl = Args.maxTtl  BY DEF Cfg, ConfigFrom
    <2> QED  BY <2>3, <2>4
<1> DEFINE n == Len(s)
           m == Cfg.maxTtl
<1>5. HopLimit(a) = Higher(m, n)  BY DEF HopLimit, s
<1> HIDE DEF n, m
<1>6. n \in Nat \ {0} /\ m \in Nat  BY <1>3, <1>4 DEF n, m
<1>7. HopLimit(a) \in Nat \ {0} /\ n \in 0..HopLimit(a) /\ m \in 0..HopLimit(a)  BY <1>5, <1>6 DEF Higher
<1> QED  BY <1>7 DEF LastHop, n, m, s

\* The hops shown are those of the path to the selected target, or a replay's.
LEMMA HopsFit ==
    ASSUME profile \in Profiles, PathsInv, NEW u
    PROVE  /\ HopCount(u) \in Nat
           /\ HopCount(u) > 0 => Target(u) \in DOMAIN profile.path /\ HopCount(u) - 1 <= LastHop(Target(u))
           /\ rp # None => HopCount(u) <= 1
<1>1. CASE ~HasSession(u)  BY <1>1 DEF HopCount
<1>2. CASE HasSession(u)
    <2> DEFINE a == Target(u)
    <2>1. a \in DOMAIN profile.path  BY <1>2 DEF HasSession, PathsInv
    <2> DEFINE n == Len(profile.path[a])
               m == Cfg.maxTtl
    <2>2. LastHop(a) \in Nat /\ HopLimit(a) \in Nat /\ n \in 0..HopLimit(a) /\ m \in 0..HopLimit(a)
        BY <2>1, LastHopType
    <2>3. HopCount(u) \in IF rp = None THEN {0, n, m} ELSE {0, 1}
        BY <1>2 DEF HopCount
    <2> HIDE DEF a, n, m
    <2>4. rp = None => LastHop(a) = HopLimit(a) - 1  BY DEF LastHop
    <2>5. CASE rp = None
        <3>1. HopCount(u) \in {0, n, m}  BY <2>3, <2>5
        <3>2. HopCount(u) \in Nat /\ HopCount(u) - 1 <= LastHop(a)  BY <2>2, <2>4, <2>5, <3>1
        <3> QED  BY <2>1, <2>5, <3>2 DEF a
    <2>6. CASE rp # None
        <3>1. HopCount(u) \in {0, 1}  BY <2>3, <2>6
        <3> QED  BY <2>1, <2>2, <3>1 DEF a
    <2> QED  BY <2>5, <2>6
<1> QED  BY <1>1, <1>2

\* The keys of each overlay, and of the main view.
LEMMA DetailFits ==
    ASSUME profile \in Profiles, PathsInv, NEW u, UiFits(u), u.overlay = "detail", NEW k
    PROVE  UiFits(InDetail(u, k))
<1> DEFINE a == Target(u)
           h == u.hop
           hops == HopCount(u)
<1>1. a \in DOMAIN profile.path /\ h \in 0..LastHop(a)  BY DEF UiFits, HopFits, HopOf
<1>2. LastHop(a) \in Nat  BY <1>1, LastHopType
<1>3. \A v \in 0..LastHop(a) : UiFits([u EXCEPT !.hop = v])
    BY <1>1, HopChanges DEF HopOf
<1>4. hops \in Nat /\ (hops > 0 => hops - 1 <= LastHop(a))  BY HopsFit
<1>5. u = [field \in UiFields |-> u[field]]  BY DEF UiFits, UiRecord
<1> HIDE DEF a, hops
<1>6. \A i \in Nat : InRange(i, hops) \in 0..LastHop(a)  BY <1>2, <1>4 DEF InRange
<1>7. UiFits([u EXCEPT !.hop = IF @ > 0 THEN @ - 1 ELSE 0])
    <2> DEFINE v == IF h > 0 THEN h - 1 ELSE 0
    <2>1. v \in 0..LastHop(a)  BY <1>1, <1>2
    <2>2. [u EXCEPT !.hop = IF @ > 0 THEN @ - 1 ELSE 0] = [u EXCEPT !.hop = v]  BY <1>5 DEF UiFields
    <2> QED  BY <1>3, <2>1, <2>2
<1>8. UiFits([u EXCEPT !.hop = InRange(@ + 1, hops)])
    <2> DEFINE v == InRange(h + 1, hops)
    <2>1. h + 1 \in Nat  BY <1>1, <1>2
    <2>2. v \in 0..LastHop(a)  BY <1>6, <2>1
    <2>3. [u EXCEPT !.hop = InRange(@ + 1, hops)] = [u EXCEPT !.hop = v]
        <3> HIDE DEF InRange
        <3> QED  BY <1>5 DEF UiFields
    <2> QED  BY <1>3, <2>2, <2>3
<1>9. UiFits([u EXCEPT !.hop = InRange(1, hops)])  BY <1>3, <1>6
<1>10. UiFits([u EXCEPT !.overlay = "none"])  BY OverlayChanges
<1> QED  BY <1>7, <1>8, <1>9, <1>10, Zenon DEF InDetail, hops

LEMMA SelectedFits ==
    ASSUME NEW u, UiFits(u), NEW i, RowOf(u, i)
    PROVE  /\ u.overlay # "input" => UiFits(SelectFromList(u, i))
           /\ u.overlay # "detail" => UiFits(SwitchTo(u, i))
<1> DEFINE v == [u EXCEPT !.selected = i, !.hop = None, !.overlay = "none"]
           w == [u EXCEPT !.selected = i, !.hop = None]
<1>1. (u.overlay # "input" => UiFits(v)) /\ (u.overlay # "detail" => UiFits(w))
    BY SelectionChanges
<1>2. SelectFromList(u, i) = [v EXCEPT !.paused = PausedAt(v)]  BY Zenon DEF SelectFromList
<1>3. SwitchTo(u, i) = [w EXCEPT !.paused = PausedAt(w)]  BY Zenon DEF SwitchTo
<1> HIDE DEF v, w
<1>4. ASSUME NEW x, UiFits(x), NEW p PROVE UiFits([x EXCEPT !.paused = p])
    BY <1>4, LabelChanges
<1>5. UiFits(v) => UiFits([v EXCEPT !.paused = PausedAt(v)])  BY <1>4
<1>6. UiFits(w) => UiFits([w EXCEPT !.paused = PausedAt(w)])  BY <1>4
<1> QED  BY <1>1, <1>2, <1>3, <1>5, <1>6

LEMMA ListViewFits ==
    ASSUME NEW u, UiFits(u), u.overlay = "list", NEW k
    PROVE  UiFits(InList(u, k))
<1> DEFINE n == Len(u.targets)
           i == u.listIndex
<1>1. n \in Nat /\ i \in Nat /\ i < n  BY DEF UiFits, ListFits, RowOf
<1>2. u = [field \in UiFields |-> u[field]]  BY DEF UiFits, UiRecord
<1>3. \A v \in 0..(n - 1) : RowOf(u, v)  BY <1>1 DEF RowOf
<1>4. \A v \in 0..(n - 1) : UiFits([u EXCEPT !.listIndex = v])  BY <1>3, OverlayChanges
<1>5. UiFits([u EXCEPT !.overlay = "none"])  BY OverlayChanges
<1>6. UiFits(SelectFromList(u, i))  BY <1>1, SelectedFits DEF RowOf
<1>7. UiFits([u EXCEPT !.listIndex = IF @ > 0 THEN @ - 1 ELSE n - 1])
    <2> DEFINE v == IF i > 0 THEN i - 1 ELSE n - 1
    <2>1. v \in 0..(n - 1)  BY <1>1
    <2>2. [u EXCEPT !.listIndex = IF @ > 0 THEN @ - 1 ELSE n - 1] = [u EXCEPT !.listIndex = v]
        <3> HIDE DEF n
        <3> QED  BY <1>2 DEF UiFields
    <2> QED  BY <1>4, <2>1, <2>2
<1>8. UiFits([u EXCEPT !.listIndex = Wrap(@ + 1, n)])
    <2> DEFINE v == Wrap(i + 1, n)
    <2>1. v \in 0..(n - 1)
        <3>1. i + 1 \in Nat /\ n \in Nat \ {0}  BY <1>1
        <3> HIDE DEF i, n
        <3> QED  BY <3>1, WrapType
    <2>2. [u EXCEPT !.listIndex = Wrap(@ + 1, n)] = [u EXCEPT !.listIndex = v]
        <3> HIDE DEF n, Wrap
        <3> QED  BY <1>2 DEF UiFields
    <2> QED  BY <1>4, <2>1, <2>2
<1>9. n >= 2 => UiFits(SelectFromList([u EXCEPT !.listIndex = 1], 1))
    <2> SUFFICES ASSUME n >= 2 PROVE UiFits(SelectFromList([u EXCEPT !.listIndex = 1], 1))
        OBVIOUS
    <2> DEFINE w == [u EXCEPT !.listIndex = 1]
    <2>1. 1 \in 0..(n - 1)  BY <1>1
    <2>2. UiFits(w)  BY <1>4, <2>1
    <2>3. w.overlay = "list" /\ w.targets = u.targets  BY <1>2 DEF UiFields
    <2> HIDE DEF w
    <2>4. RowOf(w, 1)  BY <1>1, <2>1, <2>3 DEF RowOf
    <2> QED  BY <2>2, <2>3, <2>4, SelectedFits DEF w
<1>10. u = u /\ UiFits(u)  OBVIOUS
<1> QED  BY <1>5, <1>6, <1>7, <1>8, <1>9, <1>10, Zenon DEF InList

\* Settings that differ in one field.
LEMMA SettingsWith ==
    ASSUME NEW s, SettingsFit(s), NEW v
    PROVE  /\ SettingsFit([s EXCEPT !.key = v]) /\ SettingsFit([s EXCEPT !.display = v])
           /\ SettingsFit([s EXCEPT !.check = v])
           /\ v \in 0..(Sections - 1) => SettingsFit([s EXCEPT !.section = v])
           /\ v \in Themes => SettingsFit([s EXCEPT !.theme = v])
BY DEF SettingsFit, SettingsFields

LEMMA SettingsViewFits ==
    ASSUME NEW u, UiFits(u), u.overlay = "settings", NEW k
    PROVE  UiFits(InSettings(u, k))
<1> DEFINE s == u.settings
<1>1. SettingsFit(s) /\ s.theme \in Themes /\ s.section \in 0..(Sections - 1) /\ u.theme \in Themes
    BY DEF UiFits, SettingsFit
<1>2. u = [field \in UiFields |-> u[field]]  BY DEF UiFits, UiRecord
<1>3. UiFits(ApplySettings(u))
    <2>1. UiFits([u EXCEPT !.theme = s.theme, !.display = s.display, !.overlay = "none"])
        BY <1>1, SettingsApply
    <2> QED  BY <2>1, Zenon DEF ApplySettings
<1>4. ASSUME NEW v \in 0..(Sections - 1) PROVE UiFits([u EXCEPT !.settings.section = v])
    <2> DEFINE x == [s EXCEPT !.section = v]
    <2>1. [u EXCEPT !.settings.section = v] = [u EXCEPT !.settings = x]  BY <1>2 DEF UiFields
    <2>2. SettingsFit(x)  BY <1>1, SettingsWith
    <2> HIDE DEF x
    <2> QED  BY <1>1, <2>1, <2>2, SettingsChange
<1>5. ASSUME NEW v PROVE UiFits([u EXCEPT !.settings.key = v])
    <2> DEFINE x == [s EXCEPT !.key = v]
    <2>1. [u EXCEPT !.settings.key = v] = [u EXCEPT !.settings = x]  BY <1>2 DEF UiFields
    <2>2. SettingsFit(x)  BY <1>1, SettingsWith
    <2> HIDE DEF x
    <2> QED  BY <1>1, <2>1, <2>2, SettingsChange
<1>6. ASSUME NEW i \in Themes PROVE UiFits(MoveTheme(u, i))
    <2> DEFINE x == [s EXCEPT !.theme = i]
    <2>1. [u EXCEPT !.settings.theme = i, !.theme = i] = [u EXCEPT !.settings = x, !.theme = i]
        BY <1>2 DEF UiFields
    <2>2. SettingsFit(x)  BY <1>1, SettingsWith
    <2> HIDE DEF x
    <2>3. UiFits([u EXCEPT !.settings = x, !.theme = i])  BY <2>2, ThemeChanges
    <2> QED  BY <2>1, <2>3, Zenon DEF MoveTheme
<1>7. UiFits([u EXCEPT !.settings.section = Wrap(@ + 1, Sections)])
    <2> DEFINE v == Wrap(s.section + 1, Sections)
    <2>1. v \in 0..(Sections - 1)
        <3>1. s.section + 1 \in Nat /\ Sections \in Nat \ {0}  BY <1>1, SectionsType
        <3> HIDE DEF s
        <3> QED  BY <3>1, WrapType
    <2>2. [u EXCEPT !.settings.section = Wrap(@ + 1, Sections)] = [u EXCEPT !.settings.section = v]  OBVIOUS
    <2> HIDE DEF v
    <2> QED  BY <1>4, <2>1, <2>2
<1>8. UiFits([u EXCEPT !.settings.check = ~@])
    <2> DEFINE x == [s EXCEPT !.check = ~s.check]
    <2>1. [u EXCEPT !.settings.check = ~@] = [u EXCEPT !.settings = x]  BY <1>2 DEF UiFields
    <2>2. SettingsFit(x)  BY <1>1, SettingsWith
    <2> HIDE DEF x
    <2> QED  BY <1>1, <2>1, <2>2, SettingsChange
<1>9. UiFits([u EXCEPT !.settings.display = Wrap(@ + 1, 3), !.display = Wrap(s.display + 1, 3)])
    <2> DEFINE w == Wrap(s.display + 1, 3)
               x == [s EXCEPT !.display = w]
    <2>1. [u EXCEPT !.settings.display = Wrap(@ + 1, 3), !.display = w] = [u EXCEPT !.settings = x, !.display = w]
        BY <1>2 DEF UiFields
    <2>2. SettingsFit(x)  BY <1>1, SettingsWith
    <2> HIDE DEF w, x
    <2>3. UiFits([u EXCEPT !.settings = x, !.display = w])  BY <1>1, <2>2, DisplayChanges
    <2> QED  BY <2>1, <2>3 DEF w
<1>10. /\ (IF s.theme > 0 THEN s.theme - 1 ELSE 0) \in Themes
       /\ (IF s.theme + 1 < NumThemes THEN s.theme + 1 ELSE s.theme) \in Themes
    <2> HIDE DEF s
    <2> QED  BY <1>1, ThemesType
<1>11. /\ UiFits(MoveTheme(u, IF s.theme > 0 THEN s.theme - 1 ELSE 0))
       /\ UiFits(MoveTheme(u, IF s.theme + 1 < NumThemes THEN s.theme + 1 ELSE s.theme))
    BY <1>6, <1>10
<1>12. UiFits([u EXCEPT !.settings.section = 3]) \/ ~IxEnabled
    <2>1. CASE IxEnabled
        <3>1. 3 \in 0..(Sections - 1)  BY <2>1, SectionsType
        <3> QED  BY <1>4, <3>1
    <2> QED  BY <2>1
<1>13. UiFits([u EXCEPT !.settings.key = KeyText]) /\ UiFits([u EXCEPT !.settings.key = None])
    BY <1>5
<1>14. CASE s.section = 2 /\ IxEnabled
    BY <1>3, <1>12, <1>13, <1>14, Zenon DEF InSettings
<1>15. CASE ~(s.section = 2 /\ IxEnabled)
    BY <1>3, <1>7, <1>8, <1>9, <1>11, <1>15, Zenon DEF InSettings
<1> QED  BY <1>14, <1>15

LEMMA NoInputFits == InputFit(NoInput) /\ NoInput.pending = None
BY DEF NoInput, InputFit, InputFields

LEMMA InputViewFits ==
    ASSUME profile \in Profiles, NEW u, UiFits(u), u.overlay = "input", NEW k, NEW v \in InInput(u, k)
    PROVE  UiFits(v)
<1> DEFINE x == u.input
<1>1. InputFit(x)  BY DEF UiFits, InputFits
<1>2. u = [field \in UiFields |-> u[field]]  BY DEF UiFits, UiRecord
<1>3. ASSUME NEW h \in {None} \cup DOMAIN profile.dns PROVE UiFits([u EXCEPT !.input.text = h])
    <2> DEFINE y == [x EXCEPT !.text = h]
    <2>1. [u EXCEPT !.input.text = h] = [u EXCEPT !.input = y]  BY <1>2 DEF UiFields
    <2>2. InputFit(y)  BY <1>1 DEF InputFit, InputFields
    <2> HIDE DEF y
    <2> QED  BY <2>1, <2>2, InputChanges
<1>4. UiFits([u EXCEPT !.input = NoInput, !.overlay = "none"])  BY NoInputFits, InputChanges
<1>5. profile.adds \subseteq DOMAIN profile.dns  BY RunsAssumption
<1>6. CASE k = "esc"  BY <1>4, <1>6 DEF InInput
<1>7. CASE k = "type"
    <2>1. PICK h \in profile.adds : v = [u EXCEPT !.input.text = h]
        BY <1>7 DEF InInput
    <2> QED  BY <1>3, <1>5, <2>1
<1>8. CASE k = "back"  BY <1>3, <1>8 DEF InInput
<1>9. CASE k \notin {"esc", "type", "back"}  BY <1>9 DEF InInput
<1> QED  BY <1>6, <1>7, <1>8, <1>9

LEMMA MainViewFits ==
    ASSUME profile \in Profiles, PathsInv, NEW u, UiFits(u), u.overlay = "none", NEW k
    PROVE  UiFits(InMain(u, k))
<1> DEFINE n == Len(u.targets)
           hops == HopCount(u)
           a == Target(u)
<1>1. n \in Nat /\ u.selected \in Nat /\ (n > 1 => u.selected < n)
    <2>1. PICK S : u.targets \in Seq(S)  BY DEF UiFits
    <2>2. u.targets = <<>> => n = 0  OBVIOUS
    <2>3. n \in Nat  BY <2>1
    <2> HIDE DEF n
    <2>4. u.selected \in Nat /\ (u.selected < n \/ u.targets = <<>>)  BY DEF UiFits, Placed, n
    <2> QED  BY <2>2, <2>3, <2>4
<1>2. u = [field \in UiFields |-> u[field]]  BY DEF UiFits, UiRecord
<1>3. \A i \in 0..(n - 1) : RowOf(u, i)  BY <1>1 DEF RowOf
<1>4. \A i \in 0..(n - 1) : UiFits(SwitchTo(u, i))  BY <1>3, SelectedFits
<1>5. n > 1 => UiFits(SwitchTo(u, Wrap(u.selected + 1, n)))
    <2>1. n > 1 => n \in Nat \ {0} /\ u.selected + 1 \in Nat
        <3> HIDE DEF n
        <3> QED  BY <1>1
    <2>2. n > 1 => Wrap(u.selected + 1, n) \in 0..(n - 1)  BY <2>1, WrapType
    <2> QED  BY <1>4, <2>2
<1>6. n > 1 => UiFits(SwitchTo(u, IF u.selected = 0 THEN n - 1 ELSE u.selected - 1))
    <2>1. n > 1 => (IF u.selected = 0 THEN n - 1 ELSE u.selected - 1) \in 0..(n - 1)
        <3> HIDE DEF n
        <3> QED  BY <1>1
    <2> QED  BY <1>4, <2>1
<1>7. u.theme \in Themes /\ SettingsFit(u.settings) /\ u.settings = [field \in SettingsFields |-> u.settings[field]]
    BY DEF UiFits, SettingsFit
<1>8. UiFits([u EXCEPT !.theme = Wrap(@ + 1, NumThemes), !.settings.theme = Wrap(u.theme + 1, NumThemes)])
    <2> DEFINE v == Wrap(u.theme + 1, NumThemes)
               w == [u.settings EXCEPT !.theme = v]
    <2>1. [u EXCEPT !.theme = Wrap(@ + 1, NumThemes), !.settings.theme = v] = [u EXCEPT !.theme = v, !.settings = w]
        BY <1>2 DEF UiFields
    <2>2. v \in Themes
        <3>1. u.theme + 1 \in Nat /\ NumThemes \in Nat \ {0}  BY <1>7, ThemesType
        <3> QED  BY <3>1, WrapType, ThemesType
    <2> HIDE DEF v
    <2>3. SettingsFit(w)  BY <1>7, <2>2, SettingsWith
    <2> HIDE DEF w
    <2>4. UiFits([u EXCEPT !.theme = v, !.settings = w])  BY <2>2, <2>3, ThemeChanges
    <2> QED  BY <2>1, <2>4 DEF v
<1>9. UiFits([u EXCEPT !.display = Wrap(@ + 1, 3), !.settings.display = Wrap(u.display + 1, 3)])
    <2> DEFINE v == Wrap(u.display + 1, 3)
               w == [u.settings EXCEPT !.display = v]
    <2>1. [u EXCEPT !.display = Wrap(@ + 1, 3), !.settings.display = v] = [u EXCEPT !.display = v, !.settings = w]
        BY <1>2 DEF UiFields
    <2> HIDE DEF v
    <2>2. SettingsFit(w)  BY <1>7, SettingsWith
    <2> HIDE DEF w
    <2>3. UiFits([u EXCEPT !.display = v, !.settings = w])  BY <2>2, DisplayChanges
    <2> QED  BY <2>1, <2>3 DEF v
<1>10. UiFits([u EXCEPT !.overlay = "settings",
                 !.settings = [NewSettings(u.theme, u.display, @.key) EXCEPT !.check = u.settings.check]])
    <2> DEFINE v == [NewSettings(u.theme, u.display, u.settings.key) EXCEPT !.check = u.settings.check]
    <2>1. [u EXCEPT !.overlay = "settings",
              !.settings = [NewSettings(u.theme, u.display, @.key) EXCEPT !.check = u.settings.check]]
            = [u EXCEPT !.overlay = "settings", !.settings = v]
        BY <1>2 DEF UiFields
    <2>2. SettingsFit(v)
        <3>1. 0 \in 0..(Sections - 1)  BY SectionsType
        <3> QED  BY <1>7, <3>1 DEF SettingsFit, SettingsFields, NewSettings
    <2> HIDE DEF v
    <2>3. UiFits([u EXCEPT !.overlay = "settings", !.settings = v])  BY <2>2, SettingsChange
    <2> QED  BY <2>1, <2>3
<1>11. UiFits([u EXCEPT !.overlay = "help"]) /\ (u.hop # None => UiFits([u EXCEPT !.overlay = "detail"]))
    BY OverlayChanges
<1>12. UiFits([u EXCEPT !.overlay = "input", !.input = NoInput])  BY NoInputFits, InputChanges
<1>13. UiFits([u EXCEPT !.update = "none"])  BY LabelChanges
<1>14. n > 1 => UiFits([u EXCEPT !.overlay = "list", !.listIndex = u.selected])
    <2>1. n > 1 => RowOf(u, u.selected)  BY <1>1 DEF RowOf
    <2> QED  BY <2>1, OverlayChanges
<1>15. UiFits([u EXCEPT !.hop = None])  BY HopChanges
<1>16. hops > 0 => a \in DOMAIN profile.path /\ hops - 1 \in 0..LastHop(a)
    <2>1. hops \in Nat /\ (hops > 0 => a \in DOMAIN profile.path /\ hops - 1 <= LastHop(a))  BY HopsFit
    <2>2. hops > 0 => LastHop(a) \in Nat  BY <2>1, LastHopType
    <2> HIDE DEF hops, a
    <2> QED  BY <2>1, <2>2
<1>17. u.hop # None => u.hop \in 0..LastHop(a)  BY DEF UiFits, HopFits, HopOf
<1>18. ASSUME hops > 0, NEW v \in 0..LastHop(a) PROVE UiFits([u EXCEPT !.hop = v])
    BY <1>16, <1>18, HopChanges DEF HopOf
<1>19. hops > 0 => hops \in Nat /\ LastHop(a) \in Nat /\ hops - 1 <= LastHop(a)
    BY <1>16, HopsFit, LastHopType
<1>20. hops > 0 => UiFits([u EXCEPT !.hop = IF @ = None \/ @ = 0 THEN hops - 1 ELSE @ - 1])
    <2> DEFINE v == IF u.hop = None \/ u.hop = 0 THEN hops - 1 ELSE u.hop - 1
    <2>1. [u EXCEPT !.hop = IF @ = None \/ @ = 0 THEN hops - 1 ELSE @ - 1] = [u EXCEPT !.hop = v]
        <3> HIDE DEF hops
        <3> QED  BY <1>2 DEF UiFields
    <2>2. hops > 0 => v \in 0..LastHop(a)
        <3> HIDE DEF hops, a
        <3> QED  BY <1>17, <1>19
    <2> QED  BY <1>18, <2>1, <2>2
<1>21. hops > 0 => UiFits([u EXCEPT !.hop = IF @ = None \/ @ >= hops - 1 THEN 0 ELSE @ + 1])
    <2> DEFINE v == IF u.hop = None \/ u.hop >= hops - 1 THEN 0 ELSE u.hop + 1
    <2>1. [u EXCEPT !.hop = IF @ = None \/ @ >= hops - 1 THEN 0 ELSE @ + 1] = [u EXCEPT !.hop = v]
        <3> HIDE DEF hops
        <3> QED  BY <1>2 DEF UiFields
    <2>2. hops > 0 => v \in 0..LastHop(a)
        <3> HIDE DEF hops, a
        <3> QED  BY <1>17, <1>19
    <2> QED  BY <1>18, <2>1, <2>2
<1>22. UiFits(u)  OBVIOUS
<1> HIDE DEF n, hops, a
<1> QED  BY <1>5, <1>6, <1>8, <1>9, <1>10, <1>11, <1>12, <1>13, <1>14, <1>15, <1>20, <1>21, <1>22, Zenon DEF InMain, n, hops

\* Whatever key is pressed, whatever is open.
LEMMA ViewsFit ==
    ASSUME profile \in Profiles, PathsInv, NEW u, UiFits(u), NEW k, NEW v \in Views(u, k)
    PROVE  UiFits(v)
<1>1. u.overlay # "input" => UiFits([u EXCEPT !.overlay = "none"])  BY OverlayChanges
<1>2. /\ u.overlay = "help" => v = [u EXCEPT !.overlay = "none"]
      /\ u.overlay = "input" => v \in InInput(u, k)
      /\ u.overlay = "settings" => v = InSettings(u, k)
      /\ u.overlay = "detail" => v = InDetail(u, k)
      /\ u.overlay = "list" => v = InList(u, k)
      /\ u.overlay = "none" => v = InMain(u, k)
    BY DEF Views
<1>3. u.overlay \in {"none", "help", "input", "settings", "detail", "list"}
    BY DEF UiFits, UiRecord
<1> QED  BY <1>1, <1>2, <1>3, DetailFits, ListViewFits, SettingsViewFits, InputViewFits, MainViewFits

LEMMA PressingFits ==
    ASSUME NEW u, UiFits(u)
    PROVE  UiFits(Pressing(u))
<1> DEFINE v == Pressing(u)
           left == u.left - 1
<1>1. v = [u EXCEPT !.step = "poll", !.left = left]  BY DEF Pressing, UiFits, UiRecord, UiFields
<1> HIDE DEF left, v
<1>2. IsBut(v, u, {"step", "left"})  BY <1>1 DEF UiFits, UiRecord, IsBut, UiFields
<1>3. Target(v) = Target(u)  BY <1>2 DEF Target, IsBut, UiFields
<1> QED  BY <1>2, <1>3 DEF v, UiFits, Placed, HopFits, ListFits, RowOf, InputFits, IsBut, UiFields

-----------------------------------------------------------------------------
(* Requests for targets, and the answers to them.                           *)

\* The answer to the request that is open: the target is selected, and is there.
LEMMA ReplyFits ==
    ASSUME NEW u, UiFits(u), u.overlay = "input", NEW r
    PROVE  UiFits(AfterReply(u, r))
<1> DEFINE targets == IF Contains(u.targets, r.ip) THEN u.targets ELSE Append(u.targets, r.ip)
           j == CHOOSE k \in 1..Len(targets) : targets[k] = r.ip
           i == j - 1
           v == [u EXCEPT !.input = NoInput, !.overlay = "none", !.targets = targets, !.selected = i, !.hop = None]
           n == [[[u.input EXCEPT !.pending = None] EXCEPT !.resolving = FALSE] EXCEPT !.error = TRUE]
<1>1. PICK S : u.targets \in Seq(S)  BY DEF UiFits
<1>2. u = [field \in UiFields |-> u[field]]  BY DEF UiFits, UiRecord
<1> DEFINE T == S \cup {r.ip}
<1>3. u.targets \in Seq(T) /\ r.ip \in T  BY <1>1
<1>4. targets \in Seq(T) /\ j \in 1..Len(targets)
    <2>1. CASE Contains(u.targets, r.ip)
        <3>1. targets = u.targets  BY <2>1
        <3>2. \E k \in 1..Len(u.targets) : u.targets[k] = r.ip  BY <2>1 DEF Contains
        <3> HIDE DEF targets, T
        <3>3. \E k \in 1..Len(targets) : targets[k] = r.ip  BY <3>1, <3>2
        <3> QED  BY <1>3, <3>1, <3>3
    <2>2. CASE ~Contains(u.targets, r.ip)
        <3> DEFINE m == Len(u.targets) + 1
        <3>1. targets = Append(u.targets, r.ip)  BY <2>2
        <3> HIDE DEF targets, T
        <3>2. targets \in Seq(T) /\ m \in 1..Len(targets) /\ targets[m] = r.ip  BY <1>3, <3>1
        <3> HIDE DEF m
        <3>3. \E k \in 1..Len(targets) : targets[k] = r.ip  BY <3>2
        <3> QED  BY <3>2, <3>3
    <2> QED  BY <2>1, <2>2
<1> HIDE DEF targets, j, T
<1>5. i \in Nat /\ i < Len(targets)  BY <1>4
<1> HIDE DEF i
<1>6. CASE r.result \in {"added", "existed"}
    <2>1. AfterReply(u, r) = [u EXCEPT !.input = NoInput, !.overlay = IF @ = "input" THEN "none" ELSE @,
                                       !.targets = targets, !.selected = i, !.hop = None]
        BY <1>6, Zenon DEF AfterReply, targets, j, i
    <2>2. AfterReply(u, r) = v  BY <1>2, <2>1 DEF UiFields
    <2>3. /\ IsBut(v, u, {"input", "overlay", "targets", "selected", "hop"})
          /\ v.input = NoInput /\ v.overlay = "none" /\ v.targets = targets /\ v.selected = i /\ v.hop = None
        BY <1>2 DEF UiFits, UiRecord, IsBut, UiFields
    <2> HIDE DEF v
    <2>4. UiFits(v)
        BY <1>4, <1>5, <2>3, NoInputFits DEF UiFits, Placed, HopFits, ListFits, RowOf, InputFits, IsBut, UiFields
    <2> QED  BY <2>2, <2>4
<1>7. CASE r.result \notin {"added", "existed"}
    <2>1. AfterReply(u, r) = [u EXCEPT !.input.pending = None, !.input.resolving = FALSE, !.input.error = TRUE]
        BY <1>7, Zenon DEF AfterReply
    <2>2. AfterReply(u, r) = [u EXCEPT !.input = n]  BY <1>2, <2>1 DEF UiFields
    <2>3. InputFit(u.input)  BY DEF UiFits, InputFits
    <2>4. InputFit(n) /\ n.pending = None  BY <2>3 DEF InputFit, InputFields
    <2> HIDE DEF n
    <2>5. UiFits([u EXCEPT !.input = n])  BY <2>4, InputChanges
    <2> QED  BY <2>2, <2>5
<1> QED  BY <1>6, <1>7

\* A request is of a host the resolver knows, under a number; None is no number,
\* so an interface that asks for nothing takes no answer.
Requests == [id : Nat, host : DOMAIN profile.dns]
RequestsInv ==
    /\ queue \in Seq(Requests)
    /\ mgr.pc \in {"resolving", "inserted"} => mgr.req \in Requests
    /\ \A r \in replies : r.id \in Nat

LEMMA FrameFits ==
    ASSUME UiFits(ui), RequestsInv, Frame
    PROVE  \E v : UiFits(v) /\ ui' = v
<1> DEFINE v == PollAddTarget(ui)
           answers == {r \in replies : r.id = ui.input.pending}
<1>1. UiFits(v)
    <2>1. CASE answers = {}  BY <2>1, Zenon DEF PollAddTarget
    <2>2. CASE answers # {}
        <3>1. PICK r : r \in answers  BY <2>2
        <3>2. ui.input.pending \in Nat  BY <3>1 DEF RequestsInv
        <3>3. ui.overlay = "input"  BY <3>2, NoneAssumption DEF UiFits, InputFits
        <3>4. PICK x : v = AfterReply(ui, x)  BY <2>2, Zenon DEF PollAddTarget
        <3> QED  BY <3>3, <3>4, ReplyFits
    <2> QED  BY <2>1, <2>2
<1>2. PICK u \in PollUpdate(v) : ui' = [u EXCEPT !.step = "look"]  BY DEF Frame
<1> HIDE DEF v
<1>3. UiFits(u)
    <2>1. u \in {v, [v EXCEPT !.update = "available"], [v EXCEPT !.update = "none"]}  BY <1>2 DEF PollUpdate
    <2>2. UiFits([v EXCEPT !.update = "available"])  BY <1>1, LabelChanges
    <2>3. UiFits([v EXCEPT !.update = "none"])  BY <1>1, LabelChanges
    <2> QED  BY <1>1, <2>1, <2>2, <2>3
<1>4. UiFits([u EXCEPT !.step = "look"])  BY <1>3, StepFits
<1> QED  BY <1>2, <1>4

\* Whatever step is taken, the interface goes on to fit.
LEMMA UiStepsFit ==
    ASSUME profile \in Profiles, PathsInv, RequestsInv, UiFits(ui), Next
    PROVE  \E v : UiFits(v) /\ ui' = v
<1> USE DEF tuiVars
<1>1. CASE UNCHANGED ui  BY <1>1
<1>2. ASSUME NEW u, UiFits(u), ui' = Pressing(u) PROVE \E v : UiFits(v) /\ ui' = v
    BY <1>2, PressingFits
<1>3. CASE Frame  BY <1>3, FrameFits
<1>4. CASE \E k \in profile.keys : ViewKey(k)
    <2>1. PICK k \in profile.keys : \E u \in Views(ui, k) : ui' = Pressing(u)  BY <1>4 DEF ViewKey
    <2>2. PICK u \in Views(ui, k) : ui' = Pressing(u)  BY <2>1
    <2> QED  BY <1>2, <2>2, ViewsFit
<1>5. CASE \E k \in profile.keys : ReplayKey(k)  BY <1>2, <1>5 DEF ReplayKey
<1>6. CASE PauseKey
    <2>1. ui = [field \in UiFields |-> ui[field]]  BY DEF UiFits, UiRecord
    <2>2. [ui EXCEPT !.paused = ~@] = [ui EXCEPT !.paused = ~ui.paused]  BY <2>1 DEF UiFields
    <2>3. UiFits([ui EXCEPT !.paused = ~@])  BY <2>2, LabelChanges
    <2>4. ui' = Pressing(ui) \/ ui' = Pressing([ui EXCEPT !.paused = ~@])
        BY <1>6 DEF PauseKey
    <2> QED  BY <1>2, <2>3, <2>4
<1>7. CASE ResetKey  BY <1>2, <1>7 DEF ResetKey
<1>8. CASE RefreshKey  BY <1>2, <1>8 DEF RefreshKey
<1>9. CASE AddKey
    <2> DEFINE a == [ui EXCEPT !.input.error = TRUE]
               b == [ui EXCEPT !.nextId = @ + 1,
                               !.input = [@ EXCEPT !.pending = ui.nextId, !.resolving = TRUE, !.error = FALSE]]
               x == [ui.input EXCEPT !.error = TRUE]
               y == [ui.input EXCEPT !.pending = ui.nextId, !.resolving = TRUE, !.error = FALSE]
               n == ui.nextId + 1
    <2>1. ui = [field \in UiFields |-> ui[field]]  BY DEF UiFits, UiRecord
    <2>2. InputFit(ui.input) /\ ui.nextId \in Nat /\ ui.overlay = "input"  BY <1>9 DEF UiFits, InputFits, AddKey
    <2>3. InputFit(x)  BY <2>2 DEF InputFit, InputFields
    <2>9. InputFit(y)  BY <2>2 DEF InputFit, InputFields
    <2>10. n \in Nat
        <3>1. ui.nextId \in Nat  BY <2>2
        <3> QED  BY <3>1
    <2>4. a = [ui EXCEPT !.input = x]  BY <2>1 DEF UiFields
    <2>5. b = [ui EXCEPT !.nextId = n, !.input = y]  BY <2>1 DEF UiFields
    <2>6. ui' = Pressing(a) \/ ui' = Pressing(b)  BY <1>9, Zenon DEF AddKey
    <2> HIDE DEF a, b, x, y, n
    <2>7. UiFits(a)  BY <2>2, <2>3, <2>4, InputChanges
    <2>8. UiFits(b)  BY <2>2, <2>5, <2>9, <2>10, RequestChanges
    <2> QED  BY <1>2, <2>6, <2>7, <2>8
<1>10. CASE Close \/ CloseFails \/ \E ms \in profile.times : Pass(ms)
    BY <1>1, <1>10 DEF Close, CloseFails, Pass
<1>13. CASE Render
    <2>1. UiFits([ui EXCEPT !.step = "draw"]) /\ UiFits([ui EXCEPT !.step = "keys"])  BY StepFits
    <2> QED  BY <1>13, <2>1 DEF Render, Look, Draw
<1>11. CASE TuiStep
    BY <1>3, <1>4, <1>5, <1>6, <1>7, <1>9, <1>10, <1>11, <1>13 DEF TuiStep
<1>12. CASE Ended  BY <1>1, <1>12 DEF Ended, vars
<1> QED  BY <1>1, <1>8, <1>11, <1>12 DEF Next

\* A view that fits goes on to fit while no player starts and no worker comes.
LEMMA FitsOn ==
    ASSUME profile \in Profiles, NEW v, UiFits(v), ui' = v, profile' = profile, IxEnabled' = IxEnabled,
           rp = None => rp' = None
    PROVE  UiFits(ui)'
<1>1. UiRecord(ui') /\ (\E S : ui'.targets \in Seq(S))  BY DEF UiFits
<1>2. Placed(ui)'  BY DEF Placed, UiFits
<1>3. HopFits(ui)'
    <2>1. Target(ui)' = Target(v)  BY DEF Target
    <2>2. (v.overlay = "detail" => v.hop # None) /\ (v.hop # None => HopOf(Target(v), v.hop))
        BY DEF UiFits, HopFits
    <2>3. ASSUME v.hop # None PROVE HopOf(Target(v), v.hop)'
        <3> DEFINE a == Target(v)
        <3>1. a \in DOMAIN profile.path /\ v.hop \in 0..LastHop(a)  BY <2>2, <2>3 DEF HopOf
        <3>2. LastHop(a) \in Nat /\ HopLimit(a) \in Nat /\ LastHop(a) <= HopLimit(a) - 1
            BY <3>1, LastHopType
        <3> HIDE DEF a
        <3>3. LastHop(a)' \in Nat /\ LastHop(a) <= LastHop(a)'
            <4>1. HopLimit(a)' = HopLimit(a)  BY DEF HopLimit, Cfg, Args
            <4> HIDE DEF HopLimit
            <4>2. LastHop(a) = IF rp # None THEN 0 ELSE HopLimit(a) - 1  BY DEF LastHop
            <4>3. LastHop(a)' = IF rp' # None THEN 0 ELSE HopLimit(a) - 1  BY <4>1 DEF LastHop
            <4> QED  BY <3>2, <4>2, <4>3
        <3> QED  BY <3>1, <3>2, <3>3 DEF HopOf, a
    <2> QED  BY <2>1, <2>2, <2>3 DEF HopFits
<1>4. ListFits(ui)'  BY DEF UiFits, ListFits, RowOf
<1>5. ui'.theme \in Themes /\ SettingsFit(ui.settings)'
    BY DEF UiFits, SettingsFit, Sections, Themes
<1>6. InputFits(ui)'  BY DEF UiFits, InputFits, InputFit
<1> QED  BY <1>1, <1>2, <1>3, <1>4, <1>5, <1>6 DEF UiFits

LEMMA RepliesFit ==
    ASSUME RequestsInv, MgrShape, MgrStep
    PROVE  RequestsInv'
<1>1. Requests' = Requests  BY MgrFrame DEF Requests
<1>2. MgrRecord(mgr)  BY DEF MgrShape, MgrRecord
<1> USE DEF MgrUnchanged
<1>3. CASE MgrTake
    <2>1. queue # <<>> /\ mgr' = [mgr EXCEPT !.pc = "resolving", !.req = Head(queue)] /\ queue' = Tail(queue) /\ replies' = replies
        BY <1>3 DEF MgrTake
    <2>2. Head(queue) \in Requests /\ Tail(queue) \in Seq(Requests)
        <3>1. queue \in Seq(Requests)  BY DEF RequestsInv
        <3> QED  BY <2>1, <3>1
    <2>3. mgr'.req \in Requests  BY <1>2, <2>1, <2>2 DEF MgrRecord, MgrFields
    <2> QED  BY <1>1, <2>1, <2>2, <2>3 DEF RequestsInv
<1>4. CASE MgrCloses
    <2>1. queue' = <<>> /\ mgr'.pc = "joining"
        BY <1>2, <1>4 DEF MgrCloses, MgrRecord, MgrFields
    <2>2. replies' = replies \cup {[id |-> queue[i].id, result |-> "closed", ip |-> None] : i \in 1..Len(queue)}
        BY <1>4 DEF MgrCloses
    <2>3. ASSUME NEW r \in replies' PROVE r.id \in Nat
        <3>1. CASE r \in replies  BY <3>1 DEF RequestsInv
        <3>2. CASE r \notin replies
            <4>1. PICK i \in 1..Len(queue) : r = [id |-> queue[i].id, result |-> "closed", ip |-> None]
                BY <2>2, <3>2
            <4>2. queue[i] \in Requests
                <5>1. queue \in Seq(Requests)  BY DEF RequestsInv
                <5> HIDE DEF Requests
                <5> QED  BY <5>1
            <4> QED  BY <4>1, <4>2 DEF Requests
        <3> QED  BY <3>1, <3>2
    <2> QED  BY <1>1, <2>1, <2>3 DEF RequestsInv
<1>5. CASE MgrInserts
    <2>1. queue' = queue /\ replies' = replies /\ mgr.pc = "resolving"  BY <1>5 DEF MgrInserts
    <2>2. mgr'.req = mgr.req
        <3>1. PICK ip, flows : mgr' = [mgr EXCEPT !.pc = "inserted", !.ip = ip, !.cached[Family(ip)] = flows]
            BY <1>5 DEF MgrInserts
        <3> DEFINE cached == [mgr.cached EXCEPT ![Family(ip)] = flows]
        <3>2. mgr' = [mgr EXCEPT !.pc = "inserted", !.ip = ip, !.cached = cached]
            BY <1>2, <3>1 DEF MgrRecord, MgrFields
        <3> HIDE DEF cached
        <3> QED  BY <1>2, <3>2 DEF MgrRecord, MgrFields
    <2> QED  BY <1>1, <2>1, <2>2 DEF RequestsInv
<1>6. CASE MgrDeclines \/ MgrSpawns
    <2>1. queue' = queue /\ mgr.req \in Requests /\ mgr'.pc = "idle"
        <3>1. CASE MgrDeclines
            <4>1. \E ip : mgr' = [mgr EXCEPT !.pc = "idle", !.ip = ip]  BY <3>1 DEF MgrDeclines
            <4>2. mgr'.pc = "idle"  BY <1>2, <4>1 DEF MgrRecord, MgrFields
            <4> QED  BY <3>1, <4>2 DEF MgrDeclines, RequestsInv
        <3>2. CASE MgrSpawns
            <4>1. mgr'.pc = "idle"  BY <3>2, MgrChanges DEF MgrTake, MgrCloses, MgrDeclines, MgrJoins, MgrInserts, MgrSpawns
            <4> QED  BY <3>2, <4>1 DEF MgrSpawns, RequestsInv
        <3> QED  BY <1>6, <3>1, <3>2
    <2>2. mgr.req.id \in Nat  BY <2>1 DEF Requests
    <2>3. PICK result : Replied(result)  BY <1>6 DEF MgrDeclines, MgrSpawns
    <2>4. \A r \in replies' : r.id \in Nat  BY <2>2, <2>3 DEF Replied, RequestsInv
    <2> QED  BY <1>1, <2>1, <2>4 DEF RequestsInv
<1>7. CASE MgrJoins
    <2>1. queue' = queue /\ replies' = replies  BY <1>7 DEF MgrJoins
    <2>2. \E pc \in {"done", "failed"} : mgr' = [mgr EXCEPT !.pc = pc]  BY <1>7 DEF MgrJoins
    <2>3. mgr'.pc \in {"done", "failed"}  BY <1>2, <2>2 DEF MgrRecord, MgrFields
    <2> QED  BY <1>1, <2>1, <2>3 DEF RequestsInv
<1> QED  BY <1>3, <1>4, <1>5, <1>6, <1>7 DEF MgrStep

\* Requests, and answers to them, keep their numbers and hosts.
LEMMA RequestsKept ==
    ASSUME Started, MgrShape, RequestsInv, stage # "boot" => UiFits(ui), Next
    PROVE  RequestsInv'
<1> USE DEF mgrVars, lifecycleVars
<1>1. profile' = profile  BY ProfileStays
<1>2. Requests' = Requests  BY <1>1 DEF Requests
<1>3. CASE UNCHANGED <<queue, replies, mgr>>  BY <1>2, <1>3 DEF RequestsInv
<1>4. CASE LifecycleStep /\ UNCHANGED <<tuiVars, enrichVars>>
    <2>1. CASE BootTracing
        <3>1. UNCHANGED <<queue, replies>>  BY <2>1 DEF BootTracing
        <3>2. mgr' = mgr \/ mgr'.pc = "idle"
            <4>1. mgr = [field \in MgrFields |-> mgr[field]]  BY DEF MgrShape
            <4>2. mgr' = mgr \/ \E served, cached : mgr' = [mgr EXCEPT !.pc = "idle", !.served = served, !.cached = cached]
                BY <2>1 DEF BootTracing
            <4> QED  BY <4>1, <4>2 DEF MgrFields
        <3> QED  BY <1>2, <3>1, <3>2 DEF RequestsInv
    <2>2. CASE MainStep /\ ~BootTracing  BY <1>3, <2>2, MainFrame
    <2>3. CASE Signal  BY <1>3, <2>3 DEF Signal
    <2>4. CASE MgrStep  BY <1>1, <2>4, RepliesFit
    <2>5. CASE \E ip \in DOMAIN engine : EngineStep(ip)  BY <1>3, <2>5, EngineFrame
    <2>6. CASE \E fam \in Families : ReceiverStep(fam)  BY <1>3, <2>6, ReceiverFrame
    <2>7. CASE \E k \in DOMAIN worker : WorkerEnds(k)  BY <1>3, <2>7 DEF WorkerEnds
    <2> QED  BY <1>4, <2>1, <2>2, <2>3, <2>4, <2>5, <2>6, <2>7 DEF LifecycleStep
<1>5. CASE TuiStep
    <2>1. CASE AddKey
        <3>1. stage # "boot"  BY <2>1 DEF AddKey, Pressed, Shows
        <3>2. ui.nextId \in Nat /\ (ui.input.text # None => ui.input.text \in DOMAIN profile.dns)
            BY <3>1 DEF UiFits, InputFits, InputFit
        <3> DEFINE q == [id |-> ui.nextId, host |-> ui.input.text]
        <3>3. q \in Requests  BY <2>1, <3>2 DEF AddKey, Requests
        <3>4. UNCHANGED <<replies, mgr>> /\ (queue' = queue \/ queue' = Append(queue, q))
            BY <2>1 DEF AddKey
        <3> HIDE DEF q
        <3>5. queue' \in Seq(Requests)  BY <3>3, <3>4 DEF RequestsInv
        <3> QED  BY <1>2, <3>4, <3>5 DEF RequestsInv
    <2>2. CASE ~AddKey
        <3>1. UNCHANGED <<queue, replies, mgr>>
            BY <1>5, <2>2 DEF TuiStep, Frame, Render, Look, Draw, DrawingUnchanged, Close, CloseFails, Pass, ViewKey, ReplayKey,
                               PauseKey, ResetKey, lifecycleVars, mgrVars
        <3> QED  BY <1>3, <3>1
    <2> QED  BY <2>1, <2>2
<1>6. CASE EnrichStep  BY <1>3, <1>6, EnrichFrame
<1>7. CASE RefreshKey  BY <1>3, <1>7 DEF RefreshKey
<1>8. CASE Ended  BY <1>3, <1>8 DEF Ended, vars
<1> QED  BY <1>4, <1>5, <1>6, <1>7, <1>8 DEF Next

\* Every target has a path: it is the one recorded, or one a host resolved to.
LEMMA PathsKept ==
    ASSUME FlowsInductive, PathsInv, RequestsInv, Next
    PROVE  PathsInv'
<1>1. /\ Started /\ Shapes /\ SessionsShape /\ PendingShape /\ DOMAIN engine \subseteq DOMAIN sessions
      /\ profile \in Profiles
    BY DEF FlowsInductive, Shapes, Started
<1>2. profile' = profile  BY <1>1, ProfileStays
<1> DEFINE S == DOMAIN profile.path
<1>3. /\ \A host \in DOMAIN profile.dns : profile.dns[host] \in Seq(S)
      /\ Args.targets \in Seq(DOMAIN profile.dns) /\ profile.recorded \in S
    BY <1>1, RunsAssumption DEF Args
<1>4. CASE SessionsFollow  BY <1>2, <1>4 DEF PathsInv, SessionsFollow
<1>5. CASE BootReplay
    <2>1. DOMAIN sessions' = DOMAIN sessions \cup {profile.recorded}
        BY <1>5 DEF BootReplay, Inserted
    <2> QED  BY <1>2, <1>3, <2>1 DEF PathsInv
<1>6. CASE BootTracing
    <2>1. /\ DOMAIN engine' = DOMAIN sessions' /\ ~ReplayOrDiff(Args)
          /\ DOMAIN engine' = {StartTargets[i] : i \in 1..Len(StartTargets)}
        BY <1>1, <1>6, TracingStarts
    <2>2. StartTargets = InitialTargets(Args, profile.dns) /\ StartTargets # None
        BY <1>6, <2>1 DEF StartTargets, BootTracing, Refused
    <2>3. StartTargets \in Seq(S)  BY <1>3, <2>2, TargetsType
    <2> HIDE DEF S
    <2>4. \A i \in 1..Len(StartTargets) : StartTargets[i] \in S  BY <2>3
    <2> QED  BY <1>2, <2>1, <2>4 DEF PathsInv, S
<1>7. CASE MgrInserts
    <2> DEFINE a == ResolveTarget(mgr.req.host, Args.force, profile.dns)
    <2>1. mgr.req.host \in DOMAIN profile.dns  BY <1>7 DEF MgrInserts, RequestsInv, Requests
    <2>2. a # None  BY <1>7 DEF MgrInserts
    <2>3. a \in S  BY <1>3, <2>1, <2>2, ResolvesToAddress
    <2>4. DOMAIN sessions' = DOMAIN sessions \cup {a}  BY <1>7 DEF MgrInserts, Inserted
    <2> QED  BY <1>2, <2>3, <2>4 DEF PathsInv
<1> QED  BY <1>1, <1>4, <1>5, <1>6, <1>7, SessionsFrame

\* The interface starts on the first target, with the themes it was given.
LEMMA InitFits ==
    ASSUME profile \in Profiles, ~Refused, ui = InitUi(profile)
    PROVE  UiFits(ui)
<1> DEFINE saved == LoadPrefs(profile)
           n == NewSettings(saved.theme, saved.display, saved.key)
           settings == [n EXCEPT !.check = saved.check]
           theme == saved.theme
           display == saved.display
           update == profile.update
           left == profile.keysLeft
<1>1. theme \in Themes
    <2>1. /\ profile.prefs.theme \in Themes /\ DOMAIN profile.prefs = {"theme", "display", "key", "check"}
          /\ profile.theme \in {None} \cup Themes
        BY ThemesAssumption DEF Themes
    <2>2. theme = IF profile.theme # None THEN profile.theme ELSE profile.prefs.theme
        BY <2>1 DEF LoadPrefs
    <2> QED  BY <2>1, <2>2
<1>2. SettingsFit(settings)
    <2>1. 0 \in 0..(Sections - 1)  BY SectionsType
    <2> DEFINE d == display
               k == saved.key
               c == saved.check
               t == theme
    <2> HIDE DEF saved, theme, display
    <2>2. settings = [section |-> 0, theme |-> t, display |-> d, key |-> k, check |-> c]
        BY DEF NewSettings, theme, display
    <2> HIDE DEF settings, d, k, c
    <2> QED  BY <1>1, <2>1, <2>2 DEF SettingsFit, SettingsFields
<1>3. ui = [targets |-> StartTargets, selected |-> 0, hop |-> None, paused |-> FALSE, overlay |-> "none",
            listIndex |-> 0, theme |-> theme, display |-> display,
            settings |-> settings, input |-> NoInput,
            update |-> update, step |-> "poll", left |-> left, nextId |-> 1]
    BY Zenon DEF InitUi
<1> HIDE DEF settings, theme, display, update, left
<1>4. /\ UiRecord(ui) /\ ui.targets = StartTargets /\ ui.selected = 0 /\ ui.overlay = "none" /\ ui.hop = None
      /\ ui.theme = theme /\ ui.settings = settings /\ ui.input = NoInput /\ ui.nextId = 1
    BY <1>3 DEF UiRecord, UiFields
<1>5. PICK S : ui.targets \in Seq(S)  BY <1>4, StartTargetsListed
<1>6. Placed(ui)
    <2>1. Len(ui.targets) \in Nat /\ (ui.targets = <<>> \/ Len(ui.targets) > 0)  BY <1>5
    <2> QED  BY <1>4, <2>1 DEF Placed
<1>7. HopFits(ui) /\ ListFits(ui) /\ InputFits(ui)
    BY <1>4, NoInputFits DEF HopFits, ListFits, InputFits
<1> QED  BY <1>1, <1>2, <1>4, <1>5, <1>6, <1>7 DEF UiFits

\* The interface is made before the arguments are known to be good, and fits
\* from when they are.
FitInv ==
    /\ stage = "boot" => ui = InitUi(profile)
    /\ stage # "boot" => UiFits(ui)

LEMMA FitsKept ==
    ASSUME Started, Started', DOMAIN worker = profile.workers, PathsInv, RequestsInv, FitInv, Next
    PROVE  FitInv'
<1>1. profile \in Profiles /\ profile' = profile  BY ProfileStays DEF Started
<1>2. IxEnabled' = IxEnabled  BY <1>1, WorkersStay DEF IxEnabled
<1>3. rp = None => rp' = None  BY NoPlayer
<1>4. CASE stage # "boot"
    <2>1. stage' # "boot"  BY <1>4, StagesMove
    <2>2. UiFits(ui)  BY <1>4 DEF FitInv
    <2>3. PICK v : UiFits(v) /\ ui' = v  BY <1>1, <2>2, UiStepsFit
    <2>4. UiFits(ui)'  BY <1>1, <1>2, <1>3, <2>3, FitsOn
    <2> QED  BY <2>1, <2>4 DEF FitInv
<1>5. CASE stage = "boot"
    <2>1. ui = InitUi(profile) /\ ui' = ui  BY <1>5, BootUi DEF FitInv
    <2>2. StartTargets' = StartTargets  BY <1>1 DEF StartTargets, Args
    <2>3. InitUi(profile)' = InitUi(profile)  BY <1>1, <2>2, Zenon DEF InitUi
    <2>4. CASE stage' = "boot"  BY <2>1, <2>3, <2>4 DEF FitInv
    <2>5. CASE stage' # "boot"
        <3>1. ~Refused'  BY <2>5 DEF Started
        <3>2. ~Refused  BY <1>1, <2>2, <3>1 DEF Refused, Args
        <3>3. UiFits(ui)  BY <1>1, <2>1, <3>2, InitFits
        <3>4. UiFits(ui)'  BY <1>1, <1>2, <1>3, <2>1, <3>3, FitsOn
        <3> QED  BY <2>5, <3>4 DEF FitInv
    <2> QED  BY <2>4, <2>5
<1> QED  BY <1>4, <1>5

\* What the steps keep, together.
RangesInv ==
    /\ LookupsInv /\ StagesInv /\ RoundsInv /\ CachesInv
    /\ PathsInv /\ RequestsInv /\ FitInv

LEMMA RangesStart == ASSUME ProgramInit PROVE RangesInv
<1>1. /\ profile \in Profiles /\ stage = "boot" /\ exit = None /\ cancelled = FALSE /\ sessions = <<>> /\ pending = {}
      /\ worker = [k \in profile.workers |-> "off"] /\ mgr.pc = "off" /\ queue = <<>> /\ replies = {}
      /\ cache = [k \in profile.workers |-> <<>>] /\ lookups = {} /\ ui = InitUi(profile)
    BY DEF ProgramInit, Init, TuiInit, EnrichInit
<1>2. LookupsInv /\ StagesInv /\ RoundsInv /\ FitInv
    BY <1>1 DEF LookupsInv, StagesInv, RoundsInv, FitInv
<1>3. CachesInv
    <2>1. <<>> \in Seq({}) /\ Len(<<>>) <= Cap  BY TablesAssumption
    <2>2. Bounded(<<>>)  BY <2>1 DEF Bounded
    <2> QED  BY <1>1, <2>2 DEF CachesInv
<1>4. PathsInv  BY <1>1 DEF PathsInv
<1>5. RequestsInv  BY <1>1 DEF RequestsInv
<1> QED  BY <1>2, <1>3, <1>4, <1>5 DEF RangesInv

LEMMA RangesKept ==
    ASSUME FlowsInductive, FlowsInductive', RangesInv, Next
    PROVE  RangesInv'
<1>1. Started /\ Started' /\ MgrShape  BY DEF FlowsInductive, Shapes
<1>2. LookupsInv'  BY <1>1, LookupsKept DEF RangesInv
<1>3. StagesInv'  BY StagesKept DEF RangesInv
<1>4. RoundsInv'  BY RoundsKept DEF RangesInv
<1>5. CachesInv'  BY <1>1, CachesKept DEF RangesInv
<1>6. PathsInv'  BY PathsKept DEF RangesInv
<1>7. RequestsInv'  BY <1>1, RequestsKept DEF RangesInv, FitInv
<1>8. FitInv'  BY <1>1, FitsKept DEF RangesInv, CachesInv
<1> QED  BY <1>2, <1>3, <1>4, <1>5, <1>6, <1>7, <1>8 DEF RangesInv

\* And what TypeOK says of them follows.
LEMMA RangesType ==
    ASSUME FlowsInductive, RangesInv
    PROVE  TypeOK
<1>1. /\ stage \in {"boot", "engines", "settle", "loop", "tui", "receivers", "manager", "workers"}
      /\ exit \in {None, "ok", "error", "130"} /\ cancelled \in BOOLEAN
    BY DEF RangesInv, StagesInv
<1>2. DOMAIN engine \subseteq DOMAIN sessions /\ profile \in Profiles
    BY DEF FlowsInductive, Shapes, Started
<1>3. \A p \in pending : p[1] \in DOMAIN engine /\ p[2] <= engine[p[1]].rounds
    BY DEF RangesInv, RoundsInv
<1>4. ASSUME Shows
      PROVE  /\ ui.selected < Len(ui.targets) \/ (ui.targets = <<>> /\ ui.selected = 0)
             /\ ui.hop # None => ui.hop < IF rp # None THEN 1 ELSE HopLimit(Target(ui))
             /\ ui.overlay = "list" => ui.listIndex < Len(ui.targets)
             /\ ui.theme < NumThemes /\ ui.settings.section < Sections
    <2>1. UiFits(ui)  BY <1>4 DEF Shows, RangesInv, FitInv
    <2>2. ui.selected < Len(ui.targets) \/ (ui.targets = <<>> /\ ui.selected = 0)  BY <2>1 DEF UiFits, Placed
    <2>3. ASSUME ui.hop # None PROVE ui.hop < IF rp # None THEN 1 ELSE HopLimit(Target(ui))
        <3> DEFINE a == Target(ui)
        <3>1. a \in DOMAIN profile.path /\ ui.hop \in 0..LastHop(a)  BY <2>1, <2>3 DEF UiFits, HopFits, HopOf
        <3> HIDE DEF a
        <3>2. LastHop(a) \in Nat /\ HopLimit(a) \in Nat  BY <1>2, <3>1, LastHopType
        <3>3. LastHop(a) = IF rp # None THEN 0 ELSE HopLimit(a) - 1  BY DEF LastHop
        <3>4. ui.hop < IF rp # None THEN 1 ELSE HopLimit(a)  BY <3>1, <3>2, <3>3
        <3> QED  BY <3>4 DEF a
    <2>4. ui.overlay = "list" => ui.listIndex < Len(ui.targets)  BY <2>1 DEF UiFits, ListFits, RowOf
    <2>5. ui.theme < NumThemes  BY <2>1, ThemesType DEF UiFits
    <2>6. ui.settings.section < Sections  BY <2>1, SectionsType DEF UiFits, SettingsFit
    <2> QED  BY <2>2, <2>3, <2>4, <2>5, <2>6
<1>5. \A k \in DOMAIN cache : Len(cache[k]) <= Cap  BY DEF RangesInv, CachesInv, Bounded
<1>6. \A l \in lookups : worker[l.kind] = "busy"  BY DEF RangesInv, LookupsInv, LookupOf
<1> QED  BY <1>1, <1>2, <1>3, <1>4, <1>5, <1>6 DEF TypeOK

LEMMA RangesStutter ==
    ASSUME RangesInv, UNCHANGED vars
    PROVE  RangesInv'
<1>1. UNCHANGED <<stage, exit, cancelled, profile, sessions, pending, engine, worker, mgr, queue, replies, ui, rp, cache, lookups>>
    BY DEF vars, lifecycleVars, mainVars, taskVars, mgrVars, tuiVars, enrichVars
<1>2. LookupsInv' /\ StagesInv' /\ RoundsInv'
    BY <1>1 DEF RangesInv, LookupsInv, LookupOf, StagesInv, RoundsInv
<1>3. CachesInv' /\ PathsInv'  BY <1>1 DEF RangesInv, CachesInv, Bounded, PathsInv
<1>4. RequestsInv'
    <2>1. Requests' = Requests  BY <1>1 DEF Requests
    <2> QED  BY <1>1, <2>1 DEF RangesInv, RequestsInv
<1>5. FitInv'
    <2>1. CASE stage = "boot"
        <3>1. StartTargets' = StartTargets  BY <1>1 DEF StartTargets, Args
        <3>2. InitUi(profile)' = InitUi(profile)  BY <1>1, <3>1, Zenon DEF InitUi
        <3> QED  BY <1>1, <2>1, <3>2 DEF RangesInv, FitInv
    <2>2. CASE stage # "boot"
        <3>1. UiFits(ui)  BY <2>2 DEF RangesInv, FitInv
        <3>2. UiFits(ui)'
            BY <1>1, <3>1 DEF UiFits, UiRecord, Placed, HopFits, HopOf, LastHop, HopLimit, Cfg, Args, Target, ListFits, RowOf, Themes, SettingsFit,
                              Sections, IxEnabled, InputFits, InputFit
        <3> QED  BY <1>1, <2>2, <3>2 DEF FitInv
    <2> QED  BY <2>1, <2>2
<1> QED  BY <1>2, <1>3, <1>4, <1>5 DEF RangesInv

\* Whatever the keys, resets, replays, answers and new targets, and in any order:
\* every index of the interface is that of something there (UiState, handle_key,
\* poll_add_target_result), no cache is above its cap (prune_cache), a probe that
\* is pending was sent in a round its engine has begun, and every lookup belongs
\* to a batch of its worker.
THEOREM IndicesStayInRange == Spec => []TypeOK
<1>1. ProgramInit => FlowsInductive /\ RangesInv
    BY StartsFlowing, RangesStart
<1>2. FlowsInductive /\ RangesInv /\ [Next]_vars => FlowsInductive' /\ RangesInv'
    <2> SUFFICES ASSUME FlowsInductive, RangesInv, [Next]_vars PROVE FlowsInductive' /\ RangesInv'
        OBVIOUS
    <2>1. FlowsInductive'  BY FlowsStay
    <2>2. RangesInv'  BY <2>1, RangesKept, RangesStutter
    <2> QED  BY <2>1, <2>2
<1>3. FlowsInductive /\ RangesInv => TypeOK  BY RangesType
<1> QED  BY <1>1, <1>2, <1>3, PTL DEF Spec
=============================================================================
