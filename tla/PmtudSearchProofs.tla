------------------------- MODULE PmtudSearchProofs -------------------------
(***************************************************************************)
(* Proofs about PmtudSearch, for every pair of starting bounds, every set  *)
(* of paths and every value of the caps MaxOpen, MaxLost and MaxResets.    *)
(*                                                                         *)
(*  - TypeCorrect and SearchInside follow from IInv, which adds to the     *)
(*    types what the operations of the search need of one another: its     *)
(*    bounds stay 8 bytes or more apart until it is complete.              *)
(*  - NoPromiseAbovePath needs to know that an answer is true of the entry *)
(*    it will take (Truthful), and holds for paths with one bottleneck.    *)
(*  - ResultNotFarBelow: while nothing was lost, every failure tells the   *)
(*    truth (FailuresTrue), so no size that fits is given up.              *)
(*  - SearchClosesIn: a search that starts with nothing in flight never    *)
(*    tries a size again once it has moved on (Settled), so no outcome     *)
(*    and no refused size opens its bounds again.                          *)
(***************************************************************************)
EXTENDS PmtudSearch, TLAPS

\* The state of the search, whatever the engine and the receiver are at.
SearchOK(p) ==
    /\ p \in PmtudState
    /\ p.max <= Hi /\ p.current <= Hi
    /\ p.successes + p.failures <= 1
    /\ p.phase # "complete" => p.min + 8 <= p.max
    /\ p.phase = "searching" => p.min < p.current /\ p.current <= p.max

\* The size the engine read is one the search asked for.
SizeOK ==
    /\ size <= Hi
    /\ pc = "clamp" => 1 <= size

IInv == TypeOK /\ SearchOK(pmtud) /\ SizeOK

\* u16 values; cited where the provers should not look at the interval itself.
LEMMA SizesFacts ==
    /\ \A n \in Sizes : n \in Int /\ 0 <= n /\ n <= U16Max
    /\ \A n \in Int : 0 <= n /\ n <= U16Max => n \in Sizes
    /\ U16Max \in Int
    /\ Hi \in Sizes /\ Lo \in Sizes /\ 1 <= Lo /\ Lo + 8 <= Hi
    /\ NoMtu \in Sizes
<1>1. U16Max \in Int /\ 0 <= U16Max
    BY DEF U16Max
<1>2. NoMtu = 0
    BY DEF NoMtu
<1> QED  BY <1>1, <1>2, ConstantsAssumption DEF Sizes

\* The fields of the search state.
LEMMA FieldTypes ==
    ASSUME NEW p \in PmtudState
    PROVE  /\ p.min \in Sizes /\ p.max \in Sizes /\ p.current \in Sizes
           /\ p.discovered \in Sizes
           /\ p.successes \in 0..2 /\ p.failures \in 0..2
           /\ p.phase \in Phase
    BY DEF PmtudState
-----------------------------------------------------------------------------
(* The operations of the search keep SearchOK. *)

\* is_converged and next_probe_size: bounds that have not converged are far
\* enough apart for the next size to lie strictly between them.
LEMMA AdvanceKeeps ==
    ASSUME NEW p \in PmtudState, p.max <= Hi, p.current <= Hi,
           p.successes + p.failures <= 1
    PROVE  SearchOK(AdvanceSearch(p))
<1> USE FieldTypes, SizesFacts
<1>1. CASE IsConverged(p)
    <2>1. AdvanceSearch(p) = [p EXCEPT !.discovered = p.min, !.phase = "complete"]
        BY <1>1 DEF AdvanceSearch
    <2>2. "complete" \in Phase
        BY DEF Phase
    <2> QED  BY <2>1, <2>2 DEF SearchOK, PmtudState
<1>2. CASE ~IsConverged(p)
    <2>1. p.min + 8 <= p.max
        BY <1>2 DEF IsConverged
    <2>2. /\ NextProbeSize(p) \in Int
          /\ p.min < NextProbeSize(p) /\ NextProbeSize(p) <= p.max
        BY <2>1 DEF NextProbeSize
    <2>3. NextProbeSize(p) \in Sizes /\ NextProbeSize(p) <= Hi
        BY <2>2
    <2>4. AdvanceSearch(p) = [p EXCEPT !.current = NextProbeSize(p)]
        BY <1>2 DEF AdvanceSearch
    <2> QED  BY <2>1, <2>2, <2>3, <2>4 DEF SearchOK, PmtudState
<1> QED  BY <1>1, <1>2

\* The same, where an operation clears its counts first.
LEMMA ClearedKeeps ==
    ASSUME NEW p \in PmtudState, p.max <= Hi, p.current <= Hi
    PROVE  SearchOK(AdvanceSearch(ClearCounts(p)))
<1> DEFINE q == ClearCounts(p)
<1>1. 0 \in 0..2 /\ 0 + 0 <= 1
    OBVIOUS
<1>2. q \in PmtudState /\ q.max <= Hi /\ q.current <= Hi /\ q.successes + q.failures <= 1
    BY <1>1 DEF ClearCounts, PmtudState
<1>3. SearchOK(AdvanceSearch(q))
    <2> HIDE DEF q
    <2> QED  BY <1>2, AdvanceKeeps
<1> QED  BY <1>3

\* New: the starting bounds are far enough apart for a search.
LEMMA NewOK == SearchOK(New)
    BY SizesFacts DEF SearchOK, New, PmtudState, Phase

\* start_search probes the upper bound first.
LEMMA StartKeeps ==
    ASSUME NEW p, SearchOK(p), p.phase = "waiting"
    PROVE  SearchOK(StartSearch(p))
<1>1. p \in PmtudState /\ p.min + 8 <= p.max
    BY DEF SearchOK
<1>2. p.min < p.max /\ p.max <= p.max
    BY <1>1, FieldTypes, SizesFacts
<1>3. "searching" \in Phase
    BY DEF Phase
<1> QED  BY <1>1, <1>2, <1>3 DEF SearchOK, StartSearch, PmtudState

\* The second of two successes in a row raises the lower bound.
LEMMA SuccessKeeps ==
    ASSUME NEW p, SearchOK(p), p.phase = "searching"
    PROVE  SearchOK(RecordSuccess(p))
<1> USE FieldTypes, SizesFacts
<1>1. p \in PmtudState
    BY DEF SearchOK
<1>2. CASE p.failures > 0
    <2>1. RecordSuccess(p) = [p EXCEPT !.failures = 0, !.successes = 1]
        BY <1>2 DEF RecordSuccess
    <2>2. 0 \in 0..2 /\ 1 \in 0..2 /\ 1 + 0 <= 1
        OBVIOUS
    <2> QED  BY <1>1, <2>1, <2>2 DEF SearchOK, PmtudState
<1>3. CASE ~(p.failures > 0) /\ p.successes + 1 < 2
    <2>1. p.successes + 1 \in 0..2 /\ (p.successes + 1) + p.failures <= 1
        BY <1>1, <1>3
    <2>2. RecordSuccess(p) = [p EXCEPT !.successes = @ + 1]
        BY <1>3 DEF RecordSuccess
    <2> QED  BY <1>1, <2>1, <2>2 DEF SearchOK, PmtudState
<1>4. CASE ~(p.failures > 0) /\ ~(p.successes + 1 < 2)
    <2> DEFINE q == [p EXCEPT !.min = p.current]
    <2>1. RecordSuccess(p) = AdvanceSearch(ClearCounts(q))
        BY <1>4 DEF RecordSuccess
    <2>2. q \in PmtudState /\ q.max <= Hi /\ q.current <= Hi
        BY <1>1 DEF SearchOK, PmtudState
    <2> HIDE DEF q
    <2> QED  BY <2>1, <2>2, ClearedKeeps
<1> QED  BY <1>2, <1>3, <1>4

\* The second of two failures in a row lowers the upper bound.
LEMMA FailureKeeps ==
    ASSUME NEW p, SearchOK(p), p.phase = "searching"
    PROVE  SearchOK(RecordFailure(p))
<1> USE FieldTypes, SizesFacts
<1>1. p \in PmtudState
    BY DEF SearchOK
<1>2. CASE p.successes > 0
    <2>1. RecordFailure(p) = [p EXCEPT !.successes = 0, !.failures = 1]
        BY <1>2 DEF RecordFailure
    <2>2. 0 \in 0..2 /\ 1 \in 0..2 /\ 0 + 1 <= 1
        OBVIOUS
    <2> QED  BY <1>1, <2>1, <2>2 DEF SearchOK, PmtudState
<1>3. CASE ~(p.successes > 0) /\ p.failures + 1 < 2
    <2>1. p.failures + 1 \in 0..2 /\ p.successes + (p.failures + 1) <= 1
        BY <1>1, <1>3
    <2>2. RecordFailure(p) = [p EXCEPT !.failures = @ + 1]
        BY <1>3 DEF RecordFailure
    <2> QED  BY <1>1, <2>1, <2>2 DEF SearchOK, PmtudState
<1>4. CASE ~(p.successes > 0) /\ ~(p.failures + 1 < 2)
    <2> DEFINE q == [p EXCEPT !.max = p.current - 1]
    <2>1. RecordFailure(p) = AdvanceSearch(ClearCounts(q))
        BY <1>4 DEF RecordFailure
    <2>2. p.current - 1 \in Sizes /\ p.current - 1 <= Hi
        BY <1>1 DEF SearchOK
    <2>3. q \in PmtudState /\ q.max <= Hi /\ q.current <= Hi
        BY <1>1, <2>2 DEF SearchOK, PmtudState
    <2> HIDE DEF q
    <2> QED  BY <2>1, <2>3, ClearedKeeps
<1> QED  BY <1>2, <1>3, <1>4

\* Whatever MTU the router reports, the bounds keep their type.
LEMMA FragNeededKeeps ==
    ASSUME NEW p, SearchOK(p), p.phase = "searching", NEW mtu \in Sizes
    PROVE  SearchOK(RecordFragNeeded(p, mtu))
<1> USE FieldTypes, SizesFacts
<1>1. p \in PmtudState
    BY DEF SearchOK
<1>2. CASE mtu < p.max
    <2> DEFINE low == IF mtu < p.min THEN mtu ELSE p.min
    <2>1. low \in Sizes /\ mtu <= Hi
        BY <1>1, <1>2 DEF SearchOK
    <2>2. "complete" \in Phase
        BY DEF Phase
    <2>3. RecordFragNeeded(p, mtu) =
            [p EXCEPT !.discovered = mtu, !.phase = "complete", !.max = mtu, !.min = low]
        BY <1>2 DEF RecordFragNeeded
    <2> HIDE DEF low
    <2> QED  BY <1>1, <2>1, <2>2, <2>3 DEF SearchOK, PmtudState
<1>3. CASE ~(mtu < p.max)
    <2>1. RecordFragNeeded(p, mtu) = AdvanceSearch(ClearCounts(p))
        BY <1>3 DEF RecordFragNeeded
    <2>2. p.max <= Hi /\ p.current <= Hi
        BY DEF SearchOK
    <2> QED  BY <1>1, <2>1, <2>2, ClearedKeeps
<1> QED  BY <1>2, <1>3

\* EMSGSIZE, whatever the phase and the size now searched for.
LEMMA ClampKeeps ==
    ASSUME NEW p, SearchOK(p), NEW s \in Sizes, 1 <= s, s <= Hi
    PROVE  SearchOK(ClampMax(p, s))
<1> USE FieldTypes, SizesFacts
<1>1. p \in PmtudState
    BY DEF SearchOK
<1> DEFINE q == [p EXCEPT !.max = s - 1]
<1>2. s - 1 \in Sizes /\ s - 1 <= Hi
    OBVIOUS
<1>3. q \in PmtudState /\ q.max <= Hi /\ q.current <= Hi
    BY <1>1, <1>2 DEF SearchOK, PmtudState
<1>4. ClampMax(p, s) = AdvanceSearch(ClearCounts(q))
    BY DEF ClampMax
<1> HIDE DEF q
<1> QED  BY <1>3, <1>4, ClearedKeeps

\* An outcome, relevant or not, leaves the search in order.
LEMMA JudgedKeeps ==
    ASSUME NEW p, SearchOK(p), NEW o \in Outcome
    PROVE  SearchOK(Judged(p, o))
<1>1. o.mtu \in Sizes
    BY DEF Outcome
<1> QED
    BY <1>1, SuccessKeeps, FailureKeeps, FragNeededKeeps DEF Judged
-----------------------------------------------------------------------------
(* The invariant. *)

LEMMA InitIInv == Init => IInv
<1> SUFFICES ASSUME Init PROVE IInv
    OBVIOUS
<1>1. links \in Seq(Nat) /\ links # <<>> /\ \A i \in DOMAIN links : links[i] \in Lo..U16Max
    BY ConstantsAssumption DEF Init
<1>2. hostMtu \in Sizes
    BY <1>1, SizesFacts DEF Init
<1>3. poll \in BOOLEAN /\ rejects \in BOOLEAN
    BY ConstantsAssumption DEF Init
<1>4. 0 \in Seqs
    BY ConstantsAssumption DEF Seqs
<1>5. SearchOK(pmtud)
    BY NewOK DEF Init
<1>6. pmtud \in PmtudState
    BY <1>5 DEF SearchOK
<1>7. 0 \in Sizes /\ 0 <= Hi
    BY SizesFacts DEF NoMtu
<1>8. 0 \in 0..MaxNormal /\ 0 \in 0..MaxLost /\ 0 \in 0..MaxResets
    BY ConstantsAssumption
<1>9. TypeOK
    BY <1>2, <1>3, <1>4, <1>6, <1>7, <1>8 DEF Init, TypeOK
<1>10. SizeOK
    BY <1>7 DEF Init, SizeOK
<1> QED  BY <1>5, <1>9, <1>10 DEF IInv

\* The sequence number stays a u8.
LEMMA NextSeqType == ASSUME NEW n \in Seqs PROVE NextSeq(n) \in Seqs
    BY ConstantsAssumption DEF NextSeq, Seqs

\* What the network may answer is well formed.
LEMMA AnswersType ==
    ASSUME NEW q \in Seqs, NEW s \in Sizes, links \in PathMtus
    PROVE  Answers(q, s) \subseteq Answer
<1>1. \A i \in DOMAIN links : links[i] \in Lo..U16Max
    BY ConstantsAssumption
<1>2. {links[i] : i \in StoppedAt(s)} \cup {NoMtu} \subseteq Sizes
    BY <1>1, SizesFacts DEF StoppedAt
<1>3. ASSUME NEW m \in Sizes
      PROVE  [pmtud |-> TRUE, seq |-> q, kind |-> "fragNeeded", mtu |-> m] \in Answer
    BY DEF Answer
<1>4. [pmtud |-> TRUE, seq |-> q, kind |-> "reply", mtu |-> NoMtu] \in Answer
    BY SizesFacts DEF Answer
<1>5. [pmtud |-> TRUE, seq |-> q, kind |-> "error", mtu |-> NoMtu] \in Answer
    BY SizesFacts DEF Answer
<1> QED  BY <1>2, <1>3, <1>4, <1>5 DEF Answers

LEMMA StepIInv == IInv /\ [Next]_vars => IInv'
<1> SUFFICES ASSUME IInv, [Next]_vars PROVE IInv'
    OBVIOUS
<1> USE DEF IInv
<1>1. CASE CheckReady
    <2>1. SearchOK(pmtud')
        BY <1>1, StartKeeps DEF CheckReady
    <2> QED  BY <1>1, <2>1 DEF CheckReady, TypeOK, SizeOK, SearchOK
<1>2. CASE GetSize
    BY <1>2, SizesFacts DEF GetSize, Idle, NoMtu, TypeOK, SizeOK, SearchOK, PmtudState
<1>3. CASE InsertProbe
    <2>1. [pmtud |-> TRUE, seq |-> seq, size |-> size] \in Entry
        BY DEF TypeOK, Entry
    <2> QED  BY <1>3, <2>1 DEF InsertProbe, TypeOK, SizeOK
<1>4. CASE SendOk
    <2>1. \A m \in BogusMtus : [pmtud |-> TRUE, seq |-> seq, kind |-> "fragNeeded", mtu |-> m] \in Answer
        BY ConstantsAssumption, SizesFacts DEF TypeOK, Answer
    <2>2. Answers(seq, size) \subseteq Answer
        BY AnswersType DEF TypeOK
    <2>3. net' \subseteq Answer
        BY <1>4, <2>1, <2>2 DEF SendOk, TypeOK
    <2>4. lost' \in 0..MaxLost
        BY <1>4, ConstantsAssumption DEF SendOk, TypeOK
    <2>5. seq' \in Seqs
        BY <1>4, NextSeqType DEF SendOk, TypeOK
    <2> QED
        BY <1>4, <2>3, <2>4, <2>5, SizesFacts DEF SendOk, Idle, NoMtu, TypeOK, SizeOK
<1>5. CASE SendTooBig
    <2>1. 1 <= size
        BY <1>5, SizesFacts DEF SendTooBig, TypeOK
    <2> QED  BY <1>5, <2>1 DEF SendTooBig, TypeOK, SizeOK
<1>6. CASE Clamp
    <2>1. SearchOK(pmtud')
        BY <1>6, ClampKeeps DEF Clamp, TypeOK, SizeOK
    <2> QED
        BY <1>6, <2>1, SizesFacts DEF Clamp, Idle, NoMtu, TypeOK, SizeOK, SearchOK
<1>7. CASE SendFailed
    <2>1. lost' \in 0..MaxLost
        BY <1>7, ConstantsAssumption DEF SendFailed, TypeOK
    <2> QED
        BY <1>7, <2>1, SizesFacts DEF SendFailed, Idle, NoMtu, TypeOK, SizeOK
<1>8. ASSUME NEW m \in net, NEW E \in SUBSET pending, TakeFor(m, E)
      PROVE  net' \subseteq Answer /\ pending' \subseteq Entry /\ taken' \subseteq Outcome
    BY <1>8 DEF TakeFor, TypeOK, Answer, Outcome
<1>9. ASSUME NEW k, NEW q PROVE Preferred(k, q) \subseteq pending
    BY DEF Preferred, SameKeyEntries
<1>10. CASE Receive
    <2>1. net' \subseteq Answer /\ pending' \subseteq Entry /\ taken' \subseteq Outcome
        BY <1>10, <1>8, <1>9 DEF Receive
    <2>2. hostMtu' \in Sizes
        BY <1>10 DEF Receive, TypeOK, Answer
    <2> QED  BY <1>10, <2>1, <2>2 DEF Receive, TypeOK, SizeOK
<1>11. CASE PollEcho
    <2>1. net' \subseteq Answer /\ pending' \subseteq Entry /\ taken' \subseteq Outcome
        BY <1>11, <1>8, <1>9 DEF PollEcho
    <2> QED  BY <1>11, <2>1 DEF PollEcho, TypeOK, SizeOK
<1>12. CASE Expire
    <2>1. lost' \in 0..MaxLost
        BY <1>12, ConstantsAssumption DEF Expire, TypeOK
    <2>2. pending' \subseteq Entry /\ taken' \subseteq Outcome
        BY <1>12, SizesFacts DEF Expire, TypeOK, Entry, Outcome
    <2> QED  BY <1>12, <2>1, <2>2 DEF Expire, TypeOK, SizeOK
<1>13. CASE ApplyOutcome
    <2>1. SearchOK(pmtud')
        BY <1>13, JudgedKeeps DEF ApplyOutcome, TypeOK
    <2> QED  BY <1>13, <2>1 DEF ApplyOutcome, TypeOK, SizeOK, SearchOK
<1>14. CASE FindDestination
    BY <1>14 DEF FindDestination, TypeOK, SizeOK
<1>15. CASE ResetStats
    <2>1. SearchOK(pmtud')
        BY <1>15, NewOK DEF ResetStats
    <2>2. resets' \in 0..MaxResets
        BY <1>15, ConstantsAssumption DEF ResetStats, TypeOK
    <2> QED  BY <1>15, <2>1, <2>2 DEF ResetStats, TypeOK, SizeOK, SearchOK
<1>16. CASE UNCHANGED vars
    BY <1>16 DEF vars, TypeOK, SizeOK
<1> QED
    BY <1>1, <1>2, <1>3, <1>4, <1>5, <1>6, <1>7, <1>10, <1>11, <1>12, <1>13, <1>14, <1>15,
       <1>16 DEF Next, Engine

LEMMA AlwaysIInv == Spec => []IInv
    BY InitIInv, StepIInv, PTL DEF Spec

\* Every value the search, the map and the messages hold fits its u16 or u8:
\* no bound wraps, whatever MTU a router reports.
THEOREM TypeCorrect == Spec => []TypeOK
<1>1. IInv => TypeOK
    BY DEF IInv
<1> QED  BY <1>1, AlwaysIInv, PTL

\* A search in progress probes between its bounds and has not converged.
THEOREM SearchInside == Spec => []ProbesInside
<1>1. IInv => ProbesInside
    BY DEF IInv, SearchOK, ProbesInside
<1> QED  BY <1>1, AlwaysIInv, PTL
-----------------------------------------------------------------------------
(* What the search promises, on a path with one bottleneck. *)

\* No link narrower than the largest probe is followed, or preceded, by a
\* narrower one.
SingleBottleneck ==
    \A path \in PathMtus : \A i, j \in DOMAIN path : path[i] < Hi => path[i] <= path[j]

\* A reported MTU is the path's, none at all, or too large to be news.
TrueMtu(m) == m = NoMtu \/ Fits(m) \/ Hi <= m

\* Without normal probes, the map and the network hold PMTUD probes only.
OnlyPmtud == (\A e \in pending : e.pmtud) /\ (\A m \in net : m.pmtud)

\* The sequence number of the probe in hand belongs to no earlier answer, and
\* in the map to this probe alone.
FreshSeq ==
    /\ pc \in {"ready", "insert", "send"} => \A m \in net : m.seq # seq
    /\ pc = "send" => \A e \in pending : e.seq = seq => e.size = size

\* What the receiver counts as a success.
Passing == {"reply", "error"}

\* An answer is true of the entry it will take, and was of the one it took.
Truthful ==
    /\ \A m \in net, e \in pending : m.kind \in Passing /\ m.seq = e.seq => Fits(e.size)
    /\ \A m \in net : m.kind = "fragNeeded" => TrueMtu(m.mtu)
    /\ \A o \in taken : o.kind \in Passing => Fits(o.entry.size)
    /\ \A o \in taken : o.kind = "fragNeeded" => TrueMtu(o.mtu)

SafeSearch(p) == Fits(p.min) /\ (p.discovered # NoMtu => Fits(p.discovered))

SafeInv == IInv /\ OnlyPmtud /\ FreshSeq /\ Truthful /\ SafeSearch(pmtud)

LEMMA AdvanceSafe ==
    ASSUME NEW p \in PmtudState, SafeSearch(p)
    PROVE  SafeSearch(AdvanceSearch(p))
    BY DEF SafeSearch, AdvanceSearch, PmtudState

\* An operation that clears the counts and moves the upper bound or none.
LEMMA ClearedSafe ==
    ASSUME NEW p \in PmtudState, SafeSearch(p)
    PROVE  SafeSearch(AdvanceSearch(ClearCounts(p)))
<1> DEFINE q == ClearCounts(p)
<1>1. 0 \in 0..2
    OBVIOUS
<1>2. q \in PmtudState /\ q.min = p.min /\ q.discovered = p.discovered
    BY <1>1 DEF ClearCounts, PmtudState
<1>3. SafeSearch(q)
    BY <1>2 DEF SafeSearch
<1> HIDE DEF q
<1>4. SafeSearch(AdvanceSearch(q))
    BY <1>2, <1>3, AdvanceSafe
<1> QED  BY <1>4 DEF q

\* A success at a size the path carries may raise the lower bound to it.
LEMMA SuccessSafe ==
    ASSUME NEW p, SearchOK(p), SafeSearch(p), Fits(p.current)
    PROVE  SafeSearch(RecordSuccess(p))
<1> DEFINE q == [p EXCEPT !.min = p.current]
<1>1. p \in PmtudState
    BY DEF SearchOK
<1>2. q \in PmtudState /\ SafeSearch(q)
    BY <1>1 DEF SafeSearch, PmtudState
<1>3. SafeSearch(AdvanceSearch(ClearCounts(q)))
    <2> HIDE DEF q
    <2> QED  BY <1>2, ClearedSafe
<1> QED  BY <1>1, <1>3 DEF RecordSuccess, SafeSearch, PmtudState

\* A failure moves the upper bound only.
LEMMA FailureSafe ==
    ASSUME NEW p, SearchOK(p), SafeSearch(p), p.phase = "searching"
    PROVE  SafeSearch(RecordFailure(p))
<1> DEFINE q == [p EXCEPT !.max = p.current - 1]
<1>1. p \in PmtudState
    BY DEF SearchOK
<1>2. p.current - 1 \in Sizes
    BY <1>1, FieldTypes, SizesFacts DEF SearchOK
<1>3. q \in PmtudState /\ SafeSearch(q)
    BY <1>1, <1>2 DEF SafeSearch, PmtudState
<1>4. SafeSearch(AdvanceSearch(ClearCounts(q)))
    <2> HIDE DEF q
    <2> QED  BY <1>3, ClearedSafe
<1> QED  BY <1>1, <1>4 DEF RecordFailure, SafeSearch, PmtudState

\* A reported MTU below the upper bound is the result, so it had better be true.
LEMMA FragNeededSafe ==
    ASSUME NEW p, SearchOK(p), SafeSearch(p), NEW mtu \in Sizes, mtu # NoMtu, TrueMtu(mtu)
    PROVE  SafeSearch(RecordFragNeeded(p, mtu))
<1>1. p \in PmtudState /\ p.max <= Hi
    BY DEF SearchOK
<1>2. CASE mtu < p.max
    <2>1. Fits(mtu)
        BY <1>1, <1>2, FieldTypes, SizesFacts DEF TrueMtu
    <2> QED  BY <1>1, <1>2, <2>1 DEF RecordFragNeeded, SafeSearch, PmtudState
<1>3. CASE ~(mtu < p.max)
    BY <1>1, <1>3, ClearedSafe DEF RecordFragNeeded
<1> QED  BY <1>2, <1>3

LEMMA ClampSafe ==
    ASSUME NEW p, SearchOK(p), SafeSearch(p), NEW s \in Sizes, 1 <= s
    PROVE  SafeSearch(ClampMax(p, s))
<1> DEFINE q == [p EXCEPT !.max = s - 1]
<1>1. s - 1 \in Sizes
    BY SizesFacts
<1>2. q \in PmtudState /\ SafeSearch(q)
    BY <1>1 DEF SearchOK, SafeSearch, PmtudState
<1>3. ClampMax(p, s) = AdvanceSearch(ClearCounts(q))
    BY DEF ClampMax
<1> HIDE DEF q
<1> QED  BY <1>2, <1>3, ClearedSafe

\* An outcome that is true of its entry leaves the search safe.
LEMMA JudgedSafe ==
    ASSUME NEW p, SearchOK(p), SafeSearch(p), NEW o \in Outcome,
           o.kind \in Passing => Fits(o.entry.size),
           o.kind = "fragNeeded" => TrueMtu(o.mtu)
    PROVE  SafeSearch(Judged(p, o))
<1>1. o.mtu \in Sizes /\ o.kind \in {"reply", "fragNeeded", "error", "timeout"}
    BY DEF Outcome
<1> QED
    BY <1>1, SuccessSafe, FailureSafe, FragNeededSafe DEF Judged, Passing

\* The starting bounds: every link carries Lo.
LEMMA NewSafe == ASSUME links \in PathMtus PROVE SafeSearch(New)
<1>1. \A i \in DOMAIN links : links[i] \in Lo..U16Max
    BY ConstantsAssumption
<1>2. Fits(Lo)
    BY <1>1, SizesFacts DEF Fits
<1> QED  BY <1>2 DEF SafeSearch, New, NoMtu

\* What the network answers to a probe no larger than Hi is true of it.
LEMMA AnswersTrue ==
    ASSUME SingleBottleneck, ~rejects, links \in PathMtus, NEW q, NEW s \in Sizes, s <= Hi,
           NEW m \in Answers(q, s)
    PROVE  /\ m.pmtud = TRUE /\ m.seq = q
           /\ m.kind \in Passing => Fits(s)
           /\ m.kind = "fragNeeded" => TrueMtu(m.mtu)
<1>1. CASE Fits(s)
    BY <1>1 DEF Answers, Passing
<1>2. CASE ~Fits(s)
    <2>1. m.pmtud = TRUE /\ m.seq = q /\ m.kind = "fragNeeded"
        BY <1>2 DEF Answers
    <2>2. m.mtu = NoMtu \/ \E i \in StoppedAt(s) : m.mtu = links[i]
        BY <1>2 DEF Answers
    <2>3. ASSUME NEW i \in StoppedAt(s)
          PROVE  Fits(links[i])
        <3>1. i \in DOMAIN links /\ links[i] < s
            BY DEF StoppedAt
        <3>2. links[i] \in Lo..U16Max
            BY <3>1, ConstantsAssumption
        <3>3. links[i] < Hi
            BY <3>1, <3>2, SizesFacts
        <3> QED  BY <3>1, <3>3 DEF SingleBottleneck, Fits
    <2> QED  BY <2>1, <2>2, <2>3 DEF TrueMtu, Passing
<1> QED  BY <1>1, <1>2

LEMMA InitSafeInv == Init => SafeInv
<1> SUFFICES ASSUME Init PROVE SafeInv
    OBVIOUS
<1>1. SafeSearch(pmtud)
    BY NewSafe DEF Init
<1>2. OnlyPmtud /\ FreshSeq /\ Truthful
    BY DEF Init, OnlyPmtud, FreshSeq, Truthful
<1> QED  BY <1>1, <1>2, InitIInv DEF SafeInv

\* The path of a run does not change, nor what fits it.
LEMMA PathFixed ==
    ASSUME [Next]_vars
    PROVE  /\ links' = links
           /\ \A s : Fits(s)' <=> Fits(s)
           /\ \A m : TrueMtu(m)' <=> TrueMtu(m)
           /\ \A p : SafeSearch(p)' <=> SafeSearch(p)
<1>1. links' = links
    BY DEF Next, Engine, CheckReady, GetSize, InsertProbe, SendOk, SendTooBig, Clamp,
           SendFailed, Receive, PollEcho, Expire, ApplyOutcome, FindDestination, ResetStats,
           vars
<1>2. \A s : Fits(s)' <=> Fits(s)
    BY <1>1 DEF Fits
<1>3. \A m : TrueMtu(m)' <=> TrueMtu(m)
    BY <1>1 DEF TrueMtu, Fits
<1>4. \A p : SafeSearch(p)' <=> SafeSearch(p)
    BY <1>1 DEF SafeSearch, Fits
<1> QED  BY <1>1, <1>2, <1>3, <1>4

\* An answer takes entries with its own sequence number.
LEMMA TakenHasSeq ==
    ASSUME NEW k, NEW q, NEW e \in Preferred(k, q)
    PROVE  e \in pending /\ e.seq = q
    BY DEF Preferred, SameKeyEntries

\* Taking an entry for an answer moves what is true of it along.
LEMMA TakeSafe ==
    ASSUME OnlyPmtud, FreshSeq, Truthful, [Next]_vars, UNCHANGED <<pc, seq, size>>,
           NEW m \in net, NEW k, TakeFor(m, Preferred(k, m.seq))
    PROVE  (OnlyPmtud /\ FreshSeq /\ Truthful)'
<1>1. net' \subseteq net /\ pending' \subseteq pending
    BY DEF TakeFor
<1>2. OnlyPmtud' /\ FreshSeq'
    BY <1>1 DEF OnlyPmtud, FreshSeq
<1>3. ASSUME NEW o \in taken', o \notin taken
      PROVE  /\ o.kind = m.kind /\ o.mtu = m.mtu
             /\ o.entry \in pending /\ o.entry.seq = m.seq
    BY <1>3, TakenHasSeq DEF TakeFor
<1>4. \A o \in taken' : o.kind \in Passing => Fits(o.entry.size)
    BY <1>3 DEF Truthful
<1>5. \A o \in taken' : o.kind = "fragNeeded" => TrueMtu(o.mtu)
    BY <1>3 DEF Truthful
<1> QED  BY <1>1, <1>2, <1>4, <1>5, PathFixed DEF Truthful

LEMMA StepSafeInv == SingleBottleneck /\ ~rejects /\ SafeInv /\ [Next]_vars => SafeInv'
<1> SUFFICES ASSUME SingleBottleneck, ~rejects, SafeInv, [Next]_vars PROVE SafeInv'
    OBVIOUS
<1>1. IInv'
    BY StepIInv DEF SafeInv
<1> USE PathFixed DEF SafeInv
<1>2. TypeOK /\ SearchOK(pmtud) /\ SizeOK
    BY DEF IInv
<1>3. CASE CheckReady
    <2>1. SafeSearch(pmtud')
        BY <1>3, <1>2 DEF CheckReady, StartSearch, SafeSearch, SearchOK, PmtudState
    <2>2. FreshSeq'
        BY <1>3 DEF CheckReady, FreshSeq, OnlyPmtud
    <2> QED  BY <1>1, <1>3, <2>1, <2>2 DEF CheckReady, OnlyPmtud, Truthful
<1>4. CASE GetSize
    BY <1>1, <1>4 DEF GetSize, Idle, OnlyPmtud, FreshSeq, Truthful
<1>5. CASE InsertProbe
    <2>1. FreshSeq' /\ OnlyPmtud'
        BY <1>5 DEF InsertProbe, SameKeyEntries, FreshSeq, OnlyPmtud
    <2>2. ASSUME NEW m \in net, NEW e \in pending', m.kind \in Passing, m.seq = e.seq
          PROVE  Fits(e.size)
        <3>1. m.seq # seq
            BY <1>5 DEF InsertProbe, FreshSeq
        <3>2. e \in pending \/ e = [pmtud |-> TRUE, seq |-> seq, size |-> size]
            BY <1>5 DEF InsertProbe, SameKeyEntries
        <3>3. e \in pending
            BY <2>2, <3>1, <3>2
        <3> QED  BY <2>2, <3>3 DEF Truthful
    <2> QED  BY <1>1, <1>5, <2>1, <2>2 DEF InsertProbe, Truthful
<1>6. CASE SendOk
    <2>1. ASSUME NEW m \in net', m \notin net
          PROVE  /\ m.pmtud = TRUE /\ m.seq = seq
                 /\ m.kind \in Passing => Fits(size)
                 /\ m.kind = "fragNeeded" => TrueMtu(m.mtu)
        <3>1. \/ m \in Answers(seq, size)
              \/ \E b \in BogusMtus :
                    m = [pmtud |-> TRUE, seq |-> seq, kind |-> "fragNeeded", mtu |-> b]
            BY <1>6, <2>1 DEF SendOk
        <3>2. \A b \in BogusMtus : Hi <= b
            BY ConstantsAssumption, SizesFacts
        <3>3. links \in PathMtus /\ size \in Sizes /\ size <= Hi
            BY <1>2 DEF TypeOK, SizeOK
        <3>4. CASE m \in Answers(seq, size)
            BY <3>3, <3>4, AnswersTrue
        <3>5. CASE \E b \in BogusMtus :
                    m = [pmtud |-> TRUE, seq |-> seq, kind |-> "fragNeeded", mtu |-> b]
            BY <3>2, <3>5 DEF TrueMtu, Passing
        <3> QED  BY <3>1, <3>4, <3>5
    <2>2. pc = "send" /\ pc' = "idle" /\ UNCHANGED <<pmtud, pending, taken>>
        BY <1>6 DEF SendOk, Idle
    <2>3. \A m \in net', e \in pending : m.kind \in Passing /\ m.seq = e.seq => Fits(e.size)
        BY <2>1, <2>2 DEF FreshSeq, Truthful
    <2> QED
        BY <1>1, <2>1, <2>2, <2>3 DEF OnlyPmtud, FreshSeq, Truthful
<1>7. CASE SendTooBig
    BY <1>1, <1>7 DEF SendTooBig, SameKeyEntries, OnlyPmtud, FreshSeq, Truthful
<1>8. CASE Clamp
    <2>1. SafeSearch(pmtud')
        BY <1>8, <1>2, ClampSafe DEF Clamp, TypeOK, SizeOK
    <2> QED  BY <1>1, <1>8, <2>1 DEF Clamp, Idle, OnlyPmtud, FreshSeq, Truthful
<1>9. CASE SendFailed
    BY <1>1, <1>9 DEF SendFailed, Idle, SameKeyEntries, OnlyPmtud, FreshSeq, Truthful
<1>10. CASE Receive
    <2>1. UNCHANGED <<pc, size, seq, pmtud>>
        BY <1>10 DEF Receive
    <2>2. (OnlyPmtud /\ FreshSeq /\ Truthful)'
        BY <1>10, <2>1, TakeSafe DEF Receive
    <2> QED  BY <1>1, <2>1, <2>2
<1>11. CASE PollEcho
    <2>1. UNCHANGED <<pc, size, seq, pmtud>>
        BY <1>11 DEF PollEcho
    <2>2. (OnlyPmtud /\ FreshSeq /\ Truthful)'
        BY <1>11, <2>1, TakeSafe DEF PollEcho
    <2> QED  BY <1>1, <2>1, <2>2
<1>12. CASE Expire
    BY <1>1, <1>12 DEF Expire, OnlyPmtud, FreshSeq, Truthful, Passing
<1>13. CASE ApplyOutcome
    <2>1. SafeSearch(pmtud')
        BY <1>13, <1>2, JudgedSafe DEF ApplyOutcome, TypeOK, Truthful
    <2> QED  BY <1>1, <1>13, <2>1 DEF ApplyOutcome, OnlyPmtud, FreshSeq, Truthful
<1>14. CASE FindDestination
    BY <1>1, <1>14 DEF FindDestination, OnlyPmtud, FreshSeq, Truthful
<1>15. CASE ResetStats
    <2>1. SafeSearch(pmtud')
        BY <1>15, <1>2, NewSafe DEF ResetStats, TypeOK
    <2> QED  BY <1>1, <1>15, <2>1 DEF ResetStats, OnlyPmtud, FreshSeq, Truthful
<1>16. CASE UNCHANGED vars
    BY <1>1, <1>16 DEF vars, OnlyPmtud, FreshSeq, Truthful
<1> QED
    BY <1>3, <1>4, <1>5, <1>6, <1>7, <1>8, <1>9, <1>10, <1>11, <1>12, <1>13, <1>14, <1>15,
       <1>16 DEF Next, Engine

\* Where no two links narrow the path one after the other, and no router rejects
\* a probe before the link that is too narrow for it, neither the lower bound nor
\* the discovered MTU ever exceeds what the path carries, whatever is lost, late,
\* reset under way, or reported too large.  Both conditions are needed.
THEOREM NoPromiseAbovePath == SingleBottleneck => (Spec => []NeverAbovePath)
<1>1. rejects \/ SafeInv => NeverAbovePath
    BY DEF SafeInv, SafeSearch, NeverAbovePath
<1>2. CASE SingleBottleneck
    <2>1. rejects /\ [Next]_vars => rejects'
        BY DEF Next, Engine, CheckReady, GetSize, InsertProbe, SendOk, SendTooBig, Clamp,
               SendFailed, Receive, PollEcho, Expire, ApplyOutcome, FindDestination,
               ResetStats, vars
    <2>2. (rejects \/ SafeInv) /\ [Next]_vars => (rejects \/ SafeInv)'
        BY <1>2, <2>1, StepSafeInv
    <2>3. Init => rejects \/ SafeInv
        BY InitSafeInv
    <2> QED  BY <1>1, <2>2, <2>3, PTL DEF Spec
<1>3. CASE ~SingleBottleneck
    BY <1>3
<1> QED  BY <1>2, <1>3
-----------------------------------------------------------------------------
(* Nothing that fits is given up. *)

\* No packet larger than n, up to the largest that is probed, gets through.
NothingAbove(n) == \A s \in Sizes : n < s /\ s <= Hi => ~Fits(s)

\* A reported MTU is no larger than the path's.
MtuFails(m) == m # NoMtu => NothingAbove(m)

\* What is, or will be, taken for a failure is one, and a size that gets
\* through is answered as long as its entry is there.
FailuresTrue ==
    /\ NothingAbove(hostMtu)
    /\ pc = "clamp" => ~Fits(size)
    /\ \A e \in pending : Fits(e.size) =>
          (pc = "send" /\ e.seq = seq) \/ \E m \in net : m.seq = e.seq
    /\ \A m \in net, e \in pending : m.kind = "fragNeeded" /\ m.seq = e.seq => ~Fits(e.size)
    /\ \A m \in net : MtuFails(m.mtu)
    /\ \A o \in taken : o.kind \notin Passing => ~Fits(o.entry.size)
    /\ \A o \in taken : MtuFails(o.mtu)

UpperTrue(p) ==
    /\ NothingAbove(p.max)
    /\ p.phase = "complete" => NothingAbove(p.discovered + 7)

FarInv ==
    /\ IInv /\ OnlyPmtud /\ FreshSeq
    /\ lost = 0 => FailuresTrue /\ UpperTrue(pmtud)

\* A packet larger than one that does not fit does not fit either.
LEMMA FitsDown ==
    ASSUME links \in PathMtus, NEW s \in Sizes, ~Fits(s)
    PROVE  \A n \in Int : s - 1 <= n => NothingAbove(n)
<1>1. PICK i \in DOMAIN links : ~(s <= links[i])
    BY DEF Fits
<1>2. links[i] \in Lo..U16Max
    BY ConstantsAssumption
<1>3. links[i] \in Int /\ links[i] < s
    BY <1>1, <1>2, SizesFacts
<1>4. ASSUME NEW n \in Int, s - 1 <= n, NEW t \in Sizes, n < t PROVE ~Fits(t)
    <2>1. ~(t <= links[i])
        BY <1>3, <1>4, SizesFacts
    <2> QED  BY <2>1 DEF Fits
<1> QED  BY <1>4 DEF NothingAbove

\* The search's own end: converged bounds are less than 8 bytes apart.
LEMMA AdvanceUpper ==
    ASSUME NEW p \in PmtudState, UpperTrue(p)
    PROVE  UpperTrue(AdvanceSearch(p))
<1> USE FieldTypes, SizesFacts
<1>1. CASE IsConverged(p)
    <2>1. AdvanceSearch(p) = [p EXCEPT !.discovered = p.min, !.phase = "complete"]
        BY <1>1 DEF AdvanceSearch
    <2>2. NothingAbove(p.min + 7)
        BY <1>1 DEF IsConverged, UpperTrue, NothingAbove
    <2> QED  BY <2>1, <2>2 DEF UpperTrue, PmtudState
<1>2. CASE ~IsConverged(p)
    BY <1>2 DEF AdvanceSearch, UpperTrue, PmtudState
<1> QED  BY <1>1, <1>2

LEMMA ClearedUpper ==
    ASSUME NEW p \in PmtudState, UpperTrue(p)
    PROVE  UpperTrue(AdvanceSearch(ClearCounts(p)))
<1> DEFINE q == ClearCounts(p)
<1>1. 0 \in 0..2
    OBVIOUS
<1>2. q \in PmtudState /\ q.max = p.max /\ q.discovered = p.discovered /\ q.phase = p.phase
    BY <1>1 DEF ClearCounts, PmtudState
<1>3. UpperTrue(q)
    BY <1>2 DEF UpperTrue
<1> HIDE DEF q
<1>4. UpperTrue(AdvanceSearch(q))
    BY <1>2, <1>3, AdvanceUpper
<1> QED  BY <1>4 DEF q

\* Lowering the upper bound below a size that fails.
LEMMA LoweredUpper ==
    ASSUME NEW p \in PmtudState, UpperTrue(p), links \in PathMtus,
           NEW s \in Sizes, 1 <= s, ~Fits(s)
    PROVE  UpperTrue(AdvanceSearch(ClearCounts([p EXCEPT !.max = s - 1])))
<1> DEFINE q == [p EXCEPT !.max = s - 1]
<1>1. s - 1 \in Sizes
    BY SizesFacts
<1>2. q \in PmtudState /\ q.max = s - 1 /\ q.discovered = p.discovered /\ q.phase = p.phase
    BY <1>1 DEF PmtudState
<1>3. NothingAbove(s - 1)
    BY <1>1, FitsDown, SizesFacts
<1>4. UpperTrue(q)
    BY <1>2, <1>3 DEF UpperTrue
<1> HIDE DEF q
<1>5. UpperTrue(AdvanceSearch(ClearCounts(q)))
    BY <1>2, <1>4, ClearedUpper
<1> QED  BY <1>5 DEF q

\* An outcome that is true of its entry leaves the upper bound true.
LEMMA JudgedUpper ==
    ASSUME NEW p, SearchOK(p), UpperTrue(p), links \in PathMtus, NEW o \in Outcome,
           o.kind \notin Passing => ~Fits(o.entry.size),
           MtuFails(o.mtu)
    PROVE  UpperTrue(Judged(p, o))
<1> USE FieldTypes, SizesFacts
<1>1. p \in PmtudState /\ o.mtu \in Sizes /\ o.kind \in {"reply", "fragNeeded", "error", "timeout"}
    BY DEF SearchOK, Outcome
<1>2. ASSUME NEW q, q \in PmtudState, q.max = p.max, q.discovered = p.discovered,
             q.phase = p.phase
      PROVE  UpperTrue(q)
    BY <1>2 DEF UpperTrue
<1>3. CASE ~o.entry.pmtud \/ p.phase # "searching" \/ o.entry.size # p.current
    BY <1>3 DEF Judged
<1>4. CASE p.phase = "searching" /\ o.entry.pmtud /\ o.entry.size = p.current /\ o.kind \in Passing
    <2>1. Judged(p, o) = RecordSuccess(p)
        BY <1>4 DEF Judged, Passing
    <2> DEFINE q == [p EXCEPT !.min = p.current]
    <2>2. q \in PmtudState /\ UpperTrue(q)
        BY <1>1 DEF UpperTrue, PmtudState
    <2>3. UpperTrue(AdvanceSearch(ClearCounts(q)))
        <3> HIDE DEF q
        <3> QED  BY <2>2, ClearedUpper
    <2>4. 0 \in 0..2 /\ 1 \in 0..2 /\ (p.successes + 1 < 2 => p.successes + 1 \in 0..2)
        BY <1>1
    <2> QED  BY <1>1, <2>1, <2>3, <2>4 DEF RecordSuccess, UpperTrue, PmtudState
<1>5. CASE /\ p.phase = "searching" /\ o.entry.pmtud /\ o.entry.size = p.current
           /\ o.kind = "timeout" \/ (o.kind = "fragNeeded" /\ o.mtu = NoMtu)
    <2>1. Judged(p, o) = RecordFailure(p)
        BY <1>5 DEF Judged
    <2>2. ~Fits(p.current) /\ 1 <= p.current
        BY <1>1, <1>5 DEF SearchOK, Passing
    <2>3. UpperTrue(AdvanceSearch(ClearCounts([p EXCEPT !.max = p.current - 1])))
        BY <1>1, <2>2, LoweredUpper
    <2>4. p.failures + 1 < 2 => p.failures + 1 \in 0..2
        BY <1>1
    <2> QED  BY <1>1, <2>1, <2>3, <2>4 DEF RecordFailure, UpperTrue, PmtudState
<1>6. CASE /\ p.phase = "searching" /\ o.entry.pmtud /\ o.entry.size = p.current
           /\ o.kind = "fragNeeded" /\ o.mtu # NoMtu
    <2>1. Judged(p, o) = RecordFragNeeded(p, o.mtu) /\ NothingAbove(o.mtu)
        BY <1>6 DEF Judged, MtuFails
    <2>2. CASE o.mtu < p.max
        <3>1. NothingAbove(o.mtu + 7)
            BY <1>1, <2>1 DEF NothingAbove
        <3> QED  BY <1>1, <2>1, <2>2, <3>1 DEF RecordFragNeeded, UpperTrue, PmtudState
    <2>3. CASE ~(o.mtu < p.max)
        BY <1>1, <2>1, <2>3, ClearedUpper DEF RecordFragNeeded
    <2> QED  BY <2>2, <2>3
<1> QED  BY <1>1, <1>3, <1>4, <1>5, <1>6 DEF Passing

\* What the network answers tells at most the truth of the path.
LEMMA AnswersFail ==
    ASSUME links \in PathMtus, NEW q, NEW s \in Sizes, NEW m \in Answers(q, s)
    PROVE  /\ m.pmtud = TRUE /\ m.seq = q
           /\ m.kind = "fragNeeded" => ~Fits(s)
           /\ MtuFails(m.mtu)
<1>1. CASE Fits(s)
    BY <1>1 DEF Answers, MtuFails
<1>2. CASE ~Fits(s)
    <2>1. m.pmtud = TRUE /\ m.seq = q
        BY <1>2 DEF Answers
    <2>2. m.mtu = NoMtu \/ \E i \in StoppedAt(s) : m.mtu = links[i]
        BY <1>2 DEF Answers
    <2>3. ASSUME NEW i \in StoppedAt(s) PROVE NothingAbove(links[i])
        <3>1. i \in DOMAIN links /\ links[i] \in Lo..U16Max
            BY ConstantsAssumption DEF StoppedAt
        <3>2. \A t \in Sizes : links[i] < t => ~(t <= links[i])
            BY <3>1, SizesFacts
        <3> QED  BY <3>1, <3>2 DEF NothingAbove, Fits
    <2> QED  BY <1>2, <2>1, <2>2, <2>3 DEF MtuFails
<1> QED  BY <1>1, <1>2

\* Taking the entries of an answer moves what is true of them along, and
\* leaves no entry that waits for this answer.
LEMMA TakeTrue ==
    ASSUME TypeOK, OnlyPmtud, FreshSeq, FailuresTrue, [Next]_vars, NothingAbove(hostMtu)',
           UNCHANGED <<pc, seq, size>>,
           NEW m \in net, NEW k \in BOOLEAN, TakeFor(m, Preferred(k, m.seq))
    PROVE  FailuresTrue'
<1>1. net' = net \ {m} /\ pending' \subseteq pending
    BY DEF TakeFor
<1>2. \A e \in pending' : e.seq # m.seq
    BY DEF TakeFor, Preferred, SameKeyEntries, OnlyPmtud
<1>3. ASSUME NEW o \in taken', o \notin taken
      PROVE  /\ o.kind = m.kind /\ o.mtu = m.mtu
             /\ o.entry \in pending /\ o.entry.seq = m.seq
    BY <1>3, TakenHasSeq DEF TakeFor
<1>4. /\ \A n : NothingAbove(n)' <=> NothingAbove(n)
      /\ \A n : MtuFails(n)' <=> MtuFails(n)
    BY PathFixed DEF NothingAbove, MtuFails
<1>5. \A e \in pending' : Fits(e.size) =>
          (pc = "send" /\ e.seq = seq) \/ \E n \in net' : n.seq = e.seq
    BY <1>1, <1>2 DEF FailuresTrue
<1>6. \A o \in taken' : MtuFails(o.mtu)
    BY <1>3 DEF FailuresTrue
<1>7. \A o \in taken' : o.kind \notin Passing => ~Fits(o.entry.size)
    <2>1. m.kind \in Passing \/ m.kind = "fragNeeded"
        BY DEF TypeOK, Answer, Passing
    <2> QED  BY <1>3, <2>1 DEF FailuresTrue
<1> QED  BY <1>1, <1>4, <1>5, <1>6, <1>7, PathFixed DEF FailuresTrue

LEMMA InitFarInv == Init => FarInv
<1> SUFFICES ASSUME Init PROVE FarInv
    OBVIOUS
<1>1. links \in PathMtus /\ links # <<>> /\ 1 \in DOMAIN links
      /\ \A i \in DOMAIN links : links[i] \in Lo..U16Max
    BY ConstantsAssumption DEF Init
<1>2. NothingAbove(hostMtu)
    <2>1. hostMtu = links[1] /\ links[1] \in Int
        BY <1>1, SizesFacts DEF Init
    <2>2. \A s \in Sizes : links[1] < s => ~(s <= links[1])
        BY <2>1, SizesFacts
    <2> QED  BY <1>1, <2>1, <2>2 DEF NothingAbove, Fits
<1>3. FailuresTrue
    BY <1>2 DEF Init, FailuresTrue
<1>4. UpperTrue(pmtud)
    BY SizesFacts DEF Init, New, UpperTrue, NothingAbove
<1>5. OnlyPmtud /\ FreshSeq
    BY DEF Init, OnlyPmtud, FreshSeq
<1> QED  BY <1>3, <1>4, <1>5, InitIInv DEF FarInv

\* The history only grows: a run that has lost nothing never had.
LEMMA LostGrows == IInv /\ [Next]_vars /\ lost' = 0 => lost = 0
<1> SUFFICES ASSUME IInv, [Next]_vars, lost' = 0 PROVE lost = 0
    OBVIOUS
<1>1. lost \in Int /\ 0 <= lost
    BY ConstantsAssumption DEF IInv, TypeOK
<1>2. lost' \in {lost, lost + 1}
    BY DEF Next, Engine, CheckReady, GetSize, InsertProbe, SendOk, SendTooBig, Clamp,
           SendFailed, Receive, PollEcho, Expire, ApplyOutcome, FindDestination, ResetStats,
           vars
<1> QED  BY <1>1, <1>2

LEMMA StepFarInv == FarInv /\ [Next]_vars => FarInv'
<1> SUFFICES ASSUME FarInv, [Next]_vars PROVE FarInv'
    OBVIOUS
<1>1. IInv /\ IInv'
    BY StepIInv DEF FarInv
<1>2. TypeOK /\ SearchOK(pmtud) /\ SizeOK
    BY <1>1 DEF IInv
<1>3. /\ \A s : Fits(s)' <=> Fits(s)
      /\ \A n : NothingAbove(n)' <=> NothingAbove(n)
      /\ \A n : MtuFails(n)' <=> MtuFails(n)
      /\ \A p : UpperTrue(p)' <=> UpperTrue(p)
    BY PathFixed DEF NothingAbove, MtuFails, UpperTrue
<1>4. OnlyPmtud' /\ FreshSeq'
    <2> USE DEF FarInv
    <2>1. CASE SendOk
        <3>1. \A m \in net' : m \in net \/ m.pmtud
            BY <2>1 DEF SendOk, Answers
        <3> QED  BY <2>1, <3>1 DEF SendOk, Idle, OnlyPmtud, FreshSeq
    <2>2. CASE Receive \/ PollEcho
        BY <2>2 DEF Receive, PollEcho, TakeFor, OnlyPmtud, FreshSeq
    <2>3. CASE InsertProbe
        BY <2>3 DEF InsertProbe, SameKeyEntries, FreshSeq, OnlyPmtud
    <2>4. CASE CheckReady
        BY <2>4 DEF CheckReady, FreshSeq, OnlyPmtud
    <2>5. CASE GetSize
        BY <2>5 DEF GetSize, Idle, OnlyPmtud, FreshSeq
    <2>6. CASE SendTooBig \/ Clamp \/ SendFailed
        BY <2>6 DEF SendTooBig, Clamp, SendFailed, Idle, SameKeyEntries, OnlyPmtud, FreshSeq
    <2>7. CASE Expire \/ ApplyOutcome \/ FindDestination \/ ResetStats \/ UNCHANGED vars
        BY <2>7 DEF Expire, ApplyOutcome, FindDestination, ResetStats, vars, OnlyPmtud, FreshSeq
    <2> QED  BY <2>1, <2>2, <2>3, <2>4, <2>5, <2>6, <2>7 DEF Next, Engine
<1>5. SUFFICES ASSUME lost' = 0 PROVE FailuresTrue' /\ UpperTrue(pmtud)'
    BY <1>1, <1>4 DEF FarInv
<1>6. lost = 0 /\ FailuresTrue /\ UpperTrue(pmtud) /\ OnlyPmtud /\ FreshSeq
    BY <1>1, <1>5, LostGrows DEF FarInv
<1>7. links \in PathMtus
    BY <1>2 DEF TypeOK
<1> USE <1>3, <1>6
<1>8. CASE CheckReady
    <2>1. UpperTrue(pmtud')
        BY <1>2, <1>8 DEF CheckReady, StartSearch, UpperTrue, SearchOK, PmtudState
    <2>2. UNCHANGED <<hostMtu, size, seq, pending, net, taken>> /\ pc' = "ready" /\ pc = "idle"
        BY <1>8 DEF CheckReady
    <2> QED  BY <2>1, <2>2 DEF FailuresTrue
<1>9. CASE GetSize
    <2>1. /\ UNCHANGED <<pmtud, hostMtu, seq, pending, net, taken>>
          /\ pc = "ready" /\ pc' \in {"insert", "idle"}
        BY <1>9 DEF GetSize, Idle
    <2> QED  BY <2>1 DEF FailuresTrue
<1>10. CASE InsertProbe
    <2>1. /\ UNCHANGED <<pmtud, hostMtu, size, seq, net, taken>>
          /\ pc = "insert" /\ pc' = "send"
          /\ \A m \in net : m.seq # seq
          /\ \A e \in pending' : e \in pending \/ e.seq = seq
        BY <1>10 DEF InsertProbe, SameKeyEntries, FreshSeq
    <2> QED  BY <2>1 DEF FailuresTrue
<1>11. CASE SendOk
    <2>1. /\ UNCHANGED <<pmtud, hostMtu, pending, taken>>
          /\ pc = "send" /\ pc' = "idle"
        BY <1>11 DEF SendOk, Idle
    <2>2. \/ \E m \in Answers(seq, size) : net' = net \cup {m}
          \/ ~Fits(size) /\ net' = net
        BY <1>2, <1>5, <1>11 DEF SendOk, TypeOK
    <2>3. \A e \in pending : e.seq = seq => e.size = size
        BY <2>1 DEF FreshSeq
    <2>4. ASSUME NEW m \in Answers(seq, size), net' = net \cup {m}
          PROVE  FailuresTrue'
        <3>1. m.seq = seq /\ MtuFails(m.mtu) /\ (m.kind = "fragNeeded" => ~Fits(size))
            BY <1>2, <1>7, AnswersFail DEF TypeOK
        <3> QED  BY <2>1, <2>3, <2>4, <3>1 DEF FailuresTrue
    <2>5. ASSUME ~Fits(size), net' = net PROVE FailuresTrue'
        BY <2>1, <2>3, <2>5 DEF FailuresTrue
    <2> QED  BY <2>1, <2>2, <2>4, <2>5
<1>12. CASE SendTooBig
    <2>1. /\ UNCHANGED <<pmtud, hostMtu, size, seq, net, taken>>
          /\ pc = "send" /\ pc' = "clamp" /\ hostMtu < size
          /\ pending' \subseteq pending /\ \A e \in pending' : e.seq # seq
        BY <1>2, <1>12, SizesFacts DEF SendTooBig, SameKeyEntries, OnlyPmtud, TypeOK
    <2>2. ~Fits(size)
        BY <1>2, <2>1 DEF FailuresTrue, NothingAbove, TypeOK, SizeOK
    <2> QED  BY <2>1, <2>2 DEF FailuresTrue
<1>13. CASE Clamp
    <2>1. /\ UNCHANGED <<hostMtu, seq, pending, net, taken>>
          /\ pmtud' = ClampMax(pmtud, size)
          /\ pc = "clamp" /\ pc' = "idle"
        BY <1>13 DEF Clamp, Idle
    <2>2. /\ ~Fits(size) /\ size \in Sizes /\ 1 <= size /\ pmtud \in PmtudState
        BY <1>2, <2>1 DEF FailuresTrue, TypeOK, SizeOK
    <2>3. UpperTrue(ClampMax(pmtud, size))
        BY <1>7, <2>2, LoweredUpper DEF ClampMax
    <2> QED  BY <2>1, <2>3 DEF FailuresTrue
<1>14. CASE SendFailed
    <2>1. lost' = lost + 1
        BY <1>14 DEF SendFailed
    <2> QED  BY <1>5, <2>1
<1>15. CASE Receive
    <2>1. PICK m \in net :
            /\ TakeFor(m, Preferred(ToldPmtud(m), m.seq))
            /\ hostMtu' \in {hostMtu} \cup
                 (IF HostLearns /\ m.mtu # NoMtu /\ m.mtu < hostMtu THEN {m.mtu} ELSE {})
        BY <1>15 DEF Receive
    <2>2. UNCHANGED <<pc, seq, size, pmtud>>
        BY <1>15 DEF Receive
    <2>3. hostMtu' # hostMtu => hostMtu' = m.mtu /\ m.mtu # NoMtu
        BY <2>1
    <2>4. NothingAbove(hostMtu')
        BY <2>3 DEF FailuresTrue, MtuFails
    <2>5. ToldPmtud(m) \in BOOLEAN
        BY <1>2 DEF TypeOK, Answer, ToldPmtud
    <2>6. FailuresTrue'
        BY <1>2, <2>1, <2>2, <2>4, <2>5, TakeTrue
    <2> QED  BY <2>2, <2>6
<1>16. CASE PollEcho
    <2>1. PICK m \in net : TakeFor(m, Preferred(FALSE, m.seq))
        BY <1>16 DEF PollEcho
    <2>2. UNCHANGED <<pc, seq, size, pmtud, hostMtu>>
        BY <1>16 DEF PollEcho
    <2>3. NothingAbove(hostMtu')
        BY <2>2 DEF FailuresTrue
    <2>4. FailuresTrue'
        BY <1>2, <2>1, <2>2, <2>3, TakeTrue
    <2> QED  BY <2>2, <2>4
<1>17. CASE Expire
    <2>1. PICK e \in pending :
            /\ lost' = IF TooEarly(e) THEN lost + 1 ELSE lost
            /\ pending' = pending \ {e}
            /\ taken' = taken \cup
                 {[entry |-> e, kind |-> "timeout", mtu |-> NoMtu, marked |-> e.pmtud]}
        BY <1>17 DEF Expire
    <2>2. UNCHANGED <<pc, seq, size, pmtud, hostMtu, net>>
        BY <1>17 DEF Expire
    <2>3. ~TooEarly(e)
        BY <1>5, <2>1
    <2>4. ~Fits(e.size)
        BY <2>3 DEF TooEarly, FailuresTrue, OnlyPmtud
    <2>5. MtuFails(NoMtu)
        BY DEF MtuFails
    <2>6. \A o \in taken' : ~(o \in taken) => o.kind = "timeout" /\ o.entry = e /\ o.mtu = NoMtu
        BY <2>1
    <2> QED  BY <2>1, <2>2, <2>4, <2>5, <2>6 DEF FailuresTrue
<1>18. CASE ApplyOutcome
    <2>1. PICK o \in taken : taken' = taken \ {o} /\ pmtud' = Judged(pmtud, o)
        BY <1>18 DEF ApplyOutcome
    <2>2. UNCHANGED <<pc, seq, size, hostMtu, net, pending>>
        BY <1>18 DEF ApplyOutcome
    <2>3. UpperTrue(Judged(pmtud, o))
        BY <1>2, <1>7, JudgedUpper DEF FailuresTrue, TypeOK
    <2> QED  BY <2>1, <2>2, <2>3 DEF FailuresTrue
<1>19. CASE FindDestination
    BY <1>19 DEF FindDestination, FailuresTrue
<1>20. CASE ResetStats
    <2>1. UpperTrue(New)
        BY SizesFacts DEF New, UpperTrue, NothingAbove
    <2> QED  BY <1>20, <2>1 DEF ResetStats, FailuresTrue
<1>21. CASE UNCHANGED vars
    BY <1>21 DEF vars, FailuresTrue
<1> QED
    BY <1>8, <1>9, <1>10, <1>11, <1>12, <1>13, <1>14, <1>15, <1>16, <1>17, <1>18, <1>19, <1>20,
       <1>21 DEF Next, Engine

\* While no probe was lost or timed out before its answer, no size above the
\* upper bound gets through, and none 8 bytes or more above the result: on any
\* path, with any number of probes undecided and across resets.
THEOREM ResultNotFarBelow == Spec => []NeverFarBelow
<1>1. FarInv => NeverFarBelow
    <2> SUFFICES ASSUME FarInv, lost = 0
                 PROVE  /\ \A s \in (pmtud.max + 1)..Hi : ~Fits(s)
                        /\ pmtud.phase = "complete" =>
                             \A s \in (pmtud.discovered + 8)..Hi : ~Fits(s)
        BY DEF NeverFarBelow
    <2>1. pmtud.max \in Sizes /\ pmtud.discovered \in Sizes
        BY FieldTypes DEF FarInv, IInv, TypeOK
    <2>2. \A n \in Sizes, s \in Int : n < s /\ s <= Hi => s \in Sizes
        BY SizesFacts
    <2>3. \A s \in (pmtud.max + 1)..Hi : s \in Sizes /\ pmtud.max < s /\ s <= Hi
        BY <2>1, <2>2, SizesFacts
    <2>4. \A s \in (pmtud.discovered + 8)..Hi :
            s \in Sizes /\ pmtud.discovered + 7 < s /\ s <= Hi
        BY <2>1, <2>2, SizesFacts
    <2> QED  BY <2>3, <2>4 DEF FarInv, UpperTrue, NothingAbove
<1> QED  BY <1>1, InitFarInv, StepFarInv, PTL DEF Spec
-----------------------------------------------------------------------------
(* The bounds close in. *)

\* A size that a search has been through: at or beyond a bound, or under test.
Settled(p, v) == v <= p.min \/ v = p.current \/ p.max <= v

\* The same for a search that has moved on.
Behind(p, v) == v <= p.min \/ p.max <= v

\* The sizes of the probes that are undecided.
InMap == {e.size : e \in pending} \cup {o.entry.size : o \in taken}

CurrentOK(p) == p.current = p.max \/ p.current = NextProbeSize(p)

\* A search no reset has come before: it began with nothing in flight, and the
\* engine holds the size under test, or one the search has moved on from while
\* no probe of the size now under test is out.
FirstSearch ==
    /\ pmtud.phase = "waiting" => pc = "idle" /\ InMap = {}
    /\ pmtud.phase = "searching" =>
        /\ \A v \in InMap : Settled(pmtud, v)
        /\ pc \in {"insert", "send", "clamp"} /\ size # pmtud.current =>
            /\ Behind(pmtud, size) /\ size <= pmtud.max + 1
            /\ pmtud.current \notin InMap

CloseInv ==
    /\ IInv
    /\ pmtud.phase = "searching" => CurrentOK(pmtud)
    /\ resets = 0 => FirstSearch

Within(p, q) == p.min <= q.min /\ q.max <= p.max

\* The search goes on with the size under test, or moves on from it to one that
\* nothing it has been through equals.
Goes(p, q) ==
    /\ q.phase = "searching" /\ Within(p, q) /\ CurrentOK(q)
    /\ \/ q.current = p.current /\ q.min = p.min /\ q.max = p.max
       \/ /\ q.min < q.current /\ q.current < q.max
          /\ p.current <= q.max + 1
          /\ \A v \in Sizes : Settled(p, v) => Behind(q, v)

\* What advance() makes of narrower bounds.
LEMMA AdvanceGoes ==
    ASSUME NEW p \in PmtudState, NEW q \in PmtudState,
           q.phase = "searching", Within(p, q), p.current <= q.max + 1,
           \A v \in Sizes : Settled(p, v) => Behind(q, v)
    PROVE  \/ AdvanceSearch(ClearCounts(q)).phase = "complete"
           \/ Goes(p, AdvanceSearch(ClearCounts(q)))
<1> USE FieldTypes, SizesFacts
<1> DEFINE c == ClearCounts(q)
<1>1. 0 \in 0..2
    OBVIOUS
<1>2. /\ c \in PmtudState /\ c.min = q.min /\ c.max = q.max /\ c.phase = q.phase
      /\ NextProbeSize(c) = NextProbeSize(q) /\ (IsConverged(c) <=> IsConverged(q))
    BY <1>1 DEF ClearCounts, PmtudState, NextProbeSize, IsConverged
<1> HIDE DEF c
<1>3. CASE IsConverged(q)
    BY <1>2, <1>3 DEF AdvanceSearch, PmtudState, c
<1>4. CASE ~IsConverged(q)
    <2>1. q.min < NextProbeSize(q) /\ NextProbeSize(q) < q.max
        BY <1>4 DEF IsConverged, NextProbeSize
    <2> DEFINE a == [c EXCEPT !.current = NextProbeSize(q)]
    <2>2. AdvanceSearch(c) = a
        BY <1>2, <1>4 DEF AdvanceSearch
    <2>3. /\ a.phase = "searching" /\ a.min = q.min /\ a.max = q.max
          /\ a.current = NextProbeSize(q) /\ NextProbeSize(a) = NextProbeSize(q)
        BY <1>2 DEF PmtudState, NextProbeSize
    <2> HIDE DEF a
    <2>4. Within(p, a) /\ CurrentOK(a)
        BY <2>3 DEF Within, CurrentOK
    <2>5. \A v \in Sizes : Settled(p, v) => Behind(a, v)
        BY <2>3 DEF Behind
    <2> QED  BY <2>1, <2>2, <2>3, <2>4, <2>5 DEF Goes, c
<1> QED  BY <1>3, <1>4

\* An outcome leaves the size under test, or moves on from it, or ends the
\* search; and only an outcome of that size does anything.
LEMMA JudgedGoes ==
    ASSUME NEW p, SearchOK(p), p.phase = "searching", CurrentOK(p), NEW o \in Outcome
    PROVE  /\ Judged(p, o).phase = "complete" \/ Goes(p, Judged(p, o))
           /\ o.entry.size # p.current => Judged(p, o) = p
<1> USE FieldTypes, SizesFacts
<1>1. p \in PmtudState /\ p.min + 8 <= p.max /\ p.min < p.current /\ p.current <= p.max
    BY DEF SearchOK
<1>2. o.mtu \in Sizes /\ o.kind \in {"reply", "fragNeeded", "error", "timeout"}
    BY DEF Outcome
<1>3. ASSUME NEW q \in PmtudState, q.phase = p.phase, q.min = p.min, q.max = p.max,
             q.current = p.current
      PROVE  Goes(p, q)
    BY <1>3 DEF Goes, Within, CurrentOK, NextProbeSize
<1>4. CASE ~o.entry.pmtud \/ o.entry.size # p.current
    BY <1>1, <1>3, <1>4 DEF Judged
<1>5. CASE o.entry.pmtud /\ o.entry.size = p.current /\ o.kind \in Passing
    <2>1. Judged(p, o) = RecordSuccess(p)
        BY <1>5 DEF Judged, Passing
    <2> DEFINE q == [p EXCEPT !.min = p.current]
    <2>2. /\ q \in PmtudState /\ q.phase = "searching" /\ q.min = p.current /\ q.max = p.max
        BY <1>1 DEF PmtudState
    <2>3. Within(p, q) /\ \A v \in Sizes : Settled(p, v) => Behind(q, v)
        BY <1>1, <2>2 DEF Within, Settled, Behind
    <2>4. LET a == AdvanceSearch(ClearCounts(q)) IN a.phase = "complete" \/ Goes(p, a)
        <3> HIDE DEF q
        <3> QED  BY <1>1, <2>2, <2>3, AdvanceGoes
    <2>5. 0 \in 0..2 /\ 1 \in 0..2 /\ (p.successes + 1 < 2 => p.successes + 1 \in 0..2)
        BY <1>1
    <2>6. CASE p.failures > 0
        <3>1. [p EXCEPT !.failures = 0, !.successes = 1] \in PmtudState
            BY <1>1, <2>5 DEF PmtudState
        <3> QED  BY <1>1, <1>3, <2>1, <2>6, <3>1, <1>5 DEF RecordSuccess, PmtudState
    <2>7. CASE ~(p.failures > 0) /\ p.successes + 1 < 2
        <3>1. [p EXCEPT !.successes = @ + 1] \in PmtudState
            BY <1>1, <2>5, <2>7 DEF PmtudState
        <3> QED  BY <1>1, <1>3, <2>1, <2>7, <3>1, <1>5 DEF RecordSuccess, PmtudState
    <2>8. CASE ~(p.failures > 0) /\ ~(p.successes + 1 < 2)
        BY <2>1, <2>4, <2>8, <1>5 DEF RecordSuccess
    <2> QED  BY <2>6, <2>7, <2>8
<1>6. CASE /\ o.entry.pmtud /\ o.entry.size = p.current
           /\ o.kind = "timeout" \/ (o.kind = "fragNeeded" /\ o.mtu = NoMtu)
    <2>1. Judged(p, o) = RecordFailure(p)
        BY <1>6 DEF Judged
    <2> DEFINE q == [p EXCEPT !.max = p.current - 1]
    <2>2. p.current - 1 \in Sizes
        BY <1>1
    <2>3. /\ q \in PmtudState /\ q.phase = "searching" /\ q.min = p.min
          /\ q.max = p.current - 1
        BY <1>1, <2>2 DEF PmtudState
    <2>4. Within(p, q) /\ \A v \in Sizes : Settled(p, v) => Behind(q, v)
        BY <1>1, <2>3 DEF Within, Settled, Behind
    <2>5. LET a == AdvanceSearch(ClearCounts(q)) IN a.phase = "complete" \/ Goes(p, a)
        <3> HIDE DEF q
        <3>1. p.current <= q.max + 1
            BY <1>1, <2>3
        <3> QED  BY <1>1, <2>3, <2>4, <3>1, AdvanceGoes
    <2>6. 0 \in 0..2 /\ 1 \in 0..2 /\ (p.failures + 1 < 2 => p.failures + 1 \in 0..2)
        BY <1>1
    <2>7. CASE p.successes > 0
        <3>1. [p EXCEPT !.successes = 0, !.failures = 1] \in PmtudState
            BY <1>1, <2>6 DEF PmtudState
        <3> QED  BY <1>1, <1>3, <2>1, <2>7, <3>1, <1>6 DEF RecordFailure, PmtudState
    <2>8. CASE ~(p.successes > 0) /\ p.failures + 1 < 2
        <3>1. [p EXCEPT !.failures = @ + 1] \in PmtudState
            BY <1>1, <2>6, <2>8 DEF PmtudState
        <3> QED  BY <1>1, <1>3, <2>1, <2>8, <3>1, <1>6 DEF RecordFailure, PmtudState
    <2>9. CASE ~(p.successes > 0) /\ ~(p.failures + 1 < 2)
        BY <2>1, <2>5, <2>9, <1>6 DEF RecordFailure
    <2> QED  BY <2>7, <2>8, <2>9
<1>7. CASE /\ o.entry.pmtud /\ o.entry.size = p.current
           /\ o.kind = "fragNeeded" /\ o.mtu # NoMtu
    <2>1. Judged(p, o) = RecordFragNeeded(p, o.mtu)
        BY <1>7 DEF Judged
    <2>2. CASE o.mtu < p.max
        BY <1>1, <1>7, <2>1, <2>2 DEF RecordFragNeeded, PmtudState
    <2>3. CASE ~(o.mtu < p.max) /\ p.current = p.max
        <3>1. Within(p, p) /\ \A v \in Sizes : Settled(p, v) => Behind(p, v)
            BY <1>1, <2>3 DEF Within, Settled, Behind
        <3>2. LET a == AdvanceSearch(ClearCounts(p)) IN a.phase = "complete" \/ Goes(p, a)
            BY <1>1, <3>1, AdvanceGoes
        <3> QED  BY <1>7, <2>1, <2>3, <3>2 DEF RecordFragNeeded
    <2>4. CASE ~(o.mtu < p.max) /\ p.current = NextProbeSize(p)
        <3> DEFINE a == AdvanceSearch(ClearCounts(p))
        <3>1. 0 \in 0..2
            OBVIOUS
        <3>2. /\ a \in PmtudState /\ a.min = p.min /\ a.max = p.max
              /\ a.current = p.current /\ a.phase = p.phase
            <4> DEFINE c == ClearCounts(p)
            <4>1. /\ c \in PmtudState /\ c.min = p.min /\ c.max = p.max
                  /\ c.current = p.current /\ c.phase = p.phase
                BY <1>1, <3>1 DEF ClearCounts, PmtudState
            <4> HIDE DEF c
            <4>2. NextProbeSize(c) = p.current /\ ~IsConverged(c)
                BY <1>1, <2>4, <4>1 DEF IsConverged, NextProbeSize
            <4>3. AdvanceSearch(c) = [c EXCEPT !.current = p.current]
                BY <4>2 DEF AdvanceSearch
            <4> QED  BY <1>1, <4>1, <4>3 DEF PmtudState, c
        <3>3. Judged(p, o) = a
            BY <2>1, <2>4 DEF RecordFragNeeded
        <3> HIDE DEF a
        <3> QED  BY <1>3, <1>7, <3>2, <3>3
    <2> QED  BY <2>2, <2>3, <2>4 DEF CurrentOK
<1> QED  BY <1>2, <1>4, <1>5, <1>6, <1>7 DEF Passing

\* EMSGSIZE never lowers the lower bound; for the size under test, or one no more
\* than a byte above the upper bound, it does not raise the upper one either.
LEMMA ClampGoes ==
    ASSUME NEW p, SearchOK(p), p.phase = "searching", NEW s \in Sizes, 1 <= s
    PROVE  LET q == ClampMax(p, s)
           IN  \/ q.phase = "complete"
               \/ /\ q.phase = "searching" /\ q.min = p.min /\ CurrentOK(q)
                  /\ s = p.current \/ s <= p.max + 1 => Within(p, q)
                  /\ s = p.current \/ s <= p.max + 1 => \A v \in Sizes :
                        Behind(p, v) \/ (s = p.current /\ v = s) => Behind(q, v)
<1> USE FieldTypes, SizesFacts
<1>1. p \in PmtudState /\ p.current <= p.max
    BY DEF SearchOK
<1>2. s - 1 \in Sizes
    BY <1>1
<1> DEFINE r == ClearCounts([p EXCEPT !.max = s - 1])
           a == [r EXCEPT !.current = NextProbeSize(r)]
<1>3. 0 \in 0..2
    OBVIOUS
<1>4. r \in PmtudState /\ r.min = p.min /\ r.max = s - 1 /\ r.phase = "searching"
    BY <1>1, <1>2, <1>3 DEF ClearCounts, PmtudState
<1> HIDE DEF r
<1>5. ClampMax(p, s) = AdvanceSearch(r)
    BY DEF ClampMax, r
<1>6. CASE IsConverged(r)
    BY <1>4, <1>5, <1>6 DEF AdvanceSearch, PmtudState
<1>7. CASE ~IsConverged(r)
    <2>1. ClampMax(p, s) = a
        BY <1>5, <1>7 DEF AdvanceSearch
    <2>2. /\ a.phase = "searching" /\ a.min = p.min /\ a.max = s - 1
          /\ a.current = NextProbeSize(a)
        BY <1>4 DEF PmtudState, NextProbeSize
    <2> HIDE DEF a
    <2>3. CurrentOK(a)
        BY <2>2 DEF CurrentOK
    <2>4. ASSUME s = p.current \/ s <= p.max + 1
          PROVE  /\ Within(p, a)
                 /\ \A v \in Sizes : Behind(p, v) \/ (s = p.current /\ v = s) => Behind(a, v)
        <3>1. s - 1 <= p.max
            BY <1>1, <2>4
        <3> QED  BY <1>1, <1>2, <2>2, <3>1 DEF Within, Behind
    <2> QED  BY <2>1, <2>2, <2>3, <2>4
<1> QED  BY <1>6, <1>7

\* A refused size never starts a search or ends a completed one.
LEMMA ClampPhase ==
    ASSUME NEW p \in PmtudState, NEW s \in Sizes, 1 <= s
    PROVE  ClampMax(p, s).phase \in {p.phase, "complete"}
<1>1. s - 1 \in Sizes /\ 0 \in 0..2
    BY SizesFacts
<1> DEFINE r == ClearCounts([p EXCEPT !.max = s - 1])
<1>2. r \in PmtudState /\ r.phase = p.phase
    BY <1>1 DEF ClearCounts, PmtudState
<1> HIDE DEF r
<1>3. AdvanceSearch(r).phase \in {p.phase, "complete"}
    BY <1>2 DEF AdvanceSearch, PmtudState
<1> QED  BY <1>3 DEF ClampMax, r

\* The sizes that are out, after a step: one more at an insertion only.
LEMMA InMapStep ==
    ASSUME TypeOK, [Next]_vars
    PROVE  /\ InMap \subseteq Sizes
           /\ InMap' \subseteq InMap \cup {size}
           /\ pc # "insert" \/ pc' = pc => InMap' \subseteq InMap
<1>1. InMap \subseteq Sizes
    BY DEF TypeOK, InMap, Entry, Outcome
<1>2. ASSUME \A e \in pending' : e \in pending, \A o \in taken' : o \in taken \/ o.entry \in pending
      PROVE  InMap' \subseteq InMap
    BY <1>2 DEF InMap
<1>3. ASSUME NEW m \in net, NEW k, TakeFor(m, Preferred(k, m.seq)) PROVE InMap' \subseteq InMap
    <2>1. \A e \in pending' : e \in pending
        BY <1>3 DEF TakeFor
    <2>2. \A o \in taken' : o \in taken \/ o.entry \in pending
        BY <1>3, TakenHasSeq DEF TakeFor
    <2> QED  BY <1>2, <2>1, <2>2
<1>4. Receive \/ PollEcho => InMap' \subseteq InMap
    BY <1>3 DEF Receive, PollEcho
<1>5. Expire => InMap' \subseteq InMap
    <2> SUFFICES ASSUME Expire PROVE InMap' \subseteq InMap
        OBVIOUS
    <2>1. (\A e \in pending' : e \in pending) /\ \A o \in taken' : o \in taken \/ o.entry \in pending
        BY DEF Expire
    <2> QED  BY <1>2, <2>1
<1>6. InsertProbe => pc = "insert" /\ pc' = "send" /\ InMap' \subseteq InMap \cup {size}
    <2> SUFFICES ASSUME InsertProbe
                 PROVE  pc = "insert" /\ pc' = "send" /\ InMap' \subseteq InMap \cup {size}
        OBVIOUS
    <2>1. pc = "insert" /\ pc' = "send" /\ taken' = taken
        BY DEF InsertProbe
    <2>2. \A e \in pending' : e \in pending \/ e.size = size
        <3>1. \A e \in pending' :
                e \in pending \/ e = [pmtud |-> TRUE, seq |-> seq, size |-> size]
            BY DEF InsertProbe
        <3> QED  BY <3>1
    <2> QED  BY <2>1, <2>2 DEF InMap
<1>7. \/ CheckReady \/ GetSize \/ SendOk \/ SendTooBig \/ Clamp \/ SendFailed
      \/ ApplyOutcome \/ FindDestination \/ ResetStats \/ UNCHANGED vars
      => InMap' \subseteq InMap
    <2>1. \/ CheckReady \/ GetSize \/ SendOk \/ SendTooBig \/ Clamp \/ SendFailed
          \/ ApplyOutcome \/ FindDestination \/ ResetStats \/ UNCHANGED vars
          => pending' \subseteq pending /\ taken' \subseteq taken
        BY DEF CheckReady, GetSize, SendOk, SendTooBig, Clamp, SendFailed, ApplyOutcome,
               FindDestination, ResetStats, vars
    <2> QED  BY <1>2, <2>1
<1> QED  BY <1>1, <1>4, <1>5, <1>6, <1>7 DEF Next, Engine

LEMMA InitCloseInv == Init => CloseInv
<1> SUFFICES ASSUME Init PROVE CloseInv
    OBVIOUS
<1>1. FirstSearch
    BY DEF Init, New, FirstSearch, InMap
<1>2. pmtud.phase # "searching"
    BY DEF Init, New
<1> QED  BY <1>1, <1>2, InitIInv DEF CloseInv

\* Where the engine is, when it holds a size.
Holding == {"insert", "send", "clamp"}

\* The steps that touch neither the search nor what the engine holds.
LEMMA QuietClose ==
    ASSUME CloseInv, UNCHANGED <<pmtud, resets>>,
           pc' \in Holding => pc \in Holding /\ size' = size,
           pc = "idle" => pc' = "idle",
           InMap' \subseteq InMap
    PROVE  /\ pmtud'.phase = "searching" => CurrentOK(pmtud')
           /\ resets' = 0 => FirstSearch'
    BY DEF CloseInv, FirstSearch, Holding

LEMMA StepCloseInv == CloseInv /\ [Next]_vars => CloseInv'
<1> SUFFICES ASSUME CloseInv, [Next]_vars
             PROVE  /\ pmtud'.phase = "searching" => CurrentOK(pmtud')
                    /\ resets' = 0 => FirstSearch'
    BY StepIInv DEF CloseInv
<1>1. TypeOK /\ SearchOK(pmtud) /\ SizeOK /\ pmtud \in PmtudState
    BY DEF CloseInv, IInv, SearchOK
<1>2. /\ InMap \subseteq Sizes /\ InMap' \subseteq InMap \cup {size}
      /\ pc # "insert" \/ pc' = pc => InMap' \subseteq InMap
    BY <1>1, InMapStep
<1>3. CASE CheckReady
    <2>1. /\ pc = "idle" /\ pc' = "ready" /\ resets' = resets
          /\ pmtud.phase # "complete"
          /\ pmtud' = IF pmtud.phase = "waiting" THEN StartSearch(pmtud) ELSE pmtud
        BY <1>3 DEF CheckReady
    <2>2. CASE pmtud.phase = "waiting"
        <3>1. pmtud'.phase = "searching" /\ pmtud'.current = pmtud'.max
            BY <1>1, <2>1, <2>2 DEF StartSearch, PmtudState
        <3> QED  BY <1>2, <2>1, <2>2, <3>1 DEF CloseInv, FirstSearch, CurrentOK
    <2>3. CASE pmtud.phase # "waiting"
        BY <1>1, <1>2, <2>1, <2>3 DEF CloseInv, FirstSearch, PmtudState, Phase
    <2> QED  BY <2>2, <2>3
<1>4. CASE GetSize
    <2>1. /\ pc = "ready" /\ UNCHANGED <<pmtud, resets>>
          /\ IF pmtud.phase = "searching" THEN pc' = "insert" /\ size' = pmtud.current
             ELSE pc' = "idle"
        BY <1>4 DEF GetSize, Idle
    <2> QED  BY <1>2, <2>1 DEF CloseInv, FirstSearch
<1>5. CASE InsertProbe
    <2>1. pc = "insert" /\ pc' = "send" /\ UNCHANGED <<pmtud, resets, size>>
        BY <1>5 DEF InsertProbe
    <2>2. \A p, v : Behind(p, v) => Settled(p, v)
        BY DEF Behind, Settled
    <2>3. \A p : Settled(p, p.current)
        BY DEF Settled
    <2> QED  BY <1>2, <2>1, <2>2, <2>3 DEF CloseInv, FirstSearch
<1>6. CASE SendOk \/ SendTooBig \/ SendFailed
    <2>1. /\ pc = "send" /\ UNCHANGED <<pmtud, resets>>
          /\ pc' = "idle" \/ (pc' = "clamp" /\ size' = size)
        BY <1>6 DEF SendOk, SendTooBig, SendFailed, Idle
    <2> QED  BY <1>2, <2>1, QuietClose DEF Holding
<1>7. CASE Clamp
    <2>1. /\ pc = "clamp" /\ pc' = "idle" /\ resets' = resets /\ pmtud' = ClampMax(pmtud, size)
        BY <1>7 DEF Clamp, Idle
    <2>2. size \in Sizes /\ 1 <= size
        BY <1>1, <2>1 DEF TypeOK, SizeOK
    <2>3. pmtud'.phase \in {pmtud.phase, "complete"}
        BY <1>1, <2>1, <2>2, ClampPhase
    <2>4. CASE pmtud.phase = "searching"
        <3>1. \/ pmtud'.phase = "complete"
              \/ /\ CurrentOK(pmtud')
                 /\ size = pmtud.current \/ size <= pmtud.max + 1 => \A v \in Sizes :
                       Behind(pmtud, v) \/ (size = pmtud.current /\ v = size) => Behind(pmtud', v)
            BY <1>1, <2>1, <2>2, <2>4, ClampGoes
        <3>2. \A v \in Sizes : Behind(pmtud', v) => Settled(pmtud', v)
            BY DEF Behind, Settled
        <3>3. resets = 0 => /\ size = pmtud.current \/ size <= pmtud.max + 1
                            /\ \A v \in InMap : Behind(pmtud, v) \/ (size = pmtud.current /\ v = size)
            BY <2>1, <2>4 DEF CloseInv, FirstSearch, Settled, Behind
        <3> QED  BY <1>2, <2>1, <2>3, <2>4, <3>1, <3>2, <3>3 DEF FirstSearch
    <2>5. CASE pmtud.phase = "complete"
        BY <2>1, <2>3, <2>5 DEF FirstSearch
    <2>6. CASE pmtud.phase = "waiting"
        BY <1>2, <2>1, <2>3, <2>6 DEF CloseInv, FirstSearch
    <2> QED  BY <1>1, <2>4, <2>5, <2>6 DEF PmtudState, Phase
<1>8. CASE Receive \/ PollEcho \/ Expire \/ FindDestination \/ UNCHANGED vars
    <2>1. UNCHANGED <<pmtud, resets, pc, size>>
        BY <1>8 DEF Receive, PollEcho, Expire, FindDestination, vars
    <2> QED  BY <1>2, <2>1, QuietClose
<1>9. CASE ApplyOutcome
    <2> DEFINE q == pmtud'
    <2>1. PICK o \in taken : q = Judged(pmtud, o)
        BY <1>9 DEF ApplyOutcome
    <2>2. UNCHANGED <<resets, pc, size>>
        BY <1>9 DEF ApplyOutcome
    <2>3. o.entry.size \in InMap
        BY DEF InMap
    <2>4. o \in Outcome
        BY <1>1 DEF TypeOK
    <2>5. CASE pmtud.phase # "searching"
        <3>1. pmtud' = pmtud
            BY <2>1, <2>5 DEF Judged
        <3> QED  BY <1>2, <2>2, <3>1, QuietClose
    <2>6. CASE pmtud.phase = "searching"
        <3>1. CurrentOK(pmtud)
            BY <2>6 DEF CloseInv
        <3>2. /\ q.phase = "complete" \/ Goes(pmtud, q)
              /\ o.entry.size # pmtud.current => q = pmtud
            BY <1>1, <2>1, <2>4, <2>6, <3>1, JudgedGoes
        <3>3. CASE q.phase = "complete"
            BY <3>3 DEF FirstSearch
        <3>4. CASE q = pmtud
            BY <1>2, <2>2, <3>4, QuietClose
        <3>5. CASE Goes(pmtud, q) /\ o.entry.size = pmtud.current
            <4>1. q.phase = "searching" /\ CurrentOK(q)
                BY <3>5 DEF Goes
            <4>2. SUFFICES ASSUME resets = 0
                           PROVE  /\ \A v \in InMap' : Settled(q, v)
                                  /\ pc' \in Holding /\ size' # q.current =>
                                       /\ Behind(q, size') /\ size' <= q.max + 1
                                       /\ q.current \notin InMap'
                BY <2>2, <4>1 DEF FirstSearch, Holding
            <4>3. /\ InMap' \subseteq InMap /\ InMap \subseteq Sizes
                  /\ \A v \in InMap : Settled(pmtud, v)
                  /\ pc \in Holding => size = pmtud.current
                BY <1>2, <2>2, <2>3, <2>6, <3>5, <4>2 DEF CloseInv, FirstSearch, Holding
            <4>4. CASE q.current = pmtud.current /\ q.min = pmtud.min /\ q.max = pmtud.max
                BY <2>2, <4>3, <4>4 DEF Settled
            <4>5. CASE /\ q.min < q.current /\ q.current < q.max
                       /\ pmtud.current <= q.max + 1
                       /\ \A v \in Sizes : Settled(pmtud, v) => Behind(q, v)
                <5>1. q \in PmtudState
                    BY StepIInv DEF CloseInv, IInv, SearchOK
                <5>2. q.min \in Int /\ q.max \in Int /\ q.current \in Int
                    BY <5>1, FieldTypes, SizesFacts
                <5>3. ~Behind(q, q.current)
                    BY <4>5, <5>2 DEF Behind
                <5>4. \A v \in InMap' : Behind(q, v)
                    BY <4>3, <4>5
                <5>5. \A v \in InMap' : Settled(q, v)
                    BY <5>4 DEF Behind, Settled
                <5>6. pc \in Holding => Behind(q, size)
                    BY <1>1, <4>3, <4>5 DEF TypeOK, Settled
                <5> QED  BY <2>2, <4>3, <4>5, <5>3, <5>4, <5>5, <5>6
            <4> QED  BY <3>5, <4>4, <4>5 DEF Goes
        <3> QED  BY <3>2, <3>3, <3>4, <3>5
    <2> QED  BY <2>5, <2>6
<1>10. CASE ResetStats
    <2>1. resets' = resets + 1 /\ pmtud' = New
        BY <1>10 DEF ResetStats
    <2>2. resets' # 0
        BY <1>1, <2>1, ConstantsAssumption DEF TypeOK
    <2> QED  BY <2>1, <2>2 DEF New
<1> QED  BY <1>3, <1>4, <1>5, <1>6, <1>7, <1>8, <1>9, <1>10 DEF Next, Engine

\* The bounds of one search close in with every step. Only where a reset left
\* the probes of an earlier search undecided may the upper one open again, when
\* the host refuses a size the engine has held on to.
THEOREM SearchClosesIn == Spec => BoundsCloseIn
<1> DEFINE Closes ==
        pmtud.phase = "searching" /\ pmtud'.phase = "searching" =>
            /\ pmtud.min <= pmtud'.min
            /\ pmtud'.max <= pmtud.max \/ (resets > 0 /\ pc = "clamp")
<1>1. CloseInv /\ [Next]_vars => Closes
    <2> SUFFICES ASSUME CloseInv, [Next]_vars,
                        pmtud.phase = "searching", pmtud'.phase = "searching"
                 PROVE  /\ pmtud.min <= pmtud'.min
                        /\ pmtud'.max <= pmtud.max \/ (resets > 0 /\ pc = "clamp")
        OBVIOUS
    <2>1. TypeOK /\ SearchOK(pmtud) /\ SizeOK /\ pmtud \in PmtudState
        BY DEF CloseInv, IInv, SearchOK
    <2>2. pmtud.min \in Int /\ pmtud.max \in Int
        BY <2>1, FieldTypes, SizesFacts
    <2>3. CASE pmtud' = pmtud
        BY <2>2, <2>3
    <2>4. CASE Clamp
        <3>1. pc = "clamp" /\ pmtud' = ClampMax(pmtud, size)
            BY <2>4 DEF Clamp
        <3>2. size \in Sizes /\ 1 <= size
            BY <2>1, <3>1 DEF TypeOK, SizeOK
        <3>3. /\ pmtud'.min = pmtud.min
              /\ size = pmtud.current \/ size <= pmtud.max + 1 => Within(pmtud, pmtud')
            BY <2>1, <3>1, <3>2, ClampGoes
        <3>4. resets = 0 => size = pmtud.current \/ size <= pmtud.max + 1
            BY <3>1 DEF CloseInv, FirstSearch
        <3>5. resets = 0 \/ resets > 0
            BY <2>1, ConstantsAssumption DEF TypeOK
        <3> QED  BY <2>2, <3>1, <3>3, <3>4, <3>5 DEF Within
    <2>5. CASE ApplyOutcome
        <3>1. PICK o \in taken : pmtud' = Judged(pmtud, o)
            BY <2>5 DEF ApplyOutcome
        <3>2. CurrentOK(pmtud) /\ o \in Outcome
            BY <2>1 DEF CloseInv, TypeOK
        <3>3. Goes(pmtud, pmtud')
            BY <2>1, <3>1, <3>2, JudgedGoes
        <3> QED  BY <3>3 DEF Goes, Within
    <2>6. CASE ResetStats
        BY <2>6 DEF ResetStats, New
    <2>7. CASE CheckReady
        BY <2>3, <2>7 DEF CheckReady
    <2> QED
        BY <2>3, <2>4, <2>5, <2>6, <2>7
        DEF Next, Engine, GetSize, InsertProbe, SendOk, SendTooBig, SendFailed, Receive, PollEcho,
            Expire, FindDestination, vars
<1>2. Spec => []CloseInv
    BY InitCloseInv, StepCloseInv, PTL DEF Spec
<1>3. Spec => [][Closes]_vars
    BY <1>1, <1>2, PTL DEF Spec
<1> QED  BY <1>3 DEF BoundsCloseIn
=============================================================================
