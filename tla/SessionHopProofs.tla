-------------------------- MODULE SessionHopProofs --------------------------
(***************************************************************************)
(* Lemmas about the hops of SessionStats, for every set of addresses,      *)
(* flows and TTLs: what each operator of HopStats changes, and that a      *)
(* response and a timeout keep a hop's counters adding up, its primary     *)
(* tracked, its route changes chained and its evidence of TTL manipulation *)
(* standing; and that flows with one responder each are never classified   *)
(* as balanced per packet.  SessionStatsProofs carries them over to every  *)
(* reachable session.                                                      *)
(***************************************************************************)
EXTENDS SessionStats, FiniteSetTheorems, TLAPS

-----------------------------------------------------------------------------
(* Sums over finite sets.                                                   *)

\* One more at one place.
Bump(counts, a) == [counts EXCEPT ![a] = @ + 1]

Added(c, x, rest) == x + rest
AnyOf(s) == CHOOSE x \in s : TRUE

SF == INSTANCE FoldTheory WITH Op <- Added, Choice <- AnyOf

\* SumFunction is a fold whose recursive function may be unfolded.
LEMMA SumUnfolds ==
    ASSUME NEW fun, IsFiniteSet(DOMAIN fun)
    PROVE  /\ SumFunction(fun) = SF!Iter(0, fun, 0, DOMAIN fun)[DOMAIN fun]
           /\ SF!Iter(0, fun, 0, DOMAIN fun)[{}] = 0
           /\ \A s \in SUBSET DOMAIN fun : s # {} =>
                /\ AnyOf(s) \in s
                /\ SF!Iter(0, fun, 0, DOMAIN fun)[s]
                        = fun[AnyOf(s)] + SF!Iter(0, fun, 0, DOMAIN fun)[s \ {AnyOf(s)}]
<1>1. SumFunction(fun) = SF!Iter(0, fun, 0, DOMAIN fun)[DOMAIN fun]
    BY Zenon DEF SumFunction, SumFunctionOnSet, FoldFunctionOnSet, MapThenFoldSet,
                 SF!Iter, SF!Recursion, SF!Step, Added, AnyOf
<1>2. SF!Chooses(DOMAIN fun)  BY DEF SF!Chooses, AnyOf
<1>3. SF!IsFiniteSet(DOMAIN fun)  BY DEF SF!IsFiniteSet, IsFiniteSet
<1>4. /\ SF!Iter(0, fun, 0, DOMAIN fun)[{}] = 0
      /\ \A s \in SUBSET DOMAIN fun : s # {} =>
            SF!Iter(0, fun, 0, DOMAIN fun)[s]
                = SF!Step(0, fun, AnyOf(s), SF!Iter(0, fun, 0, DOMAIN fun)[s \ {AnyOf(s)}])
    <2> DEFINE D == DOMAIN fun
    <2>1. SF!IsFiniteSet(D) /\ SF!Chooses(D)  BY <1>2, <1>3
    <2> HIDE DEF D
    <2>2. /\ SF!Iter(0, fun, 0, D)[{}] = 0
          /\ \A s \in SUBSET D : s # {} =>
                SF!Iter(0, fun, 0, D)[s] = SF!Step(0, fun, AnyOf(s), SF!Iter(0, fun, 0, D)[s \ {AnyOf(s)}])
        BY <2>1, SF!Unfolds
    <2> QED  BY <2>2 DEF D
<1>5. \A s \in SUBSET DOMAIN fun : s # {} => AnyOf(s) \in s  BY DEF AnyOf
<1> QED  BY <1>1, <1>4, <1>5 DEF SF!Step, Added

\* A property of every set of a family follows from smaller to larger sets.
LEMMA SmallestCounterexample ==
    ASSUME NEW D, IsFiniteSet(D), NEW Bad \in SUBSET (SUBSET D), Bad # {}
    PROVE  \E s \in Bad : \A x \in s : s \ {x} \notin Bad
<1> DEFINE Sizes == {Cardinality(s) : s \in Bad}
<1>1. Sizes \in SUBSET Nat /\ Sizes # {}
    BY FS_CardinalityType, FS_Subset
<1>2. PICK k \in Sizes : \A n \in Sizes : k <= n
    <2> HIDE DEF Sizes
    <2> QED  BY <1>1, SF!LeastNat
<1>3. PICK s \in Bad : k = Cardinality(s)
    OBVIOUS
<1>4. ASSUME NEW x \in s, s \ {x} \in Bad PROVE FALSE
    <2>1. IsFiniteSet(s)  BY FS_Subset
    <2>2. Cardinality(s) \in Nat /\ Cardinality(s \ {x}) = Cardinality(s) - 1
        BY <2>1, FS_CardinalityType, FS_RemoveElement
    <2>3. k <= Cardinality(s \ {x})  BY <1>2, <1>4
    <2> QED  BY <1>3, <2>2, <2>3
<1> QED  BY <1>4

\* A sum of zeros is zero.
LEMMA SumZero ==
    ASSUME NEW fun, IsFiniteSet(DOMAIN fun), \A x \in DOMAIN fun : fun[x] = 0
    PROVE  SumFunction(fun) = 0
<1> DEFINE D == DOMAIN fun
           iter == SF!Iter(0, fun, 0, D)
           Bad == {s \in SUBSET D : iter[s] # 0}
<1>1. /\ SumFunction(fun) = iter[D] /\ iter[{}] = 0
      /\ \A s \in SUBSET D : s # {} => /\ AnyOf(s) \in s
                                       /\ iter[s] = fun[AnyOf(s)] + iter[s \ {AnyOf(s)}]
    BY SumUnfolds
<1> HIDE DEF iter
<1> SUFFICES ASSUME Bad # {} PROVE FALSE
    BY <1>1
<1>2. PICK s \in Bad : \A x \in s : s \ {x} \notin Bad
    <2> HIDE DEF D
    <2>1. Bad \in SUBSET (SUBSET D)  OBVIOUS
    <2> HIDE DEF Bad
    <2> QED  BY <2>1, SmallestCounterexample DEF D
<1>3. s # {} /\ AnyOf(s) \in s  BY <1>1, <1>2
<1>4. iter[s \ {AnyOf(s)}] = 0  BY <1>2, <1>3
<1> QED  BY <1>1, <1>2, <1>3, <1>4

\* A sum of natural numbers is one, and no smaller than any of them.
LEMMA SumNat ==
    ASSUME NEW D, IsFiniteSet(D), NEW fun \in [D -> Nat]
    PROVE  SumFunction(fun) \in Nat /\ \A x \in D : fun[x] <= SumFunction(fun)
<1> DEFINE iter == SF!Iter(0, fun, 0, D)
           Bad == {s \in SUBSET D : ~(iter[s] \in Nat /\ \A x \in s : fun[x] <= iter[s])}
<1>1. /\ SumFunction(fun) = iter[D] /\ iter[{}] = 0
      /\ \A s \in SUBSET D : s # {} => /\ AnyOf(s) \in s
                                       /\ iter[s] = fun[AnyOf(s)] + iter[s \ {AnyOf(s)}]
    BY SumUnfolds
<1> HIDE DEF iter
<1> SUFFICES ASSUME Bad # {} PROVE FALSE
    BY <1>1
<1>2. PICK s \in Bad : \A x \in s : s \ {x} \notin Bad
    <2>1. Bad \in SUBSET (SUBSET D)  OBVIOUS
    <2> HIDE DEF Bad
    <2> QED  BY <2>1, SmallestCounterexample
<1>3. s \in SUBSET D /\ s # {} /\ AnyOf(s) \in s
    <2>1. s \in SUBSET D /\ ~(iter[s] \in Nat /\ \A x \in s : fun[x] <= iter[s])  BY <1>2
    <2>2. ASSUME s = {} PROVE FALSE
        <3>1. iter[s] = 0 /\ \A x \in s : fun[x] <= iter[s]  BY <1>1, <2>2
        <3> HIDE DEF Bad
        <3> QED  BY <2>1, <3>1
    <2> QED  BY <1>1, <2>1, <2>2
<1>4. iter[s \ {AnyOf(s)}] \in Nat /\ \A x \in s \ {AnyOf(s)} : fun[x] <= iter[s \ {AnyOf(s)}]
    BY <1>2, <1>3
<1>5. iter[s] = fun[AnyOf(s)] + iter[s \ {AnyOf(s)}] /\ fun[AnyOf(s)] \in Nat  BY <1>1, <1>3
<1>6. iter[s] \in Nat /\ fun[AnyOf(s)] <= iter[s] /\ iter[s \ {AnyOf(s)}] <= iter[s]
    BY <1>4, <1>5
<1>7. ASSUME NEW x \in s PROVE fun[x] <= iter[s]
    <2>1. CASE x = AnyOf(s)  BY <1>6, <2>1
    <2>2. CASE x # AnyOf(s)
        <3>1. fun[x] \in Nat /\ fun[x] <= iter[s \ {AnyOf(s)}]  BY <1>3, <1>4, <2>2
        <3> QED  BY <1>4, <1>6, <3>1
    <2> QED  BY <2>1, <2>2
<1> QED  BY <1>2, <1>6, <1>7

\* One more at one place makes the sum one more.
LEMMA SumBump ==
    ASSUME NEW D, IsFiniteSet(D), NEW fun \in [D -> Nat], NEW more, NEW a \in D,
           more = Bump(fun, a)
    PROVE  SumFunction(more) = SumFunction(fun) + 1
<1> DEFINE f == SF!Iter(0, fun, 0, D)
           g == SF!Iter(0, more, 0, D)
           One(s) == IF a \in s THEN 1 ELSE 0
           Bad == {s \in SUBSET D : ~(f[s] \in Nat /\ g[s] = f[s] + One(s))}
<1>1. DOMAIN fun = D /\ DOMAIN more = D
    BY DEF Bump
<1>2. /\ SumFunction(fun) = f[D] /\ f[{}] = 0
      /\ \A s \in SUBSET D : s # {} => AnyOf(s) \in s /\ f[s] = fun[AnyOf(s)] + f[s \ {AnyOf(s)}]
    BY <1>1, SumUnfolds
<1>3. /\ SumFunction(more) = g[D] /\ g[{}] = 0
      /\ \A s \in SUBSET D : s # {} => g[s] = more[AnyOf(s)] + g[s \ {AnyOf(s)}]
    BY <1>1, SumUnfolds
<1> HIDE DEF f, g
<1> SUFFICES ASSUME Bad # {} PROVE FALSE
    BY <1>2, <1>3
<1>4. PICK s \in Bad : \A x \in s : s \ {x} \notin Bad
    <2>1. Bad \in SUBSET (SUBSET D)  OBVIOUS
    <2> HIDE DEF Bad
    <2> QED  BY <2>1, SmallestCounterexample
<1>5. s # {} /\ s \in SUBSET D /\ AnyOf(s) \in s
    <2>1. s \in SUBSET D /\ ~(f[s] \in Nat /\ g[s] = f[s] + One(s))  BY <1>4
    <2>2. ASSUME s = {} PROVE FALSE
        <3>1. f[s] = 0 /\ g[s] = 0 /\ One(s) = 0  BY <1>2, <1>3, <2>2
        <3> HIDE DEF Bad, One
        <3> QED  BY <2>1, <3>1
    <2> QED  BY <1>2, <2>1, <2>2
<1>6. /\ f[s \ {AnyOf(s)}] \in Nat
      /\ g[s \ {AnyOf(s)}] = f[s \ {AnyOf(s)}] + One(s \ {AnyOf(s)})
    BY <1>4, <1>5
<1>7. more[AnyOf(s)] = fun[AnyOf(s)] + (IF AnyOf(s) = a THEN 1 ELSE 0) /\ fun[AnyOf(s)] \in Nat
    BY <1>5 DEF Bump
<1>8. f[s] = fun[AnyOf(s)] + f[s \ {AnyOf(s)}] /\ g[s] = more[AnyOf(s)] + g[s \ {AnyOf(s)}]
    BY <1>2, <1>3, <1>5
<1>9. CASE AnyOf(s) = a  BY <1>4, <1>5, <1>6, <1>7, <1>8, <1>9
<1>10. CASE AnyOf(s) # a  BY <1>4, <1>5, <1>6, <1>7, <1>8, <1>10
<1> QED  BY <1>9, <1>10
-----------------------------------------------------------------------------
(* The operators on hops: what each of them changes.                        *)

FlowType == [sent : Nat, received : Nat, timeouts : Nat, responders : [Addrs -> Nat]]
ChangeType == [from : Addrs, to : Addrs, atSeq : Nat]
AsymType == [asymmetric : Int, symmetric : Int, suspected : BOOLEAN]
ManipType == [normal : Nat, anomalous : Nat, noDecrement : Nat, suspected : BOOLEAN, checks : 0..9]
VerdictType == [suspected : BOOLEAN, checks : 0..MaxChecks]

HopType ==
    [ttl : TTLs, sent : Nat, received : Nat, timeouts : Nat, responders : [Addrs -> Nat],
     recent : Seq(BOOLEAN), flows : [FlowIds -> FlowType], nat : [matched : Nat, rewritten : Nat],
     rateLimit : VerdictType, changes : Seq(ChangeType), asym : AsymType, manip : ManipType,
     flapPrimary : Addrs \cup {NoAddr}]

\* A window of a sequence is one.
LEMMA WindowType ==
    ASSUME NEW T, NEW s \in Seq(T), NEW e \in T, NEW n \in Nat \ {0}, Len(s) <= n
    PROVE  /\ KeepNewest(Append(s, e), n) \in Seq(T)
           /\ Len(KeepNewest(Append(s, e), n)) <= n
           /\ Len(KeepNewest(Append(s, e), n)) = IF Len(s) = n THEN n ELSE Len(s) + 1
<1>1. Append(s, e) \in Seq(T) /\ Len(Append(s, e)) = Len(s) + 1
    OBVIOUS
<1>2. CASE Len(s) = n
    <2>1. KeepNewest(Append(s, e), n) = Tail(Append(s, e))  BY <1>1, <1>2 DEF KeepNewest
    <2>2. Tail(Append(s, e)) \in Seq(T) /\ Len(Tail(Append(s, e))) = Len(s)  BY <1>1
    <2> QED  BY <1>2, <2>1, <2>2
<1>3. CASE Len(s) # n
    <2>1. KeepNewest(Append(s, e), n) = Append(s, e)  BY <1>1, <1>3 DEF KeepNewest
    <2> QED  BY <1>1, <1>3, <2>1
<1> QED  BY <1>2, <1>3

LEMMA NewHopFields ==
    ASSUME NEW t \in TTLs
    PROVE  NewHop(t) \in HopType
<1>1. 0 \in 0..MaxChecks  BY RateLimitAssumption
<1>2. NoRateLimit \in VerdictType  BY <1>1 DEF NoRateLimit, VerdictType
<1>3. NewFlow \in FlowType /\ NoCounts \in [Addrs -> Nat]  BY DEF NewFlow, NoCounts, FlowType
<1>4. NewNat \in [matched : Nat, rewritten : Nat] /\ NewAsymmetry \in AsymType /\ NewManip \in ManipType
    BY DEF NewNat, NewAsymmetry, AsymType, NewManip, ManipType
<1>5. [f \in FlowIds |-> NewFlow] \in [FlowIds -> FlowType]  BY <1>3
<1>6. <<>> \in Seq(BOOLEAN) /\ <<>> \in Seq(ChangeType)  OBVIOUS
<1> QED  BY <1>2, <1>3, <1>4, <1>5, <1>6 DEF NewHop, HopType

\* g is h with a response of a recorded.
IsResponse(h, g, a) ==
    /\ g \in HopType
    /\ g.received = h.received + 1
    /\ g.responders = Bump(h.responders, a)
    /\ g.recent = KeepNewest(Append(h.recent, TRUE), RecentWindow)
    /\ g.ttl = h.ttl /\ g.sent = h.sent /\ g.timeouts = h.timeouts /\ g.flows = h.flows
    /\ g.nat = h.nat /\ g.rateLimit = h.rateLimit /\ g.changes = h.changes
    /\ g.asym = h.asym /\ g.manip = h.manip /\ g.flapPrimary = h.flapPrimary

LEMMA RecordResponseFields ==
    ASSUME NEW h \in HopType, NEW a \in Addrs, Len(h.recent) <= RecentWindow
    PROVE  IsResponse(h, RecordResponse(h, a), a)
<1>1. KeepNewest(Append(h.recent, TRUE), RecentWindow) \in Seq(BOOLEAN)
    <2>1. h.recent \in Seq(BOOLEAN)  BY DEF HopType
    <2> QED  BY <2>1, WindowType, HopStatsAssumption
<1>2. Bump(h.responders, a) \in [Addrs -> Nat] /\ h.received + 1 \in Nat
    BY DEF HopType, Bump
<1> DEFINE recent == KeepNewest(Append(h.recent, TRUE), RecentWindow)
           responders == Bump(h.responders, a)
<1>3. RecordResponse(h, a) = [h EXCEPT !.received = h.received + 1, !.responders = responders, !.recent = recent]
    BY DEF RecordResponse, HopType, Bump
<1> HIDE DEF recent, responders
<1> QED  BY <1>1, <1>2, <1>3 DEF HopType, IsResponse, recent, responders

\* g is h with a timeout recorded.
IsTimeout(h, g) ==
    /\ g \in HopType
    /\ g.timeouts = h.timeouts + 1
    /\ g.recent = KeepNewest(Append(h.recent, FALSE), RecentWindow)
    /\ g.ttl = h.ttl /\ g.sent = h.sent /\ g.received = h.received
    /\ g.responders = h.responders /\ g.flows = h.flows
    /\ g.nat = h.nat /\ g.rateLimit = h.rateLimit /\ g.changes = h.changes
    /\ g.asym = h.asym /\ g.manip = h.manip /\ g.flapPrimary = h.flapPrimary

LEMMA RecordTimeoutFields ==
    ASSUME NEW h \in HopType, Len(h.recent) <= RecentWindow
    PROVE  IsTimeout(h, RecordTimeout(h))
<1>1. KeepNewest(Append(h.recent, FALSE), RecentWindow) \in Seq(BOOLEAN)
    <2>1. h.recent \in Seq(BOOLEAN)  BY DEF HopType
    <2> QED  BY <2>1, WindowType, HopStatsAssumption
<1>2. h.timeouts + 1 \in Nat
    BY DEF HopType
<1> DEFINE recent == KeepNewest(Append(h.recent, FALSE), RecentWindow)
<1>3. RecordTimeout(h) = [h EXCEPT !.timeouts = h.timeouts + 1, !.recent = recent]
    BY DEF RecordTimeout, HopType
<1> HIDE DEF recent
<1> QED  BY <1>1, <1>2, <1>3 DEF HopType, IsTimeout, recent

\* g is h with a probe recorded as sent.
IsSent(h, g) ==
    /\ g \in HopType
    /\ g.sent = h.sent + 1
    /\ g.ttl = h.ttl /\ g.received = h.received /\ g.timeouts = h.timeouts
    /\ g.responders = h.responders /\ g.recent = h.recent /\ g.flows = h.flows
    /\ g.nat = h.nat /\ g.rateLimit = h.rateLimit /\ g.changes = h.changes
    /\ g.asym = h.asym /\ g.manip = h.manip /\ g.flapPrimary = h.flapPrimary

LEMMA RecordSentFields ==
    ASSUME NEW h \in HopType
    PROVE  IsSent(h, RecordSent(h))
<1>1. RecordSent(h) = [h EXCEPT !.sent = h.sent + 1] /\ h.sent + 1 \in Nat
    BY DEF RecordSent, HopType
<1> QED  BY <1>1 DEF HopType, IsSent

\* g is h with a response of a recorded at flow f.
IsFlowResponse(h, g, f, a) ==
    /\ g \in HopType
    /\ \A k \in FlowIds \ {f} : g.flows[k] = h.flows[k]
    /\ g.flows[f].received = h.flows[f].received + 1
    /\ g.flows[f].responders = Bump(h.flows[f].responders, a)
    /\ g.flows[f].sent = h.flows[f].sent
    /\ g.flows[f].timeouts = h.flows[f].timeouts
    /\ g.ttl = h.ttl /\ g.sent = h.sent /\ g.received = h.received /\ g.timeouts = h.timeouts
    /\ g.responders = h.responders /\ g.recent = h.recent
    /\ g.nat = h.nat /\ g.rateLimit = h.rateLimit /\ g.changes = h.changes
    /\ g.asym = h.asym /\ g.manip = h.manip /\ g.flapPrimary = h.flapPrimary

LEMMA RecordFlowResponseFields ==
    ASSUME NEW h \in HopType, NEW f \in FlowIds, NEW a \in Addrs
    PROVE  IsFlowResponse(h, RecordFlowResponse(h, f, a), f, a)
<1> DEFINE counts == Bump(h.flows[f].responders, a)
           flow == [h.flows[f] EXCEPT !.received = h.flows[f].received + 1, !.responders = counts]
<1>1. h.flows \in [FlowIds -> FlowType] /\ h.flows[f] \in FlowType
    BY DEF HopType
<1>2. counts \in [Addrs -> Nat] /\ h.flows[f].received + 1 \in Nat
    BY <1>1 DEF FlowType, Bump
<1>3. RecordFlowResponse(h, f, a) = [h EXCEPT !.flows = [h.flows EXCEPT ![f] = flow]]
    BY <1>1 DEF RecordFlowResponse, HopType, FlowType, Bump
<1> HIDE DEF counts
<1>4. /\ flow \in FlowType
      /\ flow.received = h.flows[f].received + 1 /\ flow.responders = counts
      /\ flow.sent = h.flows[f].sent /\ flow.timeouts = h.flows[f].timeouts
    BY <1>1, <1>2 DEF FlowType
<1> HIDE DEF flow
<1>5. [h.flows EXCEPT ![f] = flow] \in [FlowIds -> FlowType]
    BY <1>1, <1>4
<1> QED  BY <1>1, <1>3, <1>4, <1>5 DEF HopType, IsFlowResponse, counts

\* g is h with a timeout recorded at flow f.
IsFlowTimeout(h, g, f) ==
    /\ g \in HopType
    /\ \A k \in FlowIds \ {f} : g.flows[k] = h.flows[k]
    /\ g.flows[f].timeouts = h.flows[f].timeouts + 1
    /\ g.flows[f].received = h.flows[f].received
    /\ g.flows[f].responders = h.flows[f].responders
    /\ g.flows[f].sent = h.flows[f].sent
    /\ g.ttl = h.ttl /\ g.sent = h.sent /\ g.received = h.received /\ g.timeouts = h.timeouts
    /\ g.responders = h.responders /\ g.recent = h.recent
    /\ g.nat = h.nat /\ g.rateLimit = h.rateLimit /\ g.changes = h.changes
    /\ g.asym = h.asym /\ g.manip = h.manip /\ g.flapPrimary = h.flapPrimary

LEMMA RecordFlowTimeoutFields ==
    ASSUME NEW h \in HopType, NEW f \in FlowIds
    PROVE  IsFlowTimeout(h, RecordFlowTimeout(h, f), f)
<1> DEFINE flow == [h.flows[f] EXCEPT !.timeouts = @ + 1]
<1>1. h.flows \in [FlowIds -> FlowType] /\ h.flows[f] \in FlowType
    BY DEF HopType
<1>2. /\ flow \in FlowType
      /\ flow.timeouts = h.flows[f].timeouts + 1 /\ flow.received = h.flows[f].received /\ flow.responders = h.flows[f].responders
      /\ flow.sent = h.flows[f].sent
    BY <1>1 DEF FlowType
<1>3. RecordFlowTimeout(h, f) = [h EXCEPT !.flows = [h.flows EXCEPT ![f] = flow]]
    BY <1>1 DEF RecordFlowTimeout, HopType, FlowType
<1> HIDE DEF flow
<1>4. [h.flows EXCEPT ![f] = flow] \in [FlowIds -> FlowType]
    BY <1>1, <1>2
<1> QED  BY <1>1, <1>2, <1>3, <1>4 DEF HopType, IsFlowTimeout

\* g is h with a probe recorded as sent at flow f.
IsFlowSent(h, g, f) ==
    /\ g \in HopType
    /\ \A k \in FlowIds \ {f} : g.flows[k] = h.flows[k]
    /\ g.flows[f].sent = h.flows[f].sent + 1
    /\ g.flows[f].received = h.flows[f].received
    /\ g.flows[f].responders = h.flows[f].responders
    /\ g.flows[f].timeouts = h.flows[f].timeouts
    /\ g.ttl = h.ttl /\ g.sent = h.sent /\ g.received = h.received /\ g.timeouts = h.timeouts
    /\ g.responders = h.responders /\ g.recent = h.recent
    /\ g.nat = h.nat /\ g.rateLimit = h.rateLimit /\ g.changes = h.changes
    /\ g.asym = h.asym /\ g.manip = h.manip /\ g.flapPrimary = h.flapPrimary

LEMMA RecordFlowSentFields ==
    ASSUME NEW h \in HopType, NEW f \in FlowIds
    PROVE  IsFlowSent(h, RecordFlowSent(h, f), f)
<1> DEFINE flow == [h.flows[f] EXCEPT !.sent = @ + 1]
<1>1. h.flows \in [FlowIds -> FlowType] /\ h.flows[f] \in FlowType
    BY DEF HopType
<1>2. /\ flow \in FlowType
      /\ flow.sent = h.flows[f].sent + 1 /\ flow.received = h.flows[f].received /\ flow.responders = h.flows[f].responders
      /\ flow.timeouts = h.flows[f].timeouts
    BY <1>1 DEF FlowType
<1>3. RecordFlowSent(h, f) = [h EXCEPT !.flows = [h.flows EXCEPT ![f] = flow]]
    BY <1>1 DEF RecordFlowSent, HopType, FlowType
<1> HIDE DEF flow
<1>4. [h.flows EXCEPT ![f] = flow] \in [FlowIds -> FlowType]
    BY <1>1, <1>2
<1> QED  BY <1>1, <1>2, <1>3, <1>4 DEF HopType, IsFlowSent
-----------------------------------------------------------------------------
(* The primary responder.                                                   *)

\* Counts of responders have a largest one.
LEMMA TopCountIsMax ==
    ASSUME NEW counts \in [Addrs -> Nat], NEW a \in Addrs
    PROVE  /\ TopCount(counts) \in Nat
           /\ \A b \in Addrs : counts[b] <= TopCount(counts)
           /\ \E b \in Addrs : counts[b] = TopCount(counts)
<1> DEFINE IsTop(x, s) == \A y \in s : counts[y] <= counts[x]
           Bad == {s \in SUBSET Addrs : s # {} /\ ~\E x \in s : IsTop(x, s)}
<1>1. Bad = {}
    <2> SUFFICES ASSUME Bad # {} PROVE FALSE
        OBVIOUS
    <2>1. PICK s \in Bad : \A x \in s : s \ {x} \notin Bad
        <3>1. Bad \in SUBSET (SUBSET Addrs) /\ IsFiniteSet(Addrs)  BY HopStatsAssumption
        <3> HIDE DEF Bad
        <3> QED  BY <3>1, SmallestCounterexample
    <2>2. s \in SUBSET Addrs /\ s # {} /\ ~\E x \in s : IsTop(x, s)
        BY <2>1
    <2>3. PICK x \in s : TRUE
        BY <2>2
    <2>4. s \ {x} # {}
        <3>1. SUFFICES ASSUME s \ {x} = {} PROVE FALSE
            OBVIOUS
        <3>2. s = {x}  BY <2>3, <3>1
        <3>3. counts[x] \in Nat  BY <2>2
        <3>4. IsTop(x, s)  BY <3>2, <3>3
        <3> HIDE DEF IsTop
        <3> QED  BY <2>2, <3>4
    <2>5. PICK z \in s \ {x} : IsTop(z, s \ {x})
        BY <2>1, <2>2, <2>4
    <2>6. counts[x] \in Nat /\ counts[z] \in Nat
        BY <2>2
    <2>7. CASE counts[x] <= counts[z]
        <3>1. IsTop(z, s)  BY <2>5, <2>7
        <3> HIDE DEF IsTop
        <3> QED  BY <2>2, <3>1
    <2>8. CASE counts[z] < counts[x]
        <3>1. ASSUME NEW y \in s PROVE counts[y] <= counts[x]
            <4>1. counts[y] \in Nat  BY <2>2
            <4>2. y # x => counts[y] <= counts[z]  BY <2>5
            <4> QED  BY <2>6, <2>8, <4>1, <4>2
        <3>2. IsTop(x, s)  BY <3>1
        <3> HIDE DEF IsTop
        <3> QED  BY <2>2, <3>2
    <2> QED  BY <2>6, <2>7, <2>8
<1>2. PICK x \in Addrs : IsTop(x, Addrs)
    <2>1. Addrs \in SUBSET Addrs /\ Addrs # {} /\ Addrs \notin Bad  BY <1>1
    <2> HIDE DEF IsTop
    <2> QED  BY <2>1
<1> DEFINE S == {counts[b] : b \in Addrs}
<1>3. counts[x] \in S /\ \A n \in S : counts[x] >= n
    BY <1>2
<1>4. Max(S) \in S /\ \A n \in S : Max(S) >= n
    <2> HIDE DEF S
    <2> QED  BY <1>3 DEF Max
<1>5. S \in SUBSET Nat
    OBVIOUS
<1>6. TopCount(counts) = Max(S)
    BY DEF TopCount
<1>7. \A b \in Addrs : counts[b] \in S
    OBVIOUS
<1>8. \A b \in Addrs : counts[b] <= Max(S)
    <2> HIDE DEF S
    <2>1. \A b \in Addrs : counts[b] \in Nat  OBVIOUS
    <2> QED  BY <1>4, <1>5, <1>7, <2>1
<1>9. PICK b \in Addrs : counts[b] = Max(S)
    <2>1. Max(S) \in {counts[b] : b \in Addrs}  BY <1>4
    <2> HIDE DEF S
    <2> QED  BY <2>1
<1> HIDE DEF S
<1> QED  BY <1>4, <1>5, <1>6, <1>8, <1>9

\* The tracked primary is an address, and no other is far ahead of it: either it
\* leads, or the margin was not reached.
LEMMA TrackedPrimaryLeads ==
    ASSUME NEW h \in HopType, NEW a \in Addrs \cup {NoAddr}, NEW b \in Addrs, h.responders[b] > 0
    PROVE  /\ TrackedPrimary(h, a) \in Addrs
           /\ TopCount(h.responders) < h.responders[TrackedPrimary(h, a)] + PrimaryChangeMargin
<1>1. h.responders \in [Addrs -> Nat]
    BY DEF HopType
<1>2. /\ TopCount(h.responders) \in Nat
      /\ \A c \in Addrs : h.responders[c] <= TopCount(h.responders)
      /\ \E c \in Addrs : h.responders[c] = TopCount(h.responders)
    BY <1>1, TopCountIsMax
<1>3. PICK c \in Addrs : h.responders[c] = TopCount(h.responders)
    BY <1>2
<1>4. h.responders[b] \in Nat /\ h.responders[b] <= TopCount(h.responders)
    BY <1>1, <1>2
<1>5. c \in Leaders(h.responders)
    BY <1>2, <1>3, <1>4 DEF Leaders
<1> DEFINE lead == CHOOSE d \in Leaders(h.responders) : TRUE
<1>6. lead \in Addrs /\ h.responders[lead] = TopCount(h.responders)
    BY <1>5 DEF Leaders
<1> HIDE DEF lead
<1>7. TrackedPrimary(h, a) = IF a = NoAddr \/ TopCount(h.responders) >= CountOf(h.responders, a) + PrimaryChangeMargin
                             THEN lead ELSE a
    BY DEF TrackedPrimary, lead
<1>8. CASE a = NoAddr \/ TopCount(h.responders) >= CountOf(h.responders, a) + PrimaryChangeMargin
    BY <1>2, <1>6, <1>7, <1>8 DEF PrimaryChangeMargin
<1>9. CASE ~(a = NoAddr \/ TopCount(h.responders) >= CountOf(h.responders, a) + PrimaryChangeMargin)
    <2>1. a \in Addrs /\ TrackedPrimary(h, a) = a  BY <1>7, <1>9
    <2>2. h.responders[a] \in Nat /\ CountOf(h.responders, a) = h.responders[a]
        BY <1>1, <1>9, <2>1 DEF CountOf
    <2> QED  BY <1>2, <1>9, <2>1, <2>2 DEF PrimaryChangeMargin
<1> QED  BY <1>8, <1>9

ChangeOf(h, a) == [from |-> h.flapPrimary, to |-> TrackedPrimary(RecordResponse(h, a), h.flapPrimary),
                   atSeq |-> h.received + 1]

ChangesAfter(h, a) ==
    IF /\ h.received + 1 >= MinResponsesForFlap /\ h.flapPrimary # NoAddr
       /\ h.flapPrimary # ChangeOf(h, a).to
    THEN KeepNewest(Append(h.changes, ChangeOf(h, a)), MaxRouteChanges) ELSE h.changes

\* g is h with a response of a recorded, and its flap detected where there is one flow.
IsResponseOf(h, g, a, flows) ==
    /\ g \in HopType
    /\ g.received = h.received + 1
    /\ g.responders = Bump(h.responders, a)
    /\ g.recent = KeepNewest(Append(h.recent, TRUE), RecentWindow)
    /\ g.ttl = h.ttl /\ g.sent = h.sent /\ g.timeouts = h.timeouts /\ g.flows = h.flows
    /\ g.nat = h.nat /\ g.rateLimit = h.rateLimit
    /\ g.asym = h.asym /\ g.manip = h.manip
    /\ flows = 1 => g.flapPrimary = ChangeOf(h, a).to /\ g.changes = ChangesAfter(h, a)
    /\ flows # 1 => g.flapPrimary = h.flapPrimary /\ g.changes = h.changes

LEMMA RecordResponseOfFields ==
    ASSUME NEW h \in HopType, NEW a \in Addrs, NEW flows,
           Len(h.recent) <= RecentWindow, Len(h.changes) <= MaxRouteChanges
    PROVE  IsResponseOf(h, RecordResponseOf(h, a, flows), a, flows)
<1> DEFINE r == RecordResponse(h, a)
<1>1. IsResponse(h, r, a)
    BY RecordResponseFields
<1> DEFINE new == ChangeOf(h, a).to
<1>2. new = TrackedPrimary(r, h.flapPrimary) /\ h.flapPrimary \in Addrs \cup {NoAddr}
    BY DEF ChangeOf, HopType
<1>3. new \in Addrs
    <2> HIDE DEF r, new
    <2>1. r \in HopType /\ r.responders[a] > 0  BY <1>1 DEF IsResponse, HopType, Bump
    <2> QED  BY <1>2, <2>1, TrackedPrimaryLeads
<1>4. ChangesAfter(h, a) \in Seq(ChangeType)
    <2>1. h.changes \in Seq(ChangeType) /\ h.received \in Nat  BY DEF HopType
    <2>2. ASSUME h.flapPrimary # NoAddr PROVE ChangeOf(h, a) \in ChangeType
        BY <1>2, <1>3, <2>1, <2>2 DEF ChangeOf, ChangeType
    <2>3. h.flapPrimary # NoAddr => KeepNewest(Append(h.changes, ChangeOf(h, a)), MaxRouteChanges) \in Seq(ChangeType)
        BY <2>1, <2>2, WindowType, HopStatsAssumption
    <2> QED  BY <2>1, <2>3 DEF ChangesAfter
<1>5. CASE flows = 1
    <2>1. RecordResponseOf(h, a, flows) = [r EXCEPT !.flapPrimary = new, !.changes = ChangesAfter(h, a)]
        <3>1. RecordResponseOf(h, a, flows) = RecordResponseDetectingFlaps(h, a)
            BY <1>5 DEF RecordResponseOf
        <3>2. /\ r.received = h.received + 1 /\ r.changes = h.changes /\ r.flapPrimary = h.flapPrimary
              /\ r \in HopType
            <4> HIDE DEF r
            <4> QED  BY <1>1 DEF IsResponse
        <3> QED  BY <3>1, <3>2 DEF RecordResponseDetectingFlaps, ChangesAfter, ChangeOf, HopType
    <2> DEFINE g == RecordResponseOf(h, a, flows)
    <2> HIDE DEF r, new, g
    <2>2. r \in HopType
        BY <1>1 DEF IsResponse
    <2>3. /\ g \in HopType /\ g.flapPrimary = new /\ g.changes = ChangesAfter(h, a)
          /\ g.received = r.received /\ g.responders = r.responders /\ g.recent = r.recent
          /\ g.ttl = r.ttl /\ g.sent = r.sent /\ g.timeouts = r.timeouts /\ g.flows = r.flows
          /\ g.nat = r.nat /\ g.rateLimit = r.rateLimit /\ g.asym = r.asym /\ g.manip = r.manip
        BY <1>3, <1>4, <2>1, <2>2 DEF HopType, g
    <2>4. IsResponseOf(h, g, a, flows)
        BY <1>1, <1>5, <2>3 DEF IsResponse, IsResponseOf, new
    <2> QED  BY <2>4 DEF g
<1>6. CASE flows # 1
    <2>1. RecordResponseOf(h, a, flows) = r
        BY <1>6 DEF RecordResponseOf
    <2> HIDE DEF r
    <2>2. IsResponseOf(h, r, a, flows)
        BY <1>1, <1>6 DEF IsResponse, IsResponseOf
    <2> QED  BY <2>1, <2>2
<1> QED  BY <1>5, <1>6
-----------------------------------------------------------------------------
(* What a whole response or timeout does to a hop.                          *)

\* The evidence of TTL manipulation, as ManipEvidence has it of a session.
ManipInv(m) ==
    /\ m.noDecrement <= m.anomalous
    /\ m.suspected => m.anomalous > 0
    /\ (m.noDecrement > 0 /\ m.normal + m.anomalous >= 5) => m.suspected

\* g is h with one more check of the source port.
IsNatCheck(h, g) ==
    /\ g \in HopType
    /\ g.nat.matched + g.nat.rewritten = h.nat.matched + h.nat.rewritten + 1
    /\ g.ttl = h.ttl /\ g.sent = h.sent /\ g.received = h.received /\ g.timeouts = h.timeouts
    /\ g.responders = h.responders /\ g.recent = h.recent /\ g.flows = h.flows
    /\ g.rateLimit = h.rateLimit /\ g.changes = h.changes
    /\ g.asym = h.asym /\ g.manip = h.manip /\ g.flapPrimary = h.flapPrimary

LEMMA NatCheckFields ==
    ASSUME NEW h \in HopType, NEW original, NEW returned
    PROVE  IsNatCheck(h, RecordNatCheck(h, original, returned))
<1>1. h.nat \in [matched : Nat, rewritten : Nat]
    BY DEF HopType
<1>2. CASE original = returned
    <2> DEFINE nat == [h.nat EXCEPT !.matched = h.nat.matched + 1]
    <2>1. RecordNatCheck(h, original, returned) = [h EXCEPT !.nat = nat]
        BY <1>1, <1>2 DEF RecordNatCheck, HopType
    <2>2. nat \in [matched : Nat, rewritten : Nat] /\ nat.matched + nat.rewritten = h.nat.matched + h.nat.rewritten + 1
        BY <1>1
    <2> HIDE DEF nat
    <2> QED  BY <2>1, <2>2 DEF HopType, IsNatCheck
<1>3. CASE original # returned
    <2> DEFINE nat == [h.nat EXCEPT !.rewritten = h.nat.rewritten + 1]
    <2>1. RecordNatCheck(h, original, returned) = [h EXCEPT !.nat = nat]
        BY <1>1, <1>3 DEF RecordNatCheck, HopType
    <2>2. nat \in [matched : Nat, rewritten : Nat] /\ nat.matched + nat.rewritten = h.nat.matched + h.nat.rewritten + 1
        BY <1>1
    <2> HIDE DEF nat
    <2> QED  BY <2>1, <2>2 DEF HopType, IsNatCheck
<1> QED  BY <1>2, <1>3

\* g is h with the return path judged once more.
IsReturnTtl(h, g) ==
    /\ g \in HopType
    /\ g.ttl = h.ttl /\ g.sent = h.sent /\ g.received = h.received /\ g.timeouts = h.timeouts
    /\ g.responders = h.responders /\ g.recent = h.recent /\ g.flows = h.flows
    /\ g.nat = h.nat /\ g.rateLimit = h.rateLimit /\ g.changes = h.changes
    /\ g.manip = h.manip /\ g.flapPrimary = h.flapPrimary

LEMMA ResponseTtlFields ==
    ASSUME NEW h \in HopType, NEW ttl \in 0..255
    PROVE  IsReturnTtl(h, RecordResponseTtl(h, ttl))
<1> DEFINE far   == EstimateReturnHops(ttl) - h.ttl
           isFar == far >= 3 \/ far <= -3
           asym  == h.asym.asymmetric + (IF isFar THEN 1 ELSE 0)
           total == h.asym.asymmetric + h.asym.symmetric + 1
           verdict == IF total >= 5 THEN 2 * asym > total ELSE h.asym.suspected
           new   == [asymmetric |-> asym, symmetric |-> total - asym, suspected |-> verdict]
<1>1. RecordResponseTtl(h, ttl) = [h EXCEPT !.asym = new]
    BY DEF RecordResponseTtl, HopType
<1>2. h.asym \in AsymType
    BY DEF HopType
<1>3. asym \in Int /\ total \in Int
    <2> HIDE DEF isFar
    <2> QED  BY <1>2 DEF AsymType
<1> HIDE DEF asym, total
<1>4. verdict \in BOOLEAN
    <2>1. (2 * asym > total) \in BOOLEAN /\ h.asym.suspected \in BOOLEAN  BY <1>2 DEF AsymType
    <2> QED  BY <2>1
<1> HIDE DEF verdict
<1>5. new \in AsymType
    BY <1>2, <1>3, <1>4 DEF AsymType
<1> HIDE DEF new
<1> QED  BY <1>1, <1>5 DEF HopType, IsReturnTtl

\* g is h with the quoted TTL judged once more.
IsManipCheck(h, g) ==
    /\ g \in HopType /\ ManipInv(g.manip)
    /\ g.ttl = h.ttl /\ g.sent = h.sent /\ g.received = h.received /\ g.timeouts = h.timeouts
    /\ g.responders = h.responders /\ g.recent = h.recent /\ g.flows = h.flows
    /\ g.nat = h.nat /\ g.rateLimit = h.rateLimit /\ g.changes = h.changes
    /\ g.asym = h.asym /\ g.flapPrimary = h.flapPrimary

\* A check of the quoted TTL keeps the evidence and the verdict together.
LEMMA TtlManipFields ==
    ASSUME NEW h \in HopType, NEW quoted, ManipInv(h.manip)
    PROVE  IsManipCheck(h, RecordTtlManipCheck(h, quoted))
<1> DEFINE m == h.manip
           Sampled == [normal : Nat, anomalous : Nat, noDecrement : Nat, suspected : BOOLEAN, checks : 0..10]
           sample ==
            IF quoted > 1 THEN [m EXCEPT !.anomalous = m.anomalous + 1, !.checks = 0]
            ELSE [m EXCEPT !.normal = m.normal + 1, !.checks = IF m.suspected THEN m.checks + 1 ELSE m.checks]
           undecremented ==
            IF quoted = h.ttl /\ h.ttl > 1
            THEN [sample EXCEPT !.noDecrement = sample.noDecrement + 1, !.checks = 0] ELSE sample
           Known(k) == k.noDecrement <= k.anomalous /\ (k.suspected => k.anomalous > 0)
<1>1. m \in ManipType /\ h.ttl \in Nat
    BY DEF HopType, TTLs
<1>2. RecordTtlManipCheck(h, quoted) = [h EXCEPT !.manip = UpdateManip(undecremented)]
    BY <1>1 DEF RecordTtlManipCheck, HopType, ManipType
<1>3. /\ sample \in Sampled /\ Known(sample)
      /\ (quoted = h.ttl /\ h.ttl > 1) => sample.noDecrement < sample.anomalous
    <2>1. /\ m.normal \in Nat /\ m.anomalous \in Nat /\ m.noDecrement \in Nat
          /\ m.suspected \in BOOLEAN /\ m.checks \in 0..9 /\ m.noDecrement <= m.anomalous
          /\ m.suspected => m.anomalous > 0
        BY <1>1 DEF ManipType, ManipInv
    <2>2. CASE quoted > 1
        <3>1. sample = [m EXCEPT !.anomalous = m.anomalous + 1, !.checks = 0]  BY <2>2
        <3> HIDE DEF sample, m
        <3>2. /\ sample \in Sampled
              /\ sample.noDecrement = m.noDecrement /\ sample.anomalous = m.anomalous + 1
            <4>1. sample = [normal |-> m.normal, anomalous |-> m.anomalous + 1,
                            noDecrement |-> m.noDecrement, suspected |-> m.suspected, checks |-> 0]
                BY <1>1, <3>1 DEF ManipType
            <4>2. m.anomalous + 1 \in Nat /\ 0 \in 0..10  BY <2>1
            <4> QED  BY <2>1, <4>1, <4>2
        <3> HIDE DEF Sampled
        <3> QED  BY <2>1, <3>2
    <2>3. CASE ~(quoted > 1)
        <3> DEFINE checks == IF m.suspected THEN m.checks + 1 ELSE m.checks
        <3>1. sample = [m EXCEPT !.normal = m.normal + 1, !.checks = checks]  BY <2>3
        <3>2. checks \in 0..10  BY <2>1
        <3> HIDE DEF checks, sample, m
        <3>3. /\ sample \in Sampled
              /\ sample.noDecrement = m.noDecrement /\ sample.anomalous = m.anomalous
              /\ sample.suspected = m.suspected
            <4>1. sample = [normal |-> m.normal + 1, anomalous |-> m.anomalous,
                            noDecrement |-> m.noDecrement, suspected |-> m.suspected, checks |-> checks]
                BY <1>1, <3>1 DEF ManipType
            <4>2. m.normal + 1 \in Nat  BY <2>1
            <4> QED  BY <2>1, <3>2, <4>1, <4>2
        <3>4. ~(quoted = h.ttl /\ h.ttl > 1)  BY <2>3
        <3> HIDE DEF Sampled
        <3> QED  BY <2>1, <3>3, <3>4
    <2> QED  BY <2>2, <2>3
<1> HIDE DEF sample
<1>4. undecremented \in Sampled /\ Known(undecremented)
    <2>1. CASE quoted = h.ttl /\ h.ttl > 1
        <3>1. undecremented = [sample EXCEPT !.noDecrement = sample.noDecrement + 1, !.checks = 0]  BY <2>1
        <3> HIDE DEF undecremented
        <3>2. /\ undecremented \in Sampled /\ undecremented.noDecrement = sample.noDecrement + 1
              /\ undecremented.anomalous = sample.anomalous /\ undecremented.suspected = sample.suspected
            <4>1. undecremented = [normal |-> sample.normal, anomalous |-> sample.anomalous,
                                   noDecrement |-> sample.noDecrement + 1,
                                   suspected |-> sample.suspected, checks |-> 0]
                BY <1>3, <3>1
            <4>2. sample.noDecrement + 1 \in Nat /\ 0 \in 0..10 /\ sample.normal \in Nat
                  /\ sample.anomalous \in Nat /\ sample.suspected \in BOOLEAN
                BY <1>3
            <4> QED  BY <4>1, <4>2
        <3>3. sample.noDecrement \in Nat /\ sample.anomalous \in Nat  BY <1>3
        <3> HIDE DEF Sampled
        <3> QED  BY <1>3, <2>1, <3>2, <3>3
    <2>2. CASE ~(quoted = h.ttl /\ h.ttl > 1)
        <3>1. undecremented = sample  BY <2>2
        <3> QED  BY <1>3, <3>1
    <2> QED  BY <2>1, <2>2
<1> HIDE DEF undecremented
<1> DEFINE u == undecremented
<1>5. UpdateManip(u) \in ManipType /\ ManipInv(UpdateManip(u))
    <2> DEFINE total == u.normal + u.anomalous
               evident == total >= 5 /\ (10 * u.anomalous >= 3 * total \/ u.noDecrement > 0)
               v == UpdateManip(u)
    <2>1. /\ u.normal \in Nat /\ u.anomalous \in Nat /\ u.noDecrement \in Nat
          /\ u.suspected \in BOOLEAN /\ u.checks \in 0..10
        BY <1>4
    <2>2. v = IF u.checks >= 10
              THEN [u EXCEPT !.suspected = FALSE, !.checks = 0, !.anomalous = 0, !.noDecrement = 0]
              ELSE IF evident THEN [u EXCEPT !.suspected = TRUE] ELSE u
        BY DEF UpdateManip
    <2> HIDE DEF v
    <2>3. CASE u.checks >= 10
        <3>1. v = [u EXCEPT !.suspected = FALSE, !.checks = 0, !.anomalous = 0, !.noDecrement = 0]
            BY <2>2, <2>3
        <3>2. v = [normal |-> u.normal, anomalous |-> 0, noDecrement |-> 0, suspected |-> FALSE, checks |-> 0]
            BY <1>4, <3>1
        <3>3. v \in ManipType /\ v.suspected = FALSE /\ v.anomalous = 0 /\ v.noDecrement = 0
            BY <2>1, <3>2 DEF ManipType
        <3> QED  BY <3>3 DEF ManipInv, v
    <2>4. CASE ~(u.checks >= 10) /\ evident
        <3>1. v = [u EXCEPT !.suspected = TRUE]  BY <2>2, <2>4
        <3>2. /\ v \in ManipType /\ v.suspected = TRUE /\ v.anomalous = u.anomalous
              /\ v.noDecrement = u.noDecrement
            <4>1. u.checks \in 0..9  BY <2>1, <2>4
            <4> HIDE DEF evident
            <4> QED  BY <1>4, <2>1, <3>1, <4>1 DEF ManipType
        <3>3. u.anomalous > 0 /\ u.noDecrement <= u.anomalous  BY <1>4, <2>1, <2>4
        <3> QED  BY <3>2, <3>3 DEF ManipInv, v
    <2>5. CASE ~(u.checks >= 10) /\ ~evident
        <3>1. v = u  BY <2>2, <2>5
        <3>2. v \in ManipType
            <4> HIDE DEF evident
            <4> QED  BY <1>4, <2>1, <2>5, <3>1 DEF ManipType
        <3>3. ManipInv(v)  BY <1>4, <2>1, <2>5, <3>1 DEF ManipInv
        <3> QED  BY <3>2, <3>3 DEF v
    <2> QED  BY <2>3, <2>4, <2>5
<1> QED  BY <1>2, <1>5 DEF HopType, IsManipCheck

\* g is h after a response of a to a probe of flow f.
Responded(h, g, f, a, flows) ==
    /\ g \in HopType
    /\ g.received = h.received + 1 /\ g.timeouts = h.timeouts
    /\ g.responders = Bump(h.responders, a)
    /\ g.recent = KeepNewest(Append(h.recent, TRUE), RecentWindow)
    /\ \A k \in FlowIds \ {f} : g.flows[k] = h.flows[k]
    /\ g.flows[f].received = h.flows[f].received + 1
    /\ g.flows[f].responders = Bump(h.flows[f].responders, a)
    /\ g.flows[f].timeouts = h.flows[f].timeouts
    /\ flows = 1 => g.flapPrimary = ChangeOf(h, a).to /\ g.changes = ChangesAfter(h, a)
    /\ flows # 1 => g.flapPrimary = h.flapPrimary /\ g.changes = h.changes

\* g is h after a timeout of a probe of flow f.
TimedOutOf(h, g, f) ==
    /\ g \in HopType
    /\ g.received = h.received /\ g.timeouts = h.timeouts + 1
    /\ g.responders = h.responders
    /\ g.recent = KeepNewest(Append(h.recent, FALSE), RecentWindow)
    /\ \A k \in FlowIds \ {f} : g.flows[k] = h.flows[k]
    /\ g.flows[f].received = h.flows[f].received
    /\ g.flows[f].responders = h.flows[f].responders
    /\ g.flows[f].timeouts = h.flows[f].timeouts + 1
    /\ g.nat = h.nat /\ g.rateLimit = h.rateLimit /\ g.manip = h.manip
    /\ g.flapPrimary = h.flapPrimary /\ g.changes = h.changes

\* And nothing else happened to it.
RespondedOnly(h, g, f, a, flows) ==
    /\ Responded(h, g, f, a, flows) /\ g.ttl = h.ttl /\ g.sent = h.sent
    /\ g.nat = h.nat /\ g.rateLimit = h.rateLimit /\ g.manip = h.manip

TimedOutOnly(h, g, f) == TimedOutOf(h, g, f) /\ g.ttl = h.ttl /\ g.sent = h.sent

LEMMA ResponseIsOne ==
    ASSUME NEW h \in HopType, NEW f \in FlowIds, NEW a \in Addrs, NEW flows,
           Len(h.recent) <= RecentWindow, Len(h.changes) <= MaxRouteChanges
    PROVE  RespondedOnly(h, RecordFlowResponse(RecordResponseOf(h, a, flows), f, a), f, a, flows)
<1> DEFINE r == RecordResponseOf(h, a, flows)
           g == RecordFlowResponse(r, f, a)
<1>a. r = RecordResponseOf(h, a, flows)
    OBVIOUS
<1> HIDE DEF r
<1>b. g = RecordFlowResponse(r, f, a)
    OBVIOUS
<1> HIDE DEF g
<1>1. IsResponseOf(h, r, a, flows)
    BY <1>a, RecordResponseOfFields
<1>2. r \in HopType
    BY <1>1 DEF IsResponseOf
<1>3. IsFlowResponse(r, g, f, a)
    BY <1>2, <1>b, RecordFlowResponseFields
<1>4. RespondedOnly(h, g, f, a, flows)
    BY <1>1, <1>3 DEF IsResponseOf, IsFlowResponse, Responded, RespondedOnly
<1> QED  BY <1>4 DEF g, r

\* The probe of a profile, and what it may do to a hop.
ProbeOK(p) ==
    /\ p # None /\ p.pmtud \in BOOLEAN
    /\ p.id.ttl \in TTLs /\ p.flow \in FlowIds
    /\ p.fate.from \in Addrs /\ p.fate.ttl \in Maybe(Byte)

\* g is h after the whole of a response: what the detectors made of it too.
RespondedAndJudged(h, g, f, a, flows) ==
    /\ Responded(h, g, f, a, flows)
    /\ g.ttl = h.ttl /\ g.rateLimit = h.rateLimit /\ ManipInv(g.manip)
    /\ g.nat.matched + g.nat.rewritten <= h.nat.matched + h.nat.rewritten + 1

LEMMA RespondedHopIsOne ==
    ASSUME NEW h \in HopType, NEW p, ProbeOK(p), NEW r, ManipInv(h.manip),
           Len(h.recent) <= RecentWindow, Len(h.changes) <= MaxRouteChanges
    PROVE  RespondedAndJudged(h, RespondedHop(h, p, r), p.flow, p.fate.from, profile.flows)
<1> DEFINE a      == p.fate.from
           f      == p.flow
           flows  == profile.flows
           stats  == RecordFlowResponse(RecordResponseOf(h, a, flows), f, a)
           nat    == IF Some(PortOf(p)) /\ Some(r.port) THEN RecordNatCheck(stats, PortOf(p), r.port)
                     ELSE stats
           return == IF flows = 1 /\ Some(p.fate.ttl) THEN RecordResponseTtl(nat, p.fate.ttl) ELSE nat
           g      == IF r.type = "TimeExceeded" /\ r.code = 0 THEN RecordTtlManipCheck(return, r.quotedTtl)
                     ELSE return
           Like(x, y) == /\ y \in HopType
                         /\ y.ttl = x.ttl /\ y.received = x.received /\ y.timeouts = x.timeouts
                         /\ y.responders = x.responders /\ y.recent = x.recent /\ y.flows = x.flows
                         /\ y.rateLimit = x.rateLimit /\ y.changes = x.changes
                         /\ y.flapPrimary = x.flapPrimary
<1>1. RespondedHop(h, p, r) = g
    BY DEF RespondedHop
<1>2. a \in Addrs /\ f \in FlowIds /\ p.fate.ttl \in Maybe(Byte)
    BY DEF ProbeOK
<1>3. /\ Responded(h, stats, f, a, flows)
      /\ stats.nat = h.nat /\ stats.rateLimit = h.rateLimit /\ stats.manip = h.manip /\ stats.ttl = h.ttl
    <2> HIDE DEF stats, a, f, flows
    <2>1. RespondedOnly(h, stats, f, a, flows)  BY <1>2, ResponseIsOne DEF stats
    <2> QED  BY <2>1 DEF RespondedOnly
<1> HIDE DEF stats, a, f, flows
<1>4. stats \in HopType
    BY <1>3 DEF Responded
<1>5. /\ Like(stats, nat) /\ nat.manip = stats.manip
      /\ nat.nat.matched + nat.nat.rewritten <= h.nat.matched + h.nat.rewritten + 1
    <2>1. h.nat.matched \in Nat /\ h.nat.rewritten \in Nat
        BY DEF HopType
    <2>2. CASE Some(PortOf(p)) /\ Some(r.port)
        <3>1. nat = RecordNatCheck(stats, PortOf(p), r.port)  BY <2>2
        <3> HIDE DEF nat
        <3>2. /\ Like(stats, nat) /\ nat.manip = stats.manip
              /\ nat.nat.matched + nat.nat.rewritten = stats.nat.matched + stats.nat.rewritten + 1
            <4>1. IsNatCheck(stats, nat)  BY <1>4, <3>1, NatCheckFields
            <4> QED  BY <4>1 DEF IsNatCheck
        <3> QED  BY <1>3, <2>1, <3>2
    <2>3. CASE ~(Some(PortOf(p)) /\ Some(r.port))
        <3>1. nat = stats  BY <2>3
        <3> HIDE DEF nat
        <3> QED  BY <1>3, <1>4, <2>1, <3>1
    <2> QED  BY <2>2, <2>3
<1> HIDE DEF nat
<1>6. Like(nat, return) /\ return.manip = nat.manip /\ return.nat = nat.nat
    <2>1. CASE flows = 1 /\ Some(p.fate.ttl)
        <3>1. return = RecordResponseTtl(nat, p.fate.ttl) /\ p.fate.ttl \in 0..255
            BY <1>2, <2>1 DEF Some, Maybe, Byte
        <3> HIDE DEF return
        <3>2. IsReturnTtl(nat, return)  BY <1>5, <3>1, ResponseTtlFields
        <3> QED  BY <3>2 DEF IsReturnTtl
    <2>2. CASE ~(flows = 1 /\ Some(p.fate.ttl))
        <3>1. return = nat  BY <2>2
        <3> HIDE DEF return
        <3> QED  BY <1>5, <3>1
    <2> QED  BY <2>1, <2>2
<1> HIDE DEF return
<1>7. Like(return, g) /\ ManipInv(g.manip) /\ g.nat = return.nat
    <2>1. return \in HopType /\ ManipInv(return.manip)
        BY <1>3, <1>5, <1>6
    <2>2. CASE r.type = "TimeExceeded" /\ r.code = 0
        <3>1. g = RecordTtlManipCheck(return, r.quotedTtl)  BY <2>2
        <3> HIDE DEF g
        <3>2. IsManipCheck(return, g)  BY <2>1, <3>1, TtlManipFields
        <3> QED  BY <3>2 DEF IsManipCheck
    <2>3. CASE ~(r.type = "TimeExceeded" /\ r.code = 0)
        <3>1. g = return  BY <2>3
        <3> HIDE DEF g
        <3> QED  BY <2>1, <3>1
    <2> QED  BY <2>2, <2>3
<1> HIDE DEF g
<1>8. Responded(h, g, f, a, flows)
    <2>1. Like(stats, g)  BY <1>5, <1>6, <1>7
    <2> QED  BY <1>3, <2>1 DEF Responded
<1>9. RespondedAndJudged(h, g, f, a, flows)
    BY <1>3, <1>5, <1>6, <1>7, <1>8 DEF RespondedAndJudged
<1> QED  BY <1>1, <1>9 DEF a, f, flows

LEMMA TimeoutIsOne ==
    ASSUME NEW h \in HopType, NEW f \in FlowIds, Len(h.recent) <= RecentWindow
    PROVE  TimedOutOnly(h, RecordFlowTimeout(RecordTimeout(h), f), f)
<1> DEFINE r == RecordTimeout(h)
           g == RecordFlowTimeout(r, f)
<1>1. IsTimeout(h, r)
    BY RecordTimeoutFields
<1> HIDE DEF r
<1>2. r \in HopType
    BY <1>1 DEF IsTimeout
<1>3. IsFlowTimeout(r, g, f)
    BY <1>2, RecordFlowTimeoutFields
<1> HIDE DEF g
<1>4. TimedOutOnly(h, g, f)
    BY <1>1, <1>3 DEF IsTimeout, IsFlowTimeout, TimedOutOf, TimedOutOnly
<1> QED  BY <1>4 DEF g, r
-----------------------------------------------------------------------------
(* The counters of a hop add up: what FlowAccounting says of each hop.      *)

Accounted(h) ==
    /\ h.received = SumFunction(h.responders)
    /\ \A a \in Addrs : h.responders[a] = SumFunction([k \in FlowIds |-> h.flows[k].responders[a]])
    /\ \A k \in FlowIds : h.flows[k].received = SumFunction(h.flows[k].responders)
    /\ h.timeouts = SumFunction([k \in FlowIds |-> h.flows[k].timeouts])
    /\ Len(h.recent) = Min({RecentWindow, Completed(h)})
    /\ h.nat.matched + h.nat.rewritten <= h.received

LEMMA MinOfTwo ==
    ASSUME NEW x \in Int, NEW y \in Int
    PROVE  Min({x, y}) = IF x <= y THEN x ELSE y
<1> DEFINE m == IF x <= y THEN x ELSE y
<1>1. m \in {x, y} /\ \A z \in {x, y} : m <= z
    OBVIOUS
<1>2. \A n \in {x, y} : (\A z \in {x, y} : n <= z) => n = m
    OBVIOUS
<1> HIDE DEF m
<1>3. Min({x, y}) \in {x, y} /\ \A z \in {x, y} : Min({x, y}) <= z
    BY <1>1 DEF Min
<1>4. Min({x, y}) = m
    BY <1>2, <1>3
<1> QED  BY <1>4 DEF m

\* The window grows with the results until it is full.
LEMMA WindowGrows ==
    ASSUME NEW h \in HopType, NEW e \in BOOLEAN, Len(h.recent) = Min({RecentWindow, Completed(h)}),
           NEW recent, recent = KeepNewest(Append(h.recent, e), RecentWindow)
    PROVE  /\ Len(h.recent) <= RecentWindow
           /\ Len(recent) = Min({RecentWindow, Completed(h) + 1})
<1>1. RecentWindow \in Nat \ {0} /\ Completed(h) \in Nat
    BY HopStatsAssumption DEF Completed, HopType
<1>2. Min({RecentWindow, Completed(h)}) = IF RecentWindow <= Completed(h) THEN RecentWindow ELSE Completed(h)
    BY <1>1, MinOfTwo
<1>3. Min({RecentWindow, Completed(h) + 1})
        = IF RecentWindow <= Completed(h) + 1 THEN RecentWindow ELSE Completed(h) + 1
    BY <1>1, MinOfTwo
<1>4. h.recent \in Seq(BOOLEAN) /\ Len(h.recent) <= RecentWindow
    BY <1>1, <1>2 DEF HopType
<1>5. Len(recent) = IF Len(h.recent) = RecentWindow THEN RecentWindow ELSE Len(h.recent) + 1
    BY <1>1, <1>4, WindowType
<1> QED  BY <1>1, <1>2, <1>3, <1>4, <1>5

LEMMA NewHopAccounted ==
    ASSUME NEW t \in TTLs
    PROVE  Accounted(NewHop(t))
<1> DEFINE h == NewHop(t)
<1>1. /\ h.received = 0 /\ h.timeouts = 0 /\ h.responders = [a \in Addrs |-> 0]
      /\ h.recent = <<>> /\ h.nat.matched = 0 /\ h.nat.rewritten = 0
      /\ \A k \in FlowIds : /\ h.flows[k].received = 0 /\ h.flows[k].timeouts = 0
                            /\ h.flows[k].responders = [a \in Addrs |-> 0]
    BY DEF NewHop, NoCounts, NewFlow, NewNat
<1> HIDE DEF h
<1>2. IsFiniteSet(Addrs) /\ IsFiniteSet(FlowIds)
    BY HopStatsAssumption
<1>3. SumFunction([a \in Addrs |-> 0]) = 0
    <2> DEFINE z == [a \in Addrs |-> 0]
    <2>1. DOMAIN z = Addrs /\ \A a \in DOMAIN z : z[a] = 0  OBVIOUS
    <2> HIDE DEF z
    <2>2. SumFunction(z) = 0  BY <1>2, <2>1, SumZero
    <2> QED  BY <2>2 DEF z
<1>4. ASSUME NEW a \in Addrs PROVE SumFunction([k \in FlowIds |-> h.flows[k].responders[a]]) = 0
    <2> DEFINE z == [k \in FlowIds |-> h.flows[k].responders[a]]
    <2>1. DOMAIN z = FlowIds /\ \A k \in DOMAIN z : z[k] = 0  BY <1>1
    <2> HIDE DEF z
    <2>2. SumFunction(z) = 0  BY <1>2, <2>1, SumZero
    <2> QED  BY <2>2 DEF z
<1>5. SumFunction([k \in FlowIds |-> h.flows[k].timeouts]) = 0
    <2> DEFINE z == [k \in FlowIds |-> h.flows[k].timeouts]
    <2>1. DOMAIN z = FlowIds /\ \A k \in DOMAIN z : z[k] = 0  BY <1>1
    <2> HIDE DEF z
    <2>2. SumFunction(z) = 0  BY <1>2, <2>1, SumZero
    <2> QED  BY <2>2 DEF z
<1>6. Len(h.recent) = Min({RecentWindow, Completed(h)})
    <2>1. Completed(h) = 0  BY <1>1 DEF Completed
    <2>2. RecentWindow \in Nat \ {0}  BY HopStatsAssumption
    <2>3. Min({RecentWindow, 0}) = 0  BY <2>2, MinOfTwo
    <2> QED  BY <1>1, <2>1, <2>3
<1>7. Accounted(h)
    BY <1>1, <1>3, <1>4, <1>5, <1>6 DEF Accounted
<1> QED  BY <1>7 DEF h

LEMMA ResponseAccounted ==
    ASSUME NEW h \in HopType, NEW g, NEW f \in FlowIds, NEW a \in Addrs, NEW flows,
           Accounted(h), Responded(h, g, f, a, flows),
           g.nat.matched + g.nat.rewritten <= h.nat.matched + h.nat.rewritten + 1
    PROVE  Accounted(g)
<1>1. IsFiniteSet(Addrs) /\ IsFiniteSet(FlowIds)
    BY HopStatsAssumption
<1>2. /\ h.responders \in [Addrs -> Nat] /\ h.flows \in [FlowIds -> FlowType]
      /\ \A k \in FlowIds : h.flows[k].responders \in [Addrs -> Nat] /\ h.flows[k].timeouts \in Nat
    BY DEF HopType, FlowType
<1>3. g.received = SumFunction(g.responders)
    <2>1. SumFunction(g.responders) = SumFunction(h.responders) + 1
        BY <1>1, <1>2, SumBump DEF Responded
    <2> QED  BY <2>1 DEF Accounted, Responded
<1>4. ASSUME NEW b \in Addrs
      PROVE  g.responders[b] = SumFunction([k \in FlowIds |-> g.flows[k].responders[b]])
    <2> DEFINE H == [k \in FlowIds |-> h.flows[k].responders[b]]
               G == [k \in FlowIds |-> g.flows[k].responders[b]]
    <2>1. h.responders[b] = SumFunction(H)
        BY DEF Accounted
    <2>2. H \in [FlowIds -> Nat]
        BY <1>2
    <2>3. \A k \in FlowIds \ {f} : g.flows[k] = h.flows[k]
        BY DEF Responded
    <2>4. g.flows[f].responders = Bump(h.flows[f].responders, a) /\ g.responders = Bump(h.responders, a)
        BY DEF Responded
    <2>5. CASE b = a
        <3>1. g.flows[f].responders[b] = h.flows[f].responders[b] + 1 /\ g.responders[b] = h.responders[b] + 1
            BY <1>2, <2>4, <2>5 DEF Bump
        <3>2. G = Bump(H, f)
            BY <2>3, <3>1 DEF Bump
        <3> HIDE DEF G, H
        <3>3. SumFunction(G) = SumFunction(H) + 1
            BY <1>1, <2>2, <3>2, SumBump
        <3>4. g.responders[b] = SumFunction(G)
            BY <2>1, <3>1, <3>3
        <3> QED  BY <3>4 DEF G
    <2>6. CASE b # a
        <3>1. g.flows[f].responders[b] = h.flows[f].responders[b] /\ g.responders[b] = h.responders[b]
            BY <1>2, <2>4, <2>6 DEF Bump
        <3>2. G = H
            BY <2>3, <3>1
        <3> HIDE DEF G, H
        <3>3. g.responders[b] = SumFunction(G)
            BY <2>1, <3>1, <3>2
        <3> QED  BY <3>3 DEF G
    <2> QED  BY <2>5, <2>6
<1>5. ASSUME NEW k \in FlowIds PROVE g.flows[k].received = SumFunction(g.flows[k].responders)
    <2>1. CASE k = f
        <3>1. /\ g.flows[f].responders = Bump(h.flows[f].responders, a)
              /\ g.flows[f].received = h.flows[f].received + 1
            BY DEF Responded
        <3>2. SumFunction(g.flows[f].responders) = SumFunction(h.flows[f].responders) + 1
            BY <1>1, <1>2, <3>1, SumBump
        <3> QED  BY <2>1, <3>1, <3>2 DEF Accounted
    <2>2. CASE k # f
        BY <2>2 DEF Responded, Accounted
    <2> QED  BY <2>1, <2>2
<1>6. g.timeouts = SumFunction([k \in FlowIds |-> g.flows[k].timeouts])
    <2>1. \A k \in FlowIds : g.flows[k].timeouts = h.flows[k].timeouts  BY DEF Responded
    <2>2. [k \in FlowIds |-> g.flows[k].timeouts] = [k \in FlowIds |-> h.flows[k].timeouts]  BY <2>1
    <2> QED  BY <2>2 DEF Accounted, Responded
<1>7. Len(g.recent) = Min({RecentWindow, Completed(g)})
    <2>1. h.received \in Nat /\ h.timeouts \in Nat  BY DEF HopType
    <2>2. Completed(g) = Completed(h) + 1  BY <2>1 DEF Completed, Responded
    <2>3. Len(h.recent) = Min({RecentWindow, Completed(h)})  BY DEF Accounted
    <2>4. g.recent = KeepNewest(Append(h.recent, TRUE), RecentWindow)  BY DEF Responded
    <2> QED  BY <2>2, <2>3, <2>4, WindowGrows
<1>8. g.nat.matched + g.nat.rewritten <= g.received
    <2>1. /\ h.nat.matched \in Nat /\ h.nat.rewritten \in Nat /\ h.received \in Nat
          /\ g.nat.matched \in Nat /\ g.nat.rewritten \in Nat
        BY DEF HopType, Responded
    <2>2. g.received = h.received + 1  BY DEF Responded
    <2>3. h.nat.matched + h.nat.rewritten <= h.received  BY DEF Accounted
    <2> QED  BY <2>1, <2>2, <2>3
<1> QED  BY <1>3, <1>4, <1>5, <1>6, <1>7, <1>8 DEF Accounted

LEMMA TimeoutAccounted ==
    ASSUME NEW h \in HopType, NEW g, NEW f \in FlowIds, Accounted(h), TimedOutOf(h, g, f)
    PROVE  Accounted(g)
<1>1. IsFiniteSet(FlowIds)
    BY HopStatsAssumption
<1>2. /\ h.flows \in [FlowIds -> FlowType] /\ h.received \in Nat /\ h.timeouts \in Nat
      /\ \A k \in FlowIds : h.flows[k].timeouts \in Nat
    BY DEF HopType, FlowType
<1>3. \A k \in FlowIds : /\ g.flows[k].received = h.flows[k].received
                         /\ g.flows[k].responders = h.flows[k].responders
    BY DEF TimedOutOf
<1>4. ASSUME NEW b \in Addrs
      PROVE  g.responders[b] = SumFunction([k \in FlowIds |-> g.flows[k].responders[b]])
    <2>1. [k \in FlowIds |-> g.flows[k].responders[b]] = [k \in FlowIds |-> h.flows[k].responders[b]]
        BY <1>3
    <2> QED  BY <2>1 DEF TimedOutOf, Accounted
<1>5. g.timeouts = SumFunction([k \in FlowIds |-> g.flows[k].timeouts])
    <2> DEFINE H == [k \in FlowIds |-> h.flows[k].timeouts]
               G == [k \in FlowIds |-> g.flows[k].timeouts]
    <2>1. H \in [FlowIds -> Nat] /\ h.timeouts = SumFunction(H)
        BY <1>2 DEF Accounted
    <2>2. G = Bump(H, f)
        BY DEF TimedOutOf, Bump
    <2> HIDE DEF G, H
    <2>3. SumFunction(G) = SumFunction(H) + 1
        BY <1>1, <2>1, <2>2, SumBump
    <2>4. g.timeouts = SumFunction(G)
        BY <2>1, <2>3 DEF TimedOutOf
    <2> QED  BY <2>4 DEF G
<1>6. Len(g.recent) = Min({RecentWindow, Completed(g)})
    <2>1. Completed(g) = Completed(h) + 1  BY <1>2 DEF Completed, TimedOutOf
    <2>2. Len(h.recent) = Min({RecentWindow, Completed(h)})  BY DEF Accounted
    <2>3. g.recent = KeepNewest(Append(h.recent, FALSE), RecentWindow)  BY DEF TimedOutOf
    <2> QED  BY <2>1, <2>2, <2>3, WindowGrows
<1> QED  BY <1>3, <1>4, <1>5, <1>6 DEF Accounted, TimedOutOf
-----------------------------------------------------------------------------
(* The primary and the route changes of a hop: what FlapTracksPrimary and   *)
(* RouteChangesChain say of each hop.  That a change is later than the one  *)
(* before it needs every change to be no later than the responses counted;  *)
(* that it starts where that one ended needs the last to end at the tracked *)
(* primary, and that no change is shown while the primary moves unnoticed,  *)
(* in the first responses.                                                  *)

Followed(h, flows) ==
    flows = 1 =>
        /\ h.flapPrimary = NoAddr => h.received = 0
        /\ h.flapPrimary # NoAddr =>
            TopCount(h.responders) < h.responders[h.flapPrimary] + PrimaryChangeMargin

Links(c, last, seq) ==
    /\ \A i \in 1..Len(c) : c[i].from # c[i].to /\ c[i].atSeq <= seq
    /\ \A i \in 1..(Len(c) - 1) : c[i].to = c[i + 1].from /\ c[i].atSeq < c[i + 1].atSeq
    /\ Len(c) > 0 => c[Len(c)].to = last

Chained(h) ==
    /\ Len(h.changes) <= MaxRouteChanges
    /\ Links(h.changes, h.flapPrimary, h.received)
    /\ Len(h.changes) > 0 => h.received >= MinResponsesForFlap

\* A chain that is continued, and loses its oldest link or not, is a chain.
LEMMA ChainContinues ==
    ASSUME NEW c \in Seq(ChangeType), NEW last, NEW seq \in Nat, Links(c, last, seq),
           NEW x \in ChangeType, x.from = last, x.from # x.to, x.atSeq = seq + 1
    PROVE  /\ Links(Append(c, x), x.to, seq + 1)
           /\ Links(Tail(Append(c, x)), x.to, seq + 1)
<1> DEFINE d == Append(c, x)
           t == Tail(d)
           n == Len(c)
<1>1. /\ n \in Nat /\ Len(d) = n + 1 /\ d \in Seq(ChangeType)
      /\ \A i \in 1..n : d[i] = c[i]
      /\ d[n + 1] = x
    OBVIOUS
<1>2. /\ Len(t) = n /\ t \in Seq(ChangeType) /\ \A i \in 1..n : t[i] = d[i + 1]
    BY <1>1
<1>3. \A i \in 1..n : c[i].atSeq \in Nat /\ c[i].atSeq <= seq
    <2>1. \A i \in 1..n : c[i] \in ChangeType /\ c[i].atSeq <= seq  BY DEF Links
    <2> QED  BY <2>1 DEF ChangeType
<1> HIDE DEF d, t, n
<1>4. \A i \in 1..(n + 1) : d[i].from # d[i].to /\ d[i].atSeq <= seq + 1
    <2>1. TAKE i \in 1..(n + 1)
    <2>2. CASE i \in 1..n
        <3>1. d[i] = c[i] /\ c[i].from # c[i].to  BY <1>1, <2>2 DEF Links, n
        <3>2. c[i].atSeq \in Nat /\ c[i].atSeq <= seq  BY <1>3, <2>2
        <3>3. c[i].atSeq <= seq + 1  BY <3>2
        <3> QED  BY <3>1, <3>3
    <2>3. CASE i = n + 1
        <3>1. d[i] = x  BY <1>1, <2>3
        <3>2. x.atSeq <= seq + 1  OBVIOUS
        <3> QED  BY <3>1, <3>2
    <2> QED  BY <1>1, <2>1, <2>2, <2>3
<1>5. \A i \in 1..n : d[i].to = d[i + 1].from /\ d[i].atSeq < d[i + 1].atSeq
    <2>1. TAKE i \in 1..n
    <2>2. CASE i = n
        <3>1. d[i] = c[n] /\ d[i + 1] = x /\ n > 0  BY <1>1, <2>2
        <3>2. c[n].to = last /\ c[n].atSeq \in Nat /\ c[n].atSeq <= seq
            BY <1>1, <1>3, <3>1 DEF Links, n
        <3>3. c[n].atSeq < seq + 1  BY <3>2
        <3> QED  BY <3>1, <3>2, <3>3
    <2>3. CASE i # n
        <3>1. i \in 1..(n - 1) /\ i + 1 \in 1..n  BY <1>1, <2>3
        <3>2. d[i] = c[i] /\ d[i + 1] = c[i + 1]  BY <1>1, <3>1
        <3> QED  BY <3>1, <3>2 DEF Links, n
    <2> QED  BY <2>2, <2>3
<1>6. Links(d, x.to, seq + 1)
    <2>1. Len(d) - 1 = n /\ Len(d) = n + 1  BY <1>1
    <2> QED  BY <1>1, <1>4, <1>5, <2>1 DEF Links
<1>7. Links(t, x.to, seq + 1)
    <2>1. ASSUME NEW i \in 1..Len(t) PROVE t[i].from # t[i].to /\ t[i].atSeq <= seq + 1
        <3>1. t[i] = d[i + 1] /\ i + 1 \in 1..(n + 1)  BY <1>1, <1>2
        <3> QED  BY <1>4, <3>1
    <2>2. ASSUME NEW i \in 1..(Len(t) - 1)
          PROVE  t[i].to = t[i + 1].from /\ t[i].atSeq < t[i + 1].atSeq
        <3>1. /\ t[i] = d[i + 1] /\ t[i + 1] = d[(i + 1) + 1] /\ i + 1 \in 1..n
            BY <1>1, <1>2
        <3> QED  BY <1>5, <3>1
    <2>3. Len(t) > 0 => t[Len(t)].to = x.to
        BY <1>1, <1>2
    <2> QED  BY <2>1, <2>2, <2>3 DEF Links
<1> QED  BY <1>6, <1>7 DEF d, t

LEMMA ResponseFollowed ==
    ASSUME NEW h \in HopType, NEW g, NEW f \in FlowIds, NEW a \in Addrs, NEW flows,
           Responded(h, g, f, a, flows)
    PROVE  Followed(g, flows)
<1> SUFFICES ASSUME flows = 1 PROVE Followed(g, flows)
    BY DEF Followed
<1>1. g.flapPrimary = TrackedPrimary(RecordResponse(h, a), h.flapPrimary) /\ g.responders = Bump(h.responders, a)
    BY DEF Responded, ChangeOf
<1> DEFINE r == RecordResponse(h, a)
<1>2. h.responders \in [Addrs -> Nat] /\ h.flapPrimary \in Addrs \cup {NoAddr}
    BY DEF HopType
<1>3. g \in HopType
    BY DEF Responded
<1>4. r.responders = Bump(h.responders, a)
    BY DEF RecordResponse, HopType, Bump
<1>5. g.responders[a] > 0
    BY <1>1, <1>2 DEF Bump
<1>6. TrackedPrimary(r, h.flapPrimary) = TrackedPrimary(g, h.flapPrimary)
    <2> HIDE DEF r
    <2> QED  BY <1>1, <1>4 DEF TrackedPrimary
<1>7. /\ TrackedPrimary(g, h.flapPrimary) \in Addrs
      /\ TopCount(g.responders) < g.responders[TrackedPrimary(g, h.flapPrimary)] + PrimaryChangeMargin
    BY <1>2, <1>3, <1>5, TrackedPrimaryLeads
<1>8. NoAddr \notin Addrs
    BY HopStatsAssumption
<1> QED  BY <1>1, <1>6, <1>7, <1>8 DEF Followed

LEMMA ResponseChained ==
    ASSUME NEW h \in HopType, NEW g, NEW f \in FlowIds, NEW a \in Addrs, NEW flows,
           Responded(h, g, f, a, flows), Chained(h)
    PROVE  Chained(g)
<1>1. /\ h.changes \in Seq(ChangeType) /\ h.received \in Nat /\ h.received + 1 \in Nat
      /\ Len(h.changes) <= MaxRouteChanges /\ MaxRouteChanges \in Nat \ {0}
      /\ Links(h.changes, h.flapPrimary, h.received) /\ g.received = h.received + 1
      /\ g \in HopType
    BY HopStatsAssumption DEF HopType, Chained, Responded
<1>2. \A p : Links(h.changes, p, h.received) => Links(h.changes, p, h.received + 1)
    <2>1. \A i \in 1..Len(h.changes) : h.changes[i].atSeq <= h.received => h.changes[i].atSeq <= h.received + 1
        <3>1. \A i \in 1..Len(h.changes) : h.changes[i].atSeq \in Nat
            <4>1. \A i \in 1..Len(h.changes) : h.changes[i] \in ChangeType  BY <1>1
            <4> QED  BY <4>1 DEF ChangeType
        <3> QED  BY <1>1, <3>1
    <2> QED  BY <2>1 DEF Links
<1>3. CASE flows # 1
    BY <1>1, <1>2, <1>3 DEF Responded, Chained, MinResponsesForFlap
<1>4. CASE flows = 1
    <2> DEFINE x == ChangeOf(h, a)
    <2>1. g.flapPrimary = x.to /\ g.changes = ChangesAfter(h, a)
        BY <1>4 DEF Responded
    <2>2. x.from = h.flapPrimary /\ x.atSeq = h.received + 1
        BY DEF ChangeOf
    <2>3. g.flapPrimary \in Addrs \cup {NoAddr}
        BY <1>1 DEF HopType
    <2>4. CASE h.flapPrimary = NoAddr
        <3>1. g.changes = h.changes  BY <2>1, <2>4 DEF ChangesAfter
        <3>2. Len(h.changes) = 0
            <4>1. SUFFICES ASSUME Len(h.changes) > 0 PROVE FALSE
                BY <1>1
            <4>2. h.changes[Len(h.changes)].to = NoAddr /\ h.changes[Len(h.changes)] \in ChangeType
                BY <1>1, <2>4, <4>1 DEF Links
            <4> QED  BY <4>2, HopStatsAssumption DEF ChangeType
        <3> QED  BY <1>1, <3>1, <3>2 DEF Chained, Links
    <2>5. CASE h.flapPrimary # NoAddr /\ h.flapPrimary = x.to
        <3>1. g.changes = h.changes  BY <2>1, <2>5 DEF ChangesAfter
        <3> QED  BY <1>1, <1>2, <2>1, <2>5, <3>1 DEF Chained, MinResponsesForFlap
    <2>6. CASE h.flapPrimary # NoAddr /\ h.flapPrimary # x.to /\ h.received + 1 >= MinResponsesForFlap
        <3>1. g.changes = KeepNewest(Append(h.changes, x), MaxRouteChanges)
            BY <2>1, <2>6 DEF ChangesAfter
        <3>2. x \in ChangeType
            <4>1. h.flapPrimary \in Addrs /\ g.flapPrimary \in Addrs
                <5>1. h.flapPrimary \in Addrs  BY <2>6 DEF HopType
                <5>2. RecordResponse(h, a).responders = Bump(h.responders, a) /\ h.responders \in [Addrs -> Nat]
                    BY DEF RecordResponse, HopType, Bump
                <5>3. g.responders = Bump(h.responders, a) /\ g.responders[a] > 0
                    BY <5>2 DEF Responded, Bump
                <5>4. TrackedPrimary(RecordResponse(h, a), h.flapPrimary) = TrackedPrimary(g, h.flapPrimary)
                    BY <5>2, <5>3 DEF TrackedPrimary
                <5>5. TrackedPrimary(g, h.flapPrimary) \in Addrs
                    BY <1>1, <5>1, <5>3, TrackedPrimaryLeads
                <5> QED  BY <2>1, <5>1, <5>4, <5>5 DEF ChangeOf
            <4> QED  BY <1>1, <2>1, <2>2, <4>1 DEF ChangeOf, ChangeType
        <3> HIDE DEF x
        <3>3. /\ Links(Append(h.changes, x), x.to, h.received + 1)
              /\ Links(Tail(Append(h.changes, x)), x.to, h.received + 1)
            BY <1>1, <2>2, <2>6, <3>2, ChainContinues
        <3>4. Len(g.changes) <= MaxRouteChanges
            BY <1>1, <3>1, <3>2, WindowType
        <3>5. g.changes \in {Append(h.changes, x), Tail(Append(h.changes, x))}
            BY <3>1 DEF KeepNewest
        <3> QED  BY <1>1, <2>1, <2>6, <3>3, <3>4, <3>5 DEF Chained
    <2>7. CASE h.flapPrimary # NoAddr /\ h.flapPrimary # x.to /\ ~(h.received + 1 >= MinResponsesForFlap)
        <3>1. g.changes = h.changes  BY <2>1, <2>7 DEF ChangesAfter
        <3>2. Len(h.changes) = 0
            <4>1. ~(Len(h.changes) > 0)  BY <1>1, <2>7 DEF Chained, MinResponsesForFlap
            <4> QED  BY <1>1, <4>1
        <3> QED  BY <1>1, <3>1, <3>2 DEF Chained, Links
    <2> QED  BY <2>4, <2>5, <2>6, <2>7
<1> QED  BY <1>3, <1>4
-----------------------------------------------------------------------------
(* What holds of every hop of a reachable session, and what keeps it.       *)

HopInv(h, flows) ==
    /\ h \in HopType
    /\ Accounted(h)
    /\ Followed(h, flows)
    /\ Chained(h)
    /\ ManipInv(h.manip)

\* The windows are within their bounds, as the operators expect.
LEMMA WindowsBounded ==
    ASSUME NEW h, NEW flows, HopInv(h, flows)
    PROVE  Len(h.recent) <= RecentWindow /\ Len(h.changes) <= MaxRouteChanges
<1>1. h \in HopType /\ Len(h.recent) = Min({RecentWindow, Completed(h)})
    BY DEF HopInv, Accounted
<1>2. RecentWindow \in Int /\ Completed(h) \in Int
    BY <1>1, HopStatsAssumption DEF Completed, HopType
<1>3. Min({RecentWindow, Completed(h)}) <= RecentWindow
    BY <1>2, MinOfTwo
<1> QED  BY <1>1, <1>3 DEF HopInv, Chained

\* A new hop has counted nothing.
LEMMA NewHopInv ==
    ASSUME NEW t \in TTLs, NEW flows
    PROVE  HopInv(NewHop(t), flows)
<1>1. NewHop(t) \in HopType /\ Accounted(NewHop(t))
    BY NewHopFields, NewHopAccounted
<1>2. /\ NewHop(t).received = 0 /\ NewHop(t).flapPrimary = NoAddr /\ NewHop(t).changes = <<>>
      /\ NewHop(t).manip = NewManip
    BY DEF NewHop
<1>3. Followed(NewHop(t), flows)
    BY <1>2 DEF Followed
<1>4. Chained(NewHop(t))
    <2>1. Len(NewHop(t).changes) = 0 /\ 0 <= MaxRouteChanges  BY <1>2, HopStatsAssumption
    <2> HIDE DEF NewHop
    <2> QED  BY <2>1 DEF Chained, Links
<1>5. ManipInv(NewHop(t).manip)
    BY <1>2 DEF NewManip, ManipInv
<1> QED  BY <1>1, <1>3, <1>4, <1>5 DEF HopInv

\* The same completed probes, and what was made of them.
Alike(h, g) ==
    /\ g.received = h.received /\ g.timeouts = h.timeouts /\ g.responders = h.responders
    /\ g.recent = h.recent /\ g.changes = h.changes /\ g.flapPrimary = h.flapPrimary
    /\ \A k \in FlowIds : /\ g.flows[k].responders = h.flows[k].responders
                          /\ g.flows[k].timeouts = h.flows[k].timeouts

\* Sending counts nothing that was answered.
LEMMA SentKeeps ==
    ASSUME NEW h, NEW flows, HopInv(h, flows), NEW f \in FlowIds,
           NEW g, g = RecordFlowSent(RecordSent(h), f)
    PROVE  HopInv(g, flows) /\ Alike(h, g) /\ g.rateLimit = h.rateLimit
<1> DEFINE r == RecordSent(h)
<1>1. h \in HopType
    BY DEF HopInv
<1>2. IsSent(h, r)
    BY <1>1, RecordSentFields
<1> HIDE DEF r
<1>a. r \in HopType
    BY <1>2 DEF IsSent
<1>3. IsFlowSent(r, g, f)
    BY <1>a, RecordFlowSentFields DEF r
<1>4. /\ g.received = h.received /\ g.timeouts = h.timeouts /\ g.responders = h.responders
      /\ g.recent = h.recent /\ g.changes = h.changes /\ g.flapPrimary = h.flapPrimary
      /\ g.nat = h.nat /\ g.rateLimit = h.rateLimit /\ g.manip = h.manip
      /\ \A k \in FlowIds : /\ g.flows[k].received = h.flows[k].received
                            /\ g.flows[k].responders = h.flows[k].responders
                            /\ g.flows[k].timeouts = h.flows[k].timeouts
    BY <1>2, <1>3 DEF IsSent, IsFlowSent
<1>5. Accounted(g)
    <2>1. \A a \in Addrs : [k \in FlowIds |-> g.flows[k].responders[a]] = [k \in FlowIds |-> h.flows[k].responders[a]]
        BY <1>4
    <2>2. [k \in FlowIds |-> g.flows[k].timeouts] = [k \in FlowIds |-> h.flows[k].timeouts]
        BY <1>4
    <2>3. Completed(g) = Completed(h)
        BY <1>4 DEF Completed
    <2> QED  BY <1>4, <2>1, <2>2, <2>3 DEF HopInv, Accounted
<1>6. Followed(g, flows) /\ Chained(g) /\ ManipInv(g.manip)
    BY <1>4 DEF HopInv, Followed, Chained
<1>7. HopInv(g, flows)
    BY <1>3, <1>5, <1>6 DEF HopInv, IsFlowSent
<1> QED  BY <1>4, <1>7 DEF Alike

\* So does a response.
LEMMA ResponseKeeps ==
    ASSUME NEW h, NEW p, ProbeOK(p), NEW r, HopInv(h, profile.flows),
           NEW g, g = RespondedHop(h, p, r)
    PROVE  /\ HopInv(g, profile.flows) /\ Responded(h, g, p.flow, p.fate.from, profile.flows)
           /\ g.rateLimit = h.rateLimit
<1>1. /\ h \in HopType /\ Accounted(h) /\ Chained(h) /\ ManipInv(h.manip)
      /\ Len(h.recent) <= RecentWindow /\ Len(h.changes) <= MaxRouteChanges
    BY WindowsBounded DEF HopInv
<1>2. p.flow \in FlowIds /\ p.fate.from \in Addrs
    BY DEF ProbeOK
<1>3. /\ Responded(h, g, p.flow, p.fate.from, profile.flows) /\ ManipInv(g.manip)
      /\ g.rateLimit = h.rateLimit
      /\ g.nat.matched + g.nat.rewritten <= h.nat.matched + h.nat.rewritten + 1
    <2>1. RespondedAndJudged(h, g, p.flow, p.fate.from, profile.flows)
        BY <1>1, RespondedHopIsOne
    <2> QED  BY <2>1 DEF RespondedAndJudged
<1>4. g \in HopType
    BY <1>3 DEF Responded
<1>5. Accounted(g)
    BY <1>1, <1>2, <1>3, ResponseAccounted
<1>6. Followed(g, profile.flows)
    BY <1>1, <1>2, <1>3, ResponseFollowed
<1>7. Chained(g)
    BY <1>1, <1>2, <1>3, ResponseChained
<1>8. HopInv(g, profile.flows)
    BY <1>3, <1>4, <1>5, <1>6, <1>7 DEF HopInv
<1> QED  BY <1>3, <1>8

\* And a timeout.
LEMMA TimeoutKeeps ==
    ASSUME NEW h, NEW flows, HopInv(h, flows), NEW f \in FlowIds,
           NEW g, g = RecordFlowTimeout(RecordTimeout(h), f)
    PROVE  HopInv(g, flows) /\ TimedOutOf(h, g, f)
<1>1. /\ h \in HopType /\ Accounted(h) /\ Len(h.recent) <= RecentWindow
    BY WindowsBounded DEF HopInv
<1>2. TimedOutOf(h, g, f)
    <2>1. TimedOutOnly(h, g, f)  BY <1>1, TimeoutIsOne
    <2> QED  BY <2>1 DEF TimedOutOnly
<1>3. Accounted(g)
    BY <1>1, <1>2, TimeoutAccounted
<1>4. /\ g \in HopType /\ g.received = h.received /\ g.responders = h.responders
      /\ g.manip = h.manip /\ g.flapPrimary = h.flapPrimary /\ g.changes = h.changes
    BY <1>2 DEF TimedOutOf
<1>5. Followed(g, flows) /\ Chained(g) /\ ManipInv(g.manip)
    BY <1>4 DEF HopInv, Followed, Chained
<1>6. HopInv(g, flows)
    BY <1>3, <1>4, <1>5 DEF HopInv
<1> QED  BY <1>2, <1>6

\* The analysis writes a verdict and nothing else.
LEMMA VerdictIsOne ==
    ASSUME NEW hops \in [TTLs -> HopType], NEW t \in TTLs
    PROVE  NewVerdict(hops, t) \in VerdictType
<1> DEFINE old == hops[t].rateLimit
           checks == IF old.checks = MaxChecks THEN MaxChecks ELSE old.checks + 1
<1>1. old \in VerdictType /\ MaxChecks \in 5..255
    BY RateLimitAssumption DEF HopType
<1>2. checks \in 0..MaxChecks /\ 0 \in 0..MaxChecks
    BY <1>1 DEF VerdictType
<1> HIDE DEF checks
<1>3. /\ [suspected |-> TRUE, checks |-> 0] \in VerdictType
      /\ [suspected |-> FALSE, checks |-> 0] \in VerdictType
      /\ [old EXCEPT !.checks = checks] \in VerdictType
    BY <1>1, <1>2 DEF VerdictType
<1>4. NewVerdict(hops, t) \in {[suspected |-> TRUE, checks |-> 0], old, [suspected |-> FALSE, checks |-> 0],
                               [old EXCEPT !.checks = checks]}
    BY DEF NewVerdict, NoRateLimit, checks
<1> QED  BY <1>1, <1>3, <1>4

LEMMA AnalysisKeeps ==
    ASSUME NEW h, NEW flows, HopInv(h, flows), NEW v \in VerdictType,
           NEW g, g = [h EXCEPT !.rateLimit = v]
    PROVE  HopInv(g, flows) /\ Alike(h, g)
<1>1. h \in HopType
    BY DEF HopInv
<1>2. /\ g \in HopType
      /\ g.received = h.received /\ g.timeouts = h.timeouts /\ g.responders = h.responders
      /\ g.recent = h.recent /\ g.changes = h.changes /\ g.flapPrimary = h.flapPrimary
      /\ g.flows = h.flows /\ g.nat = h.nat /\ g.manip = h.manip
    BY <1>1 DEF HopType
<1>3. Accounted(g)
    BY <1>2 DEF HopInv, Accounted, Completed
<1>4. Followed(g, flows) /\ Chained(g) /\ ManipInv(g.manip)
    BY <1>2 DEF HopInv, Followed, Chained
<1>5. HopInv(g, flows)
    BY <1>2, <1>3, <1>4 DEF HopInv
<1> QED  BY <1>2, <1>5 DEF Alike
-----------------------------------------------------------------------------
(* The classification of load balancing.                                    *)

\* A sum of which one term alone is not zero is that term.
LEMMA SumOfOne ==
    ASSUME NEW D, IsFiniteSet(D), NEW fun \in [D -> Nat], NEW a \in D,
           \A x \in D \ {a} : fun[x] = 0
    PROVE  SumFunction(fun) = fun[a]
<1> DEFINE iter == SF!Iter(0, fun, 0, D)
           One(s) == IF a \in s THEN fun[a] ELSE 0
           Bad == {s \in SUBSET D : iter[s] # One(s)}
<1>1. DOMAIN fun = D /\ fun[a] \in Nat
    OBVIOUS
<1>2. /\ SumFunction(fun) = iter[D] /\ iter[{}] = 0
      /\ \A s \in SUBSET D : s # {} => AnyOf(s) \in s /\ iter[s] = fun[AnyOf(s)] + iter[s \ {AnyOf(s)}]
    BY <1>1, SumUnfolds
<1> HIDE DEF iter
<1> SUFFICES ASSUME Bad # {} PROVE FALSE
    BY <1>2
<1>3. PICK s \in Bad : \A x \in s : s \ {x} \notin Bad
    <2>1. Bad \in SUBSET (SUBSET D)  OBVIOUS
    <2> HIDE DEF Bad
    <2> QED  BY <2>1, SmallestCounterexample
<1>4. s # {} /\ s \in SUBSET D /\ AnyOf(s) \in s
    <2>1. s \in SUBSET D /\ iter[s] # One(s)  BY <1>3
    <2>2. ASSUME s = {} PROVE FALSE
        <3>1. iter[s] = 0 /\ One(s) = 0  BY <1>2, <2>2
        <3> HIDE DEF Bad, One
        <3> QED  BY <2>1, <3>1
    <2> QED  BY <1>2, <2>1, <2>2
<1> DEFINE c == AnyOf(s)
<1>5. iter[s \ {c}] = One(s \ {c})
    BY <1>3, <1>4
<1>6. iter[s] = fun[c] + iter[s \ {c}]
    BY <1>2, <1>4
<1>7. iter[s] # One(s)
    BY <1>3
<1>8. c \in s /\ c \in D
    BY <1>4
<1> HIDE DEF c, Bad
<1>9. CASE c = a
    <2>1. One(s) = fun[a] /\ One(s \ {c}) = 0  BY <1>8, <1>9
    <2> QED  BY <1>1, <1>5, <1>6, <1>7, <1>9, <2>1
<1>10. CASE c # a
    <2>1. fun[c] = 0  BY <1>8, <1>10
    <2>2. One(s \ {c}) = One(s) /\ One(s) \in Nat  BY <1>1, <1>10
    <2> HIDE DEF One
    <2> QED  BY <1>5, <1>6, <1>7, <2>1, <2>2
<1> QED  BY <1>9, <1>10

\* The product over some flows, as RatiosLow folds it.
Multiplied(c, x, rest) == x * rest

PF == INSTANCE FoldTheory WITH Op <- Multiplied, Choice <- AnyOf

Product(fun, S) == FoldFunctionOnSet(LAMBDA a, b : a * b, 1, fun, S)

LEMMA ProductFold ==
    ASSUME NEW fun, NEW D, NEW one, PF!IsFiniteSet(D), PF!Chooses(D)
    PROVE  /\ PF!Iter(one, fun, one, D)[{}] = one
           /\ \A s \in SUBSET D : s # {} =>
                PF!Iter(one, fun, one, D)[s] = PF!Step(one, fun, AnyOf(s), PF!Iter(one, fun, one, D)[s \ {AnyOf(s)}])
<1> QED  BY PF!Unfolds

\* iter[s] is the product over s, for every part s of S.
Multiplies(iter, fun, S) ==
    /\ iter[{}] = 1
    /\ \A s \in SUBSET S : s # {} => AnyOf(s) \in s /\ iter[s] = fun[AnyOf(s)] * iter[s \ {AnyOf(s)}]

LEMMA ProductUnfolds ==
    ASSUME NEW fun, NEW S, IsFiniteSet(S)
    PROVE  \E iter : Product(fun, S) = iter[S] /\ Multiplies(iter, fun, S)
<1> DEFINE one == 1
           g == PF!Iter(one, fun, one, S)
<1>1. Product(fun, S) = g[S]
    BY Zenon DEF Product, FoldFunctionOnSet, MapThenFoldSet, PF!Iter, PF!Recursion, PF!Step, Multiplied, AnyOf
<1>2. PF!Chooses(S) /\ PF!IsFiniteSet(S)
    BY DEF PF!Chooses, AnyOf, PF!IsFiniteSet, IsFiniteSet
<1> HIDE DEF one
<1>3. g[{}] = one /\ \A s \in SUBSET S : s # {} => g[s] = PF!Step(one, fun, AnyOf(s), g[s \ {AnyOf(s)}])
    BY <1>2, ProductFold
<1> HIDE DEF g
<1>4. \A s \in SUBSET S : s # {} => AnyOf(s) \in s  BY DEF AnyOf
<1>5. Multiplies(g, fun, S)
    BY <1>3, <1>4 DEF one, PF!Step, Multiplied, Multiplies
<1> QED  BY <1>1, <1>5

\* Each factor divides the product.
LEMMA ProductDivides ==
    ASSUME NEW S, IsFiniteSet(S), NEW fun, \A x \in S : fun[x] \in Nat
    PROVE  /\ Product(fun, S) \in Nat
           /\ \A x \in S : \E q \in Nat : Product(fun, S) = fun[x] * q
<1>1. PICK iter : Product(fun, S) = iter[S] /\ Multiplies(iter, fun, S)
    BY ProductUnfolds
<1> DEFINE Divides(s) == iter[s] \in Nat /\ \A x \in s : \E q \in Nat : iter[s] = fun[x] * q
           Bad == {s \in SUBSET S : ~Divides(s)}
<1> SUFFICES ASSUME Bad # {} PROVE FALSE
    <2>1. CASE Bad = {}
        <3>1. Divides(S)  BY <2>1
        <3> QED  BY <1>1, <3>1
    <2> QED  BY <2>1
<1>2. PICK s \in Bad : \A x \in s : s \ {x} \notin Bad
    <2>1. Bad \in SUBSET (SUBSET S)  BY DEF Bad
    <2> HIDE DEF Bad
    <2> QED  BY <2>1, SmallestCounterexample
<1>3. s # {} /\ s \in SUBSET S /\ AnyOf(s) \in s /\ ~Divides(s)
    <2>1. s \in SUBSET S /\ ~Divides(s)  BY <1>2
    <2>2. ASSUME s = {} PROVE FALSE
        <3>1. Divides(s)  BY <1>1, <2>2 DEF Multiplies
        <3> HIDE DEF Bad, Divides
        <3> QED  BY <2>1, <3>1
    <2> HIDE DEF Bad, Divides
    <2> QED  BY <1>1, <2>1, <2>2 DEF Multiplies
<1> DEFINE c == AnyOf(s)
           rest == iter[s \ {c}]
<1>4. Divides(s \ {c})
    <2>1. s \ {c} \in SUBSET S /\ s \ {c} \notin Bad  BY <1>2, <1>3
    <2> HIDE DEF Divides, c
    <2> QED  BY <2>1
<1>5. rest \in Nat /\ \A x \in s \ {c} : \E q \in Nat : rest = fun[x] * q
    BY <1>4
<1>6. iter[s] = fun[c] * rest /\ fun[c] \in Nat /\ c \in s
    BY <1>1, <1>3 DEF Multiplies
<1> HIDE DEF rest, c, Bad
<1>7. \A m, n \in Nat : m * n \in Nat
    OBVIOUS
<1>8. iter[s] \in Nat
    BY <1>5, <1>6, <1>7
<1>9. ASSUME NEW x \in s PROVE \E q \in Nat : iter[s] = fun[x] * q
    <2>1. CASE x = c
        BY <1>5, <1>6, <2>1
    <2>2. CASE x # c
        <3>1. PICK q \in Nat : rest = fun[x] * q  BY <1>5, <2>2
        <3>2. fun[x] \in Nat  BY <1>3
        <3>3. \A k, m, n \in Nat : k * (m * n) = m * (k * n)  OBVIOUS
        <3>4. iter[s] = fun[x] * (fun[c] * q)  BY <1>6, <3>1, <3>2, <3>3
        <3> QED  BY <1>6, <1>7, <3>4
    <2> QED  BY <2>1, <2>2
<1> QED  BY <1>3, <1>8, <1>9

\* A quotient of naturals times its divisor.
LEMMA ExactQuotient ==
    ASSUME NEW r \in Nat \ {0}, NEW q \in Nat
    PROVE  (r * q) \div r = q
<1> QED  OBVIOUS

\* The sum of the flows' shares of a product c, as RatiosLow folds it.
Shared(c, flow, rest) == TopCount(flow.responders) * (c \div flow.received) + rest

HF == INSTANCE FoldTheory WITH Op <- Shared, Choice <- AnyOf

LEMMA ShareFold ==
    ASSUME NEW flows, NEW D, NEW c, NEW base, HF!IsFiniteSet(D), HF!Chooses(D)
    PROVE  /\ HF!Iter(c, flows, base, D)[{}] = base
           /\ \A s \in SUBSET D : s # {} =>
                HF!Iter(c, flows, base, D)[s] = HF!Step(c, flows, AnyOf(s), HF!Iter(c, flows, base, D)[s \ {AnyOf(s)}])
<1> QED  BY HF!Unfolds

\* iter[s] is the sum over s of shares that are each the whole of c.
AddsUp(iter, c, S) ==
    /\ iter[{}] = 0
    /\ \A s \in SUBSET S : s # {} => AnyOf(s) \in s /\ iter[s] = c + iter[s \ {AnyOf(s)}]

LEMMA SharesUnfold ==
    ASSUME NEW h, NEW S, IsFiniteSet(S), NEW c,
           c = Product([f \in FlowIds |-> h.flows[f].received], S),
           \A f \in S : TopCount(h.flows[f].responders) * (c \div h.flows[f].received) = c
    PROVE  \E iter : /\ AddsUp(iter, c, S)
                     /\ RatiosLow(h, S) <=> 10 * iter[S] < 7 * Cardinality(S) * c
<1> DEFINE base == 0
           g == HF!Iter(c, h.flows, base, S)
<1>1. RatiosLow(h, S) <=> 10 * g[S] < 7 * Cardinality(S) * c
    <2> DEFINE prod     == Product([f \in FlowIds |-> h.flows[f].received], S)
               share(f) == TopCount(h.flows[f].responders) * (prod \div h.flows[f].received)
    <2>1. RatiosLow(h, S) <=> 10 * MapThenSumSet(share, S) < 7 * Cardinality(S) * prod
        BY ZenonT(60) DEF RatiosLow, Product
    <2> DEFINE sum == HF!Iter(prod, h.flows, base, S)[S]
    <2>2. MapThenSumSet(share, S) = sum
        BY ZenonT(60) DEF MapThenSumSet, MapThenFoldSet, HF!Iter, HF!Recursion, HF!Step, Shared, AnyOf
    <2>3. RatiosLow(h, S) <=> 10 * sum < 7 * Cardinality(S) * prod
        <3> HIDE DEF sum, prod
        <3> QED  BY <2>1, <2>2, ZenonT(60)
    <2>4. prod = c
        OBVIOUS
    <2> HIDE DEF prod
    <2> QED  BY <2>3, <2>4
<1> HIDE DEF base
<1>2. HF!Chooses(S) /\ HF!IsFiniteSet(S)
    BY DEF HF!Chooses, AnyOf, HF!IsFiniteSet, IsFiniteSet
<1>3. /\ g[{}] = base
      /\ \A s \in SUBSET S : s # {} => g[s] = HF!Step(c, h.flows, AnyOf(s), g[s \ {AnyOf(s)}])
    BY <1>2, ShareFold
<1> HIDE DEF g
<1>4. \A s \in SUBSET S : s # {} => AnyOf(s) \in s  BY DEF AnyOf
<1>5. ASSUME NEW s \in SUBSET S, s # {}
      PROVE  g[s] = c + g[s \ {AnyOf(s)}]
    <2>1. g[s] = Shared(c, h.flows[AnyOf(s)], g[s \ {AnyOf(s)}])  BY <1>3, <1>5 DEF HF!Step
    <2>2. AnyOf(s) \in S  BY <1>4, <1>5
    <2> DEFINE f == AnyOf(s)
    <2> HIDE DEF f
    <2>3. TopCount(h.flows[f].responders) * (c \div h.flows[f].received) = c  BY <2>2 DEF f
    <2>4. g[s] = TopCount(h.flows[f].responders) * (c \div h.flows[f].received) + g[s \ {f}]
        BY <2>1, Zenon DEF f, Shared
    <2> QED  BY <2>3, <2>4 DEF f
<1>6. AddsUp(g, c, S)
    BY <1>3, <1>4, <1>5 DEF AddsUp, base
<1> QED  BY <1>1, <1>6

LEMMA AddsUpTo ==
    ASSUME NEW S, IsFiniteSet(S), NEW c \in Nat, NEW iter, AddsUp(iter, c, S)
    PROVE  iter[S] = Cardinality(S) * c
<1> DEFINE Bad == {s \in SUBSET S : iter[s] # Cardinality(s) * c}
<1> SUFFICES ASSUME Bad # {} PROVE FALSE
    OBVIOUS
<1>1. PICK s \in Bad : \A x \in s : s \ {x} \notin Bad
    <2>1. Bad \in SUBSET (SUBSET S)  OBVIOUS
    <2> HIDE DEF Bad
    <2> QED  BY <2>1, SmallestCounterexample
<1>2. s \in SUBSET S /\ iter[s] # Cardinality(s) * c
    BY <1>1
<1>3. s # {}
    <2>1. SUFFICES ASSUME s = {} PROVE FALSE
        OBVIOUS
    <2>2. iter[s] = 0 /\ Cardinality(s) = 0  BY <2>1, FS_EmptySet DEF AddsUp
    <2>3. 0 * c = 0  OBVIOUS
    <2> HIDE DEF Bad
    <2> QED  BY <1>2, <2>2, <2>3
<1> DEFINE x == AnyOf(s)
<1>4. x \in s /\ iter[s] = c + iter[s \ {x}]
    BY <1>2, <1>3 DEF AddsUp
<1>5. iter[s \ {x}] = Cardinality(s \ {x}) * c
    <2> HIDE DEF x
    <2> QED  BY <1>1, <1>2, <1>4
<1>6. Cardinality(s) \in Nat /\ Cardinality(s \ {x}) = Cardinality(s) - 1
    <2> HIDE DEF x, Bad
    <2>1. IsFiniteSet(s)  BY <1>2, FS_Subset
    <2> QED  BY <1>4, <2>1, FS_CardinalityType, FS_RemoveElement
<1>7. \A n \in Int : c + (n - 1) * c = n * c
    OBVIOUS
<1> HIDE DEF x, Bad
<1> QED  BY <1>2, <1>4, <1>5, <1>6, <1>7

\* Flows with one responder each are never low.
LEMMA PinnedNotLow ==
    ASSUME NEW h \in HopType, NEW S \in SUBSET FlowIds,
           \A f \in S : h.flows[f].received > 0 /\ TopCount(h.flows[f].responders) = h.flows[f].received
    PROVE  ~RatiosLow(h, S)
<1> DEFINE fun == [f \in FlowIds |-> h.flows[f].received]
           c   == Product(fun, S)
<1>1. IsFiniteSet(S)
    BY HopStatsAssumption, FS_Subset
<1>2. \A f \in S : fun[f] \in Nat \ {0} /\ fun[f] = h.flows[f].received
    BY DEF HopType, FlowType
<1>3. c \in Nat /\ \A f \in S : \E q \in Nat : c = fun[f] * q
    <2> HIDE DEF fun
    <2> QED  BY <1>1, <1>2, ProductDivides
<1>4. ASSUME NEW f \in S
      PROVE  TopCount(h.flows[f].responders) * (c \div h.flows[f].received) = c
    <2> HIDE DEF fun, c
    <2>1. PICK q \in Nat : c = fun[f] * q  BY <1>3
    <2>2. fun[f] \in Nat \ {0} /\ (fun[f] * q) \div fun[f] = q  BY <1>2, ExactQuotient
    <2>3. TopCount(h.flows[f].responders) = fun[f] /\ h.flows[f].received = fun[f]  BY <1>2
    <2> QED  BY <2>1, <2>2, <2>3
<1>5. PICK iter : AddsUp(iter, c, S) /\ (RatiosLow(h, S) <=> 10 * iter[S] < 7 * Cardinality(S) * c)
    BY <1>1, <1>4, SharesUnfold
<1> HIDE DEF c, fun
<1>6. iter[S] = Cardinality(S) * c
    BY <1>1, <1>3, <1>5, AddsUpTo
<1>7. Cardinality(S) \in Nat
    BY <1>1, FS_CardinalityType
<1>8. \A m, n \in Nat : ~(10 * (m * n) < 7 * m * n)
    <2> SUFFICES ASSUME NEW m \in Nat, NEW n \in Nat PROVE ~(10 * (m * n) < 7 * m * n)
        OBVIOUS
    <2>1. PICK k \in Nat : k = m * n  OBVIOUS
    <2>2. 7 * m * n = 7 * k  BY <2>1
    <2> QED  BY <2>1, <2>2
<1> QED  BY <1>3, <1>5, <1>6, <1>7, <1>8

\* The addresses that responded on a flow.
FlowResponders(h, f) == Responders(h.flows[f].responders)

LEMMA SumPositive ==
    ASSUME NEW D, IsFiniteSet(D), NEW fun \in [D -> Nat], SumFunction(fun) > 0
    PROVE  \E x \in D : fun[x] > 0
<1> SUFFICES ASSUME \A x \in D : ~(fun[x] > 0) PROVE FALSE
    OBVIOUS
<1>1. DOMAIN fun = D /\ \A x \in D : fun[x] = 0
    OBVIOUS
<1>2. SumFunction(fun) = 0
    BY <1>1, SumZero
<1> QED  BY <1>2

\* A flow with one responder: it answered everything, and it alone leads.
LEMMA PinnedFlow ==
    ASSUME NEW h \in HopType, Accounted(h), NEW f \in FlowIds, h.flows[f].received > 0,
           Cardinality(FlowResponders(h, f)) = 1
    PROVE  \E a \in Addrs : /\ FlowResponders(h, f) = {a} /\ Leaders(h.flows[f].responders) = {a}
                            /\ TopCount(h.flows[f].responders) = h.flows[f].received
<1> DEFINE counts == h.flows[f].responders
<1>1. counts \in [Addrs -> Nat] /\ h.flows[f].received = SumFunction(counts)
    BY DEF HopType, FlowType, Accounted
<1> HIDE DEF counts
<1>2. IsFiniteSet(Addrs)
    BY HopStatsAssumption
<1>3. PICK a : Responders(counts) = {a}
    <2>1. IsFiniteSet(Responders(counts))  BY <1>2, FS_Subset DEF Responders
    <2>2. Cardinality(Responders(counts)) = 1  BY DEF FlowResponders, counts
    <2> QED  BY <2>1, <2>2, FS_Singleton
<1>4. a \in Addrs /\ counts[a] > 0 /\ \A x \in Addrs \ {a} : counts[x] = 0
    <2>1. \A x \in Addrs : counts[x] \in Nat /\ (x = a <=> counts[x] > 0)  BY <1>1, <1>3 DEF Responders
    <2>2. a \in Addrs  BY <1>3 DEF Responders
    <2> QED  BY <2>1, <2>2
<1>5. SumFunction(counts) = counts[a]
    BY <1>1, <1>2, <1>4, SumOfOne
<1>6. TopCount(counts) = counts[a]
    <2>1. /\ TopCount(counts) \in Nat /\ counts[a] <= TopCount(counts)
          /\ \E b \in Addrs : counts[b] = TopCount(counts)
        BY <1>1, <1>4, TopCountIsMax
    <2>2. counts[a] \in Nat  BY <1>1, <1>4
    <2> QED  BY <1>4, <2>1, <2>2
<1>7. Leaders(counts) = {a}
    BY <1>4, <1>6 DEF Leaders
<1> QED  BY <1>1, <1>3, <1>4, <1>5, <1>6, <1>7 DEF counts, FlowResponders

\* A flow that received has a responder, and the hop has that responder too.
LEMMA FlowRespondersShow ==
    ASSUME NEW h \in HopType, Accounted(h)
    PROVE  /\ \A f \in FlowIds : FlowResponders(h, f) \subseteq Responders(h.responders)
           /\ \A a \in Responders(h.responders) : \E f \in ActiveFlows(h) : a \in FlowResponders(h, f)
<1> DEFINE of(a) == [k \in FlowIds |-> h.flows[k].responders[a]]
<1>1. IsFiniteSet(FlowIds) /\ IsFiniteSet(Addrs)
    BY HopStatsAssumption
<1>2. ASSUME NEW a \in Addrs
      PROVE  of(a) \in [FlowIds -> Nat] /\ h.responders[a] = SumFunction(of(a)) /\ h.responders[a] \in Nat
    BY DEF HopType, FlowType, Accounted
<1>3. ASSUME NEW f \in FlowIds, NEW a \in FlowResponders(h, f)
      PROVE  a \in Responders(h.responders)
    <2>1. a \in Addrs /\ of(a)[f] > 0  BY <1>3 DEF FlowResponders, Responders
    <2> HIDE DEF of
    <2>2. of(a)[f] <= SumFunction(of(a)) /\ of(a)[f] \in Nat  BY <1>1, <1>2, <2>1, SumNat
    <2>3. h.responders[a] > 0  BY <1>2, <2>1, <2>2
    <2> QED  BY <2>1, <2>3 DEF Responders
<1>4. ASSUME NEW a \in Responders(h.responders)
      PROVE  \E f \in ActiveFlows(h) : a \in FlowResponders(h, f)
    <2>1. a \in Addrs /\ h.responders[a] > 0  BY DEF Responders
    <2>2. PICK f \in FlowIds : of(a)[f] > 0
        <3> HIDE DEF of
        <3> QED  BY <1>1, <1>2, <2>1, SumPositive
    <2> DEFINE counts == h.flows[f].responders
    <2>3. /\ counts \in [Addrs -> Nat] /\ counts[a] > 0
          /\ h.flows[f].received = SumFunction(counts)
        BY <2>2 DEF HopType, FlowType, Accounted
    <2> HIDE DEF counts, of
    <2>4. h.flows[f].received > 0
        <3>1. SumFunction(counts) \in Nat /\ counts[a] <= SumFunction(counts)  BY <1>1, <2>1, <2>3, SumNat
        <3>2. counts[a] \in Nat  BY <2>1, <2>3
        <3> QED  BY <2>3, <3>1, <3>2
    <2>5. a \in FlowResponders(h, f)  BY <2>1, <2>3 DEF FlowResponders, Responders, counts
    <2> QED  BY <2>4, <2>5 DEF ActiveFlows
<1> QED  BY <1>3, <1>4

\* Every active flow keeps to one responder.
Pinned(h) == \A f \in ActiveFlows(h) : Cardinality(FlowResponders(h, f)) = 1

\* The primaries of pinned flows differ just when the hop has several responders.
LEMMA PinnedSpread ==
    ASSUME NEW h \in HopType, Accounted(h), Pinned(h), ActiveFlows(h) # {}
    PROVE  Spread(h) = {Cardinality(Responders(h.responders)) > 1}
<1> DEFINE leads(f) == Leaders(h.flows[f].responders)
<1>1. \A f \in ActiveFlows(h) : \E a \in Addrs : FlowResponders(h, f) = {a} /\ leads(f) = {a}
    BY PinnedFlow DEF Pinned, ActiveFlows
<1>2. /\ \A f \in ActiveFlows(h) : FlowResponders(h, f) \subseteq Responders(h.responders)
      /\ \A a \in Responders(h.responders) : \E f \in ActiveFlows(h) : a \in FlowResponders(h, f)
    BY FlowRespondersShow DEF ActiveFlows
<1> DEFINE all == Responders(h.responders)
           same == \E a \in Addrs : \A f \in ActiveFlows(h) : a \in leads(f)
           apart == \E f, g \in ActiveFlows(h) : \E a \in leads(f), b \in leads(g) : a # b
<1>3. Spread(h) = (IF same THEN {FALSE} ELSE {}) \cup (IF apart THEN {TRUE} ELSE {})
    BY Zenon DEF Spread
<1> HIDE DEF leads
<1>4. IsFiniteSet(all) /\ all # {}
    <2>1. all # {}  BY <1>1, <1>2
    <2> QED  BY <2>1, HopStatsAssumption, FS_Subset DEF Responders
<1> HIDE DEF all
<1>5. CASE \E a \in all : all = {a}
    <2>1. PICK a \in all : all = {a}  BY <1>5
    <2>2. Cardinality(all) = 1  BY <2>1, FS_Singleton
    <2>3. \A f \in ActiveFlows(h) : leads(f) = {a} /\ a \in Addrs  BY <1>1, <1>2, <2>1 DEF all
    <2>4. same /\ ~apart  BY <2>3
    <2> HIDE DEF same, apart
    <2>5. Spread(h) = {FALSE} /\ (Cardinality(all) > 1) = FALSE  BY <1>3, <2>2, <2>4
    <2> QED  BY <2>5 DEF all
<1>6. CASE \A a \in all : all # {a}
    <2>1. PICK a \in all, b \in all : a # b  BY <1>4, <1>6
    <2>2. PICK f \in ActiveFlows(h), g \in ActiveFlows(h) : a \in FlowResponders(h, f) /\ b \in FlowResponders(h, g)
        BY <1>2 DEF all
    <2>3. leads(f) = {a} /\ leads(g) = {b}  BY <1>1, <2>2
    <2>4. apart /\ ~same  BY <2>1, <2>2, <2>3
    <2>5. Cardinality(all) > 1
        <3>1. Cardinality(all) \in Nat  BY <1>4, FS_CardinalityType
        <3>2. Cardinality(all) # 0  BY <1>4, FS_EmptySet
        <3>3. Cardinality(all) # 1  BY <1>4, <1>6, FS_Singleton
        <3> QED  BY <3>1, <3>2, <3>3
    <2> HIDE DEF same, apart
    <2>6. Spread(h) = {TRUE} /\ (Cardinality(all) > 1) = TRUE  BY <1>3, <2>4, <2>5
    <2> QED  BY <2>6 DEF all
<1> QED  BY <1>5, <1>6

\* Pinned flows, two of them well sampled, are classified by their primaries.
LEMMA HopEcmpSettled ==
    ASSUME NEW h \in HopType, Accounted(h), Pinned(h), Cardinality(SampledFlows(h)) >= 2
    PROVE  EcmpKinds(h) = {IF Cardinality(Responders(h.responders)) > 1 THEN "PerFlow" ELSE "None"}
<1> DEFINE several == Cardinality(Responders(h.responders)) > 1
<1>1. SampledFlows(h) \subseteq ActiveFlows(h) /\ SampledFlows(h) \subseteq FlowIds
    BY DEF SampledFlows, ActiveFlows, HopType, FlowType, MinFlowResponsesForClassification
<1>2. ActiveFlows(h) # {}
    <2>1. SampledFlows(h) # {}
        <3>1. Cardinality({}) = 0  BY FS_EmptySet
        <3> QED  BY <3>1
    <2> QED  BY <1>1, <2>1
<1>3. Spread(h) = {several}
    BY <1>2, PinnedSpread
<1>4. ~RatiosLow(h, SampledFlows(h))
    <2>1. \A f \in SampledFlows(h) :
            h.flows[f].received > 0 /\ TopCount(h.flows[f].responders) = h.flows[f].received
        <3>1. \A f \in ActiveFlows(h) : f \in FlowIds /\ h.flows[f].received > 0  BY DEF ActiveFlows
        <3>2. \A f \in ActiveFlows(h) : Cardinality(FlowResponders(h, f)) = 1  BY DEF Pinned
        <3> QED  BY <1>1, <3>1, <3>2, PinnedFlow
    <2> QED  BY <1>1, <2>1, PinnedNotLow
<1> DEFINE many == Cardinality(SampledFlows(h)) >= 2
           perPacket(s) == /\ several
                           /\ \/ many /\ RatiosLow(h, SampledFlows(h))
                              \/ ~(many /\ s) /\ h.received >= MinResponsesForPerPacket /\ HopRatioLow(h)
           kind(s) == IF perPacket(s) THEN "PerPacket" ELSE IF s THEN "PerFlow" ELSE "None"
<1>5. EcmpKinds(h) = {kind(s) : s \in Spread(h)}
    BY Zenon DEF EcmpKinds
<1>6. EcmpKinds(h) = {kind(several)}
    <2> HIDE DEF kind, several
    <2> QED  BY <1>3, <1>5
<1>7. ~perPacket(several)
    BY <1>4
<1>8. kind(several) = IF several THEN "PerFlow" ELSE "None"
    <2> HIDE DEF perPacket, several
    <2> QED  BY <1>7
<1> QED  BY <1>6, <1>8
=============================================================================
