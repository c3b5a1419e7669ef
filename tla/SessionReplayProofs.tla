------------------------- MODULE SessionReplayProofs -------------------------
(***************************************************************************)
(* Proofs about the log of SessionStats: replaying it rebuilds the hops of *)
(* the live session and knows the destination that session knew.  Every    *)
(* event is logged with the update it stands for, so that the replay of a  *)
(* log that grows by an event (ReplayAppends) makes the same step as the   *)
(* live session; that the two stay alike needs what a step does to depend  *)
(* on nothing but what is alike in them.                                   *)
(***************************************************************************)
EXTENDS SessionStatsProofs

-----------------------------------------------------------------------------
(* One step of a hop, live and replayed.                                    *)

\* The parts of a hop that its next response depends on.
Bounded(h) ==
    h \in HopType /\ Len(h.recent) <= RecentWindow /\ Len(h.changes) <= MaxRouteChanges

\* What a response makes of the primary depends on the counts and the primary.
LEMMA SameChange ==
    ASSUME NEW l \in HopType, NEW h \in HopType, NEW a \in Addrs,
           l.received = h.received, l.responders = h.responders, l.flapPrimary = h.flapPrimary
    PROVE  ChangeOf(l, a) = ChangeOf(h, a)
<1>1. RecordResponse(l, a).responders = RecordResponse(h, a).responders
    BY DEF RecordResponse, HopType
<1>2. TrackedPrimary(RecordResponse(l, a), l.flapPrimary)
        = TrackedPrimary(RecordResponse(h, a), h.flapPrimary)
    <2> DEFINE x == RecordResponse(l, a)
               y == RecordResponse(h, a)
    <2>1. x.responders = y.responders  BY <1>1
    <2> HIDE DEF x, y
    <2>2. TrackedPrimary(x, h.flapPrimary) = TrackedPrimary(y, h.flapPrimary)
        BY <2>1 DEF TrackedPrimary
    <2> QED  BY <2>2 DEF x, y
<1> QED  BY <1>2 DEF ChangeOf

\* Hops that are alike stay so.
LEMMA AlikeResponded ==
    ASSUME NEW l \in HopType, NEW h \in HopType, Alike(l, h),
           NEW f \in FlowIds, NEW a \in Addrs, NEW flows,
           NEW l2, Responded(l, l2, f, a, flows), NEW h2, Responded(h, h2, f, a, flows)
    PROVE  Alike(l2, h2)
<1>1. ChangeOf(l, a) = ChangeOf(h, a)
    BY SameChange DEF Alike
<1>2. ChangesAfter(l, a) = ChangesAfter(h, a)
    BY <1>1 DEF ChangesAfter, Alike
<1>3. /\ h2.received = l2.received /\ h2.timeouts = l2.timeouts /\ h2.responders = l2.responders
      /\ h2.recent = l2.recent
    BY DEF Alike, Responded
<1>4. h2.changes = l2.changes /\ h2.flapPrimary = l2.flapPrimary
    BY <1>1, <1>2 DEF Alike, Responded
<1>5. ASSUME NEW k \in FlowIds
      PROVE  h2.flows[k].responders = l2.flows[k].responders /\ h2.flows[k].timeouts = l2.flows[k].timeouts
    <2>1. CASE k = f  BY <2>1 DEF Alike, Responded
    <2>2. CASE k # f
        <3>1. h2.flows[k] = h.flows[k] /\ l2.flows[k] = l.flows[k]  BY <2>2 DEF Responded
        <3> QED  BY <3>1 DEF Alike
    <2> QED  BY <2>1, <2>2
<1> QED  BY <1>3, <1>4, <1>5 DEF Alike

LEMMA AlikeTimedOut ==
    ASSUME NEW l \in HopType, NEW h \in HopType, Alike(l, h), NEW f \in FlowIds,
           NEW l2, TimedOutOf(l, l2, f), NEW h2, TimedOutOf(h, h2, f)
    PROVE  Alike(l2, h2)
<1>1. /\ h2.received = l2.received /\ h2.timeouts = l2.timeouts /\ h2.responders = l2.responders
      /\ h2.recent = l2.recent /\ h2.changes = l2.changes /\ h2.flapPrimary = l2.flapPrimary
    BY DEF Alike, TimedOutOf
<1>2. ASSUME NEW k \in FlowIds
      PROVE  h2.flows[k].responders = l2.flows[k].responders /\ h2.flows[k].timeouts = l2.flows[k].timeouts
    <2>1. CASE k = f  BY <2>1 DEF Alike, TimedOutOf
    <2>2. CASE k # f
        <3>1. h2.flows[k] = h.flows[k] /\ l2.flows[k] = l.flows[k]  BY <2>2 DEF TimedOutOf
        <3> QED  BY <3>1 DEF Alike
    <2> QED  BY <2>1, <2>2
<1> QED  BY <1>1, <1>2 DEF Alike

LEMMA RespondedBounded ==
    ASSUME NEW h, Bounded(h), NEW f, NEW a, NEW flows, NEW g, Responded(h, g, f, a, flows)
    PROVE  Bounded(g)
<1>1. /\ h.recent \in Seq(BOOLEAN) /\ h.changes \in Seq(ChangeType) /\ g \in HopType
      /\ Len(h.recent) <= RecentWindow /\ Len(h.changes) <= MaxRouteChanges
    BY DEF Bounded, HopType, Responded
<1>2. Len(g.recent) <= RecentWindow
    <2>1. g.recent = KeepNewest(Append(h.recent, TRUE), RecentWindow)  BY DEF Responded
    <2> DEFINE w == h.recent
               n == RecentWindow
    <2>2. w \in Seq(BOOLEAN) /\ Len(w) <= n /\ n \in Nat \ {0} /\ TRUE \in BOOLEAN
        BY <1>1, HopStatsAssumption
    <2> HIDE DEF w, n
    <2>3. Len(KeepNewest(Append(w, TRUE), n)) <= n  BY <2>2, WindowType
    <2> QED  BY <2>1, <2>3 DEF w, n
<1>3. g.changes = h.changes \/ g.changes = KeepNewest(Append(h.changes, ChangeOf(h, a)), MaxRouteChanges)
    BY DEF Responded, ChangesAfter
<1>4. Len(g.changes) <= MaxRouteChanges
    <2>1. CASE g.changes = h.changes  BY <1>1, <2>1
    <2>2. CASE g.changes = KeepNewest(Append(h.changes, ChangeOf(h, a)), MaxRouteChanges)
        <3> DEFINE S == ChangeType \cup {ChangeOf(h, a)}
                   e == ChangeOf(h, a)
        <3>1. h.changes \in Seq(S) /\ e \in S  BY <1>1
        <3> HIDE DEF S, e
        <3>2. Len(KeepNewest(Append(h.changes, e), MaxRouteChanges)) <= MaxRouteChanges
            BY <1>1, <3>1, WindowType, HopStatsAssumption
        <3> QED  BY <2>2, <3>2 DEF e
    <2> QED  BY <1>3, <2>1, <2>2
<1> QED  BY <1>1, <1>2, <1>4 DEF Bounded

LEMMA TimedOutBounded ==
    ASSUME NEW h, Bounded(h), NEW f, NEW g, TimedOutOf(h, g, f)
    PROVE  Bounded(g)
<1>1. /\ h.recent \in Seq(BOOLEAN) /\ g \in HopType /\ g.changes = h.changes
      /\ Len(h.recent) <= RecentWindow /\ Len(h.changes) <= MaxRouteChanges
    BY DEF Bounded, HopType, TimedOutOf
<1>2. g.recent = KeepNewest(Append(h.recent, FALSE), RecentWindow)  BY DEF TimedOutOf
<1>3. Len(g.recent) <= RecentWindow
    <2> DEFINE w == h.recent
               n == RecentWindow
    <2>1. w \in Seq(BOOLEAN) /\ Len(w) <= n /\ n \in Nat \ {0} /\ FALSE \in BOOLEAN
        BY <1>1, HopStatsAssumption
    <2> HIDE DEF w, n
    <2>2. Len(KeepNewest(Append(w, FALSE), n)) <= n  BY <2>1, WindowType
    <2> QED  BY <1>2, <2>2 DEF w, n
<1> QED  BY <1>1, <1>3 DEF Bounded

\* What counting a probe as sent changes matters to no response or timeout.
LEMMA AfterSent ==
    ASSUME NEW h, Bounded(h), NEW r, r = RecordSent(h)
    PROVE  /\ Bounded(r) /\ r.sent = h.sent + 1
           /\ \A f \in FlowIds, a \in Addrs : \A flows, g : Responded(r, g, f, a, flows) => Responded(h, g, f, a, flows)
           /\ \A f \in FlowIds : \A g : TimedOutOf(r, g, f) => TimedOutOf(h, g, f)
<1>1. h \in HopType  BY DEF Bounded
<1>2. /\ r \in HopType /\ r.sent = h.sent + 1
      /\ r.received = h.received /\ r.timeouts = h.timeouts
      /\ r.responders = h.responders /\ r.recent = h.recent /\ r.flows = h.flows
      /\ r.nat = h.nat /\ r.rateLimit = h.rateLimit /\ r.changes = h.changes
      /\ r.manip = h.manip /\ r.flapPrimary = h.flapPrimary
    <2>1. IsSent(h, r)  BY <1>1, RecordSentFields
    <2> QED  BY <2>1 DEF IsSent
<1>3. Bounded(r)  BY <1>2 DEF Bounded
<1>4. ASSUME NEW f \in FlowIds, NEW a \in Addrs, NEW flows, NEW g, Responded(r, g, f, a, flows)
      PROVE  Responded(h, g, f, a, flows)
    <2>1. ChangeOf(r, a) = ChangeOf(h, a)  BY <1>1, <1>2, SameChange
    <2>2. ChangesAfter(r, a) = ChangesAfter(h, a)  BY <1>2, <2>1 DEF ChangesAfter
    <2> QED  BY <1>2, <1>4, <2>1, <2>2 DEF Responded
<1>5. ASSUME NEW f \in FlowIds, NEW g, TimedOutOf(r, g, f)
      PROVE  TimedOutOf(h, g, f)
    BY <1>2, <1>5 DEF TimedOutOf
<1> QED  BY <1>2, <1>3, <1>4, <1>5

\* What an event does to the hop it names.
IsReplayed(h, g, e, flows) ==
    /\ Bounded(g)
    /\ e.outcome = "Timeout" => TimedOutOf(h, g, e.flow) /\ g.sent = h.sent + 1
    /\ e.outcome = "Reply" => Responded(h, g, e.flow, e.addr, flows) /\ g.sent = h.sent + 1
    /\ e.outcome = "LateReply" => Responded(h, g, e.flow, e.addr, flows) /\ g.sent = h.sent

LEMMA ReplayedHop ==
    ASSUME NEW s, NEW e \in EventType, Bounded(s.hops[e.ttl]), NEW flows,
           e.outcome # "Timeout" => e.addr \in Addrs
    PROVE  IsReplayed(s.hops[e.ttl], ReplayHop(s, e, flows), e, flows)
<1> DEFINE h == s.hops[e.ttl]
           r == RecordSent(h)
           f == e.flow
           a == e.addr
<1>1. f \in FlowIds /\ e.outcome \in {"Reply", "Timeout", "LateReply"}
    BY DEF EventType, Outcomes
<1>2. /\ Bounded(h) /\ Bounded(r) /\ r.sent = h.sent + 1
      /\ \A k \in FlowIds, b \in Addrs : \A n, g : Responded(r, g, k, b, n) => Responded(h, g, k, b, n)
      /\ \A k \in FlowIds : \A g : TimedOutOf(r, g, k) => TimedOutOf(h, g, k)
    BY AfterSent
<1> HIDE DEF r
<1>3. CASE e.outcome = "Timeout"
    <2> DEFINE g == RecordFlowTimeout(RecordTimeout(r), f)
    <2>1. ReplayHop(s, e, flows) = g
        BY <1>3 DEF ReplayHop, r
    <2>2. TimedOutOf(r, g, f) /\ g.sent = r.sent
        <3> HIDE DEF r, f
        <3>1. r \in HopType /\ Len(r.recent) <= RecentWindow  BY <1>2 DEF Bounded
        <3>2. TimedOutOnly(r, g, f)  BY <1>1, <3>1, TimeoutIsOne
        <3> QED  BY <3>2 DEF TimedOutOnly
    <2> HIDE DEF g, f, h
    <2>3. TimedOutOf(h, g, f) /\ g.sent = h.sent + 1  BY <1>1, <1>2, <2>2
    <2>4. Bounded(g)  BY <1>2, <2>3, TimedOutBounded
    <2> QED  BY <1>3, <2>1, <2>3, <2>4 DEF IsReplayed, f, h
<1>4. CASE e.outcome = "Reply"
    <2> DEFINE g == RecordFlowResponse(RecordResponseOf(r, a, flows), f, a)
    <2>1. ReplayHop(s, e, flows) = g /\ a \in Addrs
        BY <1>4 DEF ReplayHop, r
    <2>2. Responded(r, g, f, a, flows) /\ g.sent = r.sent
        <3> HIDE DEF r, f, a
        <3>1. /\ r \in HopType /\ Len(r.recent) <= RecentWindow /\ Len(r.changes) <= MaxRouteChanges
            BY <1>2 DEF Bounded
        <3>2. RespondedOnly(r, g, f, a, flows)  BY <1>1, <2>1, <3>1, ResponseIsOne
        <3> QED  BY <3>2 DEF RespondedOnly
    <2> HIDE DEF g, f, h, a
    <2>3. Responded(h, g, f, a, flows) /\ g.sent = h.sent + 1  BY <1>1, <1>2, <2>1, <2>2
    <2>4. Bounded(g)  BY <1>2, <2>3, RespondedBounded
    <2> QED  BY <1>4, <2>1, <2>3, <2>4 DEF IsReplayed, f, h, a
<1>5. CASE e.outcome = "LateReply"
    <2> DEFINE g == RecordFlowResponse(RecordResponseOf(h, a, flows), f, a)
    <2>1. ReplayHop(s, e, flows) = g /\ a \in Addrs
        BY <1>5 DEF ReplayHop
    <2>2. Responded(h, g, f, a, flows) /\ g.sent = h.sent
        <3> HIDE DEF h, f, a
        <3>1. /\ h \in HopType /\ Len(h.recent) <= RecentWindow /\ Len(h.changes) <= MaxRouteChanges
            BY <1>2 DEF Bounded
        <3>2. RespondedOnly(h, g, f, a, flows)  BY <1>1, <2>1, <3>1, ResponseIsOne
        <3> QED  BY <3>2 DEF RespondedOnly
    <2> HIDE DEF g, f, h, a
    <2>3. Bounded(g)  BY <1>2, <2>2, RespondedBounded
    <2> QED  BY <1>5, <2>1, <2>2, <2>3 DEF IsReplayed, f, h, a
<1> QED  BY <1>1, <1>3, <1>4, <1>5
-----------------------------------------------------------------------------
(* One event of a replayed session.                                         *)

\* A session as replays are: the next event finds every hop within its bounds.
Replayed(r) == r \in SessionType /\ \A t \in TTLs : Bounded(r.hops[t])

\* What an event does to a replayed session.
EventApplied(r, r2, e, flows, target) ==
    /\ r2 \in SessionType
    /\ IsReplayed(r.hops[e.ttl], r2.hops[e.ttl], e, flows)
    /\ \A u \in TTLs : u # e.ttl => r2.hops[u] = r.hops[u]
    /\ r2.totalSent = IF e.outcome = "LateReply" THEN r.totalSent ELSE r.totalSent + 1
    /\ IF e.outcome = "Reply" /\ e.addr = target
       THEN r2.complete = TRUE /\ r2.dest = IF r.dest = None \/ e.ttl < r.dest THEN e.ttl ELSE r.dest
       ELSE r2.complete = r.complete /\ r2.dest = r.dest

LEMMA AppliedEvent ==
    ASSUME NEW r, Replayed(r), NEW e \in EventType, e.outcome # "Timeout" => e.addr \in Addrs,
           NEW flows, NEW target, NEW r2, r2 = ApplyReplayEvent(r, e, flows, target)
    PROVE  EventApplied(r, r2, e, flows, target) /\ Replayed(r2)
<1>1. PICK t \in TTLs : t = e.ttl
    BY DEF EventType
<1>2. r \in SessionType /\ r.totalSent \in Nat /\ Bounded(r.hops[t])
    BY DEF Replayed, SessionType
<1>3. PICK n \in Nat : n = IF e.outcome = "LateReply" THEN r.totalSent ELSE r.totalSent + 1
    BY <1>2
<1>4. PICK g : g = ReplayHop(r, e, flows)
    OBVIOUS
<1>5. IsReplayed(r.hops[t], g, e, flows)
    BY <1>1, <1>2, <1>4, ReplayedHop
<1>6. g \in HopType /\ Bounded(g)
    BY <1>5 DEF IsReplayed, Bounded
<1> DEFINE r1 == [r EXCEPT !.hops[t] = g, !.totalSent = n]
<1>a. r2 = IF e.outcome = "Reply" /\ e.addr = target THEN Reach(r1, t) ELSE r1
    BY <1>1, <1>2, <1>3, <1>4 DEF ApplyReplayEvent, SessionType
<1>7. IsWith(r, r1, t, g) /\ r1.totalSent = n
    <2>1. r1 = PutHop(r, t, g, n)  BY DEF PutHop
    <2>2. r1.totalSent = n  BY <1>2 DEF SessionType
    <2> HIDE DEF r1
    <2>3. IsWith(r, r1, t, g)  BY <1>2, <1>6, <2>1, WithHop
    <2> QED  BY <2>2, <2>3
<1> HIDE DEF r1
<1>8. r1 \in SessionType /\ Replayed(r1)
    <2>1. ASSUME NEW u \in TTLs PROVE Bounded(r1.hops[u])
        <3>1. CASE u = t  BY <1>6, <1>7, <3>1 DEF IsWith
        <3>2. CASE u # t
            <4>1. r1.hops[u] = r.hops[u]  BY <1>7, <3>2 DEF IsWith
            <4> QED  BY <4>1 DEF Replayed
        <3> QED  BY <3>1, <3>2
    <2> QED  BY <1>7, <2>1 DEF Replayed, IsWith
<1>9. CASE ~(e.outcome = "Reply" /\ e.addr = target)
    <2>1. r2 = r1  BY <1>a, <1>9
    <2> QED  BY <1>1, <1>3, <1>5, <1>7, <1>8, <1>9, <2>1 DEF EventApplied, IsWith
<1>10. CASE e.outcome = "Reply" /\ e.addr = target
    <2>1. r2 = Reach(r1, t)  BY <1>a, <1>10
    <2>2. IsReached(r1, r2, t)  BY <1>1, <1>8, <2>1, WithReach
    <2>3. Replayed(r2)  BY <1>8, <2>2 DEF Replayed, IsReached
    <2>4. EventApplied(r, r2, e, flows, target)
        BY <1>1, <1>3, <1>5, <1>7, <1>10, <2>2 DEF EventApplied, IsWith, IsReached
    <2> QED  BY <2>3, <2>4
<1> QED  BY <1>9, <1>10

\* The probes a replay counts as sent are those of its hops.
SentByHop(r) == [t \in TTLs |-> r.hops[t].sent]
SentAddsUp(r) == r.totalSent = SumFunction(SentByHop(r))

LEMMA TtlsFinite == IsFiniteSet(TTLs)
<1>1. 1 \in Int /\ MaxTtl \in Int  BY SessionStatsAssumption
<1> QED  BY <1>1, FS_Interval DEF TTLs

LEMMA SentStillAddsUp ==
    ASSUME NEW r, Replayed(r), SentAddsUp(r), NEW e \in EventType, NEW flows, NEW target,
           NEW r2, EventApplied(r, r2, e, flows, target)
    PROVE  SentAddsUp(r2)
<1> DEFINE before == SentByHop(r)
           after == SentByHop(r2)
           t == e.ttl
<1>1. before \in [TTLs -> Nat] /\ t \in TTLs
    <2>1. \A u \in TTLs : r.hops[u].sent \in Nat
        <3>1. \A u \in TTLs : r.hops[u] \in HopType  BY DEF Replayed, Bounded
        <3> QED  BY <3>1 DEF HopType
    <2> QED  BY <2>1 DEF SentByHop, EventType
<1>2. \A u \in TTLs : u # t => r2.hops[u].sent = r.hops[u].sent
    BY DEF EventApplied
<1>3. CASE e.outcome = "LateReply"
    <2>1. r2.hops[t].sent = r.hops[t].sent /\ r2.totalSent = r.totalSent
        BY <1>3 DEF EventApplied, IsReplayed
    <2>2. after = before  BY <1>2, <2>1 DEF SentByHop
    <2> QED  BY <2>1, <2>2 DEF SentAddsUp
<1>4. CASE e.outcome # "LateReply"
    <2>1. r2.hops[t].sent = r.hops[t].sent + 1 /\ r2.totalSent = r.totalSent + 1
        BY <1>4 DEF EventApplied, IsReplayed, EventType, Outcomes
    <2>2. after = Bump(before, t)  BY <1>1, <1>2, <2>1 DEF SentByHop, Bump
    <2> HIDE DEF before, after
    <2>3. SumFunction(after) = SumFunction(before) + 1
        BY <1>1, <2>2, TtlsFinite, SumBump
    <2> QED  BY <2>1, <2>3 DEF SentAddsUp, before, after
<1> QED  BY <1>3, <1>4

LEMMA NewSessionReplayed ==
    Replayed(NewSession) /\ SentAddsUp(NewSession)
<1>1. ASSUME NEW t \in TTLs PROVE Bounded(NewSession.hops[t]) /\ NewSession.hops[t].sent = 0
    <2>1. NewSession.hops[t] = NewHop(t)  BY NewSessionFields
    <2>2. NewHop(t) \in HopType  BY NewHopFields
    <2>3. NewHop(t).sent = 0 /\ NewHop(t).recent = <<>> /\ NewHop(t).changes = <<>>
        BY DEF NewHop
    <2>4. Len(<<>>) = 0 /\ 0 <= RecentWindow /\ 0 <= MaxRouteChanges
        BY HopStatsAssumption
    <2> QED  BY <2>1, <2>2, <2>3, <2>4 DEF Bounded
<1>2. SumFunction(SentByHop(NewSession)) = 0
    <2> DEFINE sent == SentByHop(NewSession)
    <2>1. DOMAIN sent = TTLs /\ \A t \in TTLs : sent[t] = 0  BY <1>1 DEF SentByHop
    <2> HIDE DEF sent
    <2> QED  BY <2>1, TtlsFinite, SumZero DEF sent
<1> QED  BY <1>1, <1>2, NewSessionFields DEF Replayed, SentAddsUp
-----------------------------------------------------------------------------
(* What the replay of the log makes of a hop, and what the hop is.          *)

\* h is replayed from the log of the hop l, for which n late replies have been
\* logged, and k responses and m timeouts counted but not logged.
Matches(l, h, n, k, m) ==
    /\ l \in HopType /\ h.received + k = l.received + n /\ l.timeouts = h.timeouts + m
    /\ h.sent + k = l.received + h.timeouts
    /\ (n = 0 /\ k = 0 /\ m = 0) => Alike(l, h)

LEMMA MatchesNew ==
    ASSUME NEW t \in TTLs
    PROVE  Matches(NewHop(t), NewHop(t), 0, 0, 0)
<1>1. NewHop(t) \in HopType  BY NewHopFields
<1>2. NewHop(t).received = 0 /\ NewHop(t).timeouts = 0 /\ NewHop(t).sent = 0
    BY DEF NewHop
<1> QED  BY <1>1, <1>2 DEF Matches, Alike

\* Counting a probe as sent, or a verdict, disturbs nothing.
LEMMA MatchesAlike ==
    ASSUME NEW l, NEW h, NEW n \in Nat, NEW k \in Nat, NEW m \in Nat, Matches(l, h, n, k, m),
           NEW l2 \in HopType, Alike(l, l2)
    PROVE  Matches(l2, h, n, k, m)
BY DEF Matches, Alike

LEMMA MatchesReply ==
    ASSUME NEW l, NEW h, NEW n \in Nat, NEW k \in Nat, NEW m \in Nat, Matches(l, h, n, k, m), Bounded(h),
           NEW e \in EventType, e.outcome = "Reply", e.addr \in Addrs, NEW flows,
           NEW l2, Responded(l, l2, e.flow, e.addr, flows), NEW h2, IsReplayed(h, h2, e, flows)
    PROVE  Matches(l2, h2, n, k, m)
<1>1. Responded(h, h2, e.flow, e.addr, flows) /\ h2.sent = h.sent + 1
    BY DEF IsReplayed
<1>2. /\ l2 \in HopType /\ l2.received = l.received + 1 /\ l2.timeouts = l.timeouts
      /\ h2.received = h.received + 1 /\ h2.timeouts = h.timeouts
    BY <1>1 DEF Responded
<1>3. l \in HopType /\ h \in HopType /\ e.flow \in FlowIds
    BY DEF Matches, Bounded, EventType
<1>4. l.received \in Nat /\ h.received \in Nat /\ h.timeouts \in Nat /\ h.sent \in Nat
    BY <1>3 DEF HopType
<1>5. h2.received + k = l2.received + n /\ l2.timeouts = h2.timeouts + m /\ h2.sent + k = l2.received + h2.timeouts
    BY <1>1, <1>2, <1>4 DEF Matches
<1>6. ASSUME n = 0, k = 0, m = 0 PROVE Alike(l2, h2)
    <2>1. Alike(l, h)  BY <1>6 DEF Matches
    <2> QED  BY <1>1, <1>3, <2>1, AlikeResponded
<1> QED  BY <1>2, <1>5, <1>6 DEF Matches

LEMMA MatchesTimeout ==
    ASSUME NEW l, NEW h, NEW n \in Nat, NEW k \in Nat, NEW m \in Nat, Matches(l, h, n, k, m), Bounded(h),
           NEW e \in EventType, e.outcome = "Timeout", NEW flows,
           NEW l2, TimedOutOf(l, l2, e.flow), NEW h2, IsReplayed(h, h2, e, flows)
    PROVE  Matches(l2, h2, n, k, m)
<1>1. TimedOutOf(h, h2, e.flow) /\ h2.sent = h.sent + 1
    BY DEF IsReplayed
<1>2. /\ l2 \in HopType /\ l2.received = l.received /\ l2.timeouts = l.timeouts + 1
      /\ h2.received = h.received /\ h2.timeouts = h.timeouts + 1
    BY <1>1 DEF TimedOutOf
<1>3. l \in HopType /\ h \in HopType /\ e.flow \in FlowIds
    BY DEF Matches, Bounded, EventType
<1>4. l.received \in Nat /\ h.received \in Nat /\ h.timeouts \in Nat /\ h.sent \in Nat
    BY <1>3 DEF HopType
<1>5. h2.received + k = l2.received + n /\ l2.timeouts = h2.timeouts + m /\ h2.sent + k = l2.received + h2.timeouts
    BY <1>1, <1>2, <1>4 DEF Matches
<1>6. ASSUME n = 0, k = 0, m = 0 PROVE Alike(l2, h2)
    <2>1. Alike(l, h)  BY <1>6 DEF Matches
    <2> QED  BY <1>1, <1>3, <2>1, AlikeTimedOut
<1> QED  BY <1>2, <1>5, <1>6 DEF Matches

\* A late reply is one more response of the replayed hop only.
LEMMA MatchesLate ==
    ASSUME NEW l, NEW h, NEW n \in Nat, NEW k \in Nat, NEW m \in Nat, Matches(l, h, n, k, m), Bounded(h),
           NEW e \in EventType, e.outcome = "LateReply", NEW flows,
           NEW h2, IsReplayed(h, h2, e, flows)
    PROVE  Matches(l, h2, n + 1, k, m)
<1>1. h2.received = h.received + 1 /\ h2.timeouts = h.timeouts /\ h2.sent = h.sent
    BY DEF IsReplayed, Responded
<1>2. l \in HopType /\ h \in HopType  BY DEF Matches, Bounded
<1>3. l.received \in Nat /\ h.received \in Nat  BY <1>2 DEF HopType
<1> QED  BY <1>1, <1>3 DEF Matches

\* A flushed timeout is one more of the live hop only.
LEMMA MatchesFlush ==
    ASSUME NEW l, NEW h, NEW n \in Nat, NEW k \in Nat, NEW m \in Nat, Matches(l, h, n, k, m), Bounded(h),
           NEW f, NEW l2, TimedOutOf(l, l2, f)
    PROVE  Matches(l2, h, n, k, m + 1)
<1>1. l2 \in HopType /\ l2.received = l.received /\ l2.timeouts = l.timeouts + 1
    BY DEF TimedOutOf
<1>2. h \in HopType  BY DEF Bounded
<1>3. h.timeouts \in Nat  BY <1>2 DEF HopType
<1> QED  BY <1>1, <1>3 DEF Matches
\* A polled response is one more of the live hop only.
LEMMA MatchesPolled ==
    ASSUME NEW l, NEW h, NEW n \in Nat, NEW k \in Nat, NEW m \in Nat, Matches(l, h, n, k, m), Bounded(h),
           NEW f, NEW a, NEW flows, NEW l2, Responded(l, l2, f, a, flows)
    PROVE  Matches(l2, h, n, k + 1, m)
<1>1. l2 \in HopType /\ l2.received = l.received + 1 /\ l2.timeouts = l.timeouts
    BY DEF Responded
<1>2. l \in HopType /\ h \in HopType  BY DEF Matches, Bounded
<1>3. l.received \in Nat /\ h.received \in Nat /\ h.timeouts \in Nat /\ h.sent \in Nat
    BY <1>2 DEF HopType
<1> QED  BY <1>1, <1>3 DEF Matches
-----------------------------------------------------------------------------
(* What the replay of the log makes of the session.                         *)

\* r is replayed from the log of s.
MatchesAll(s, r, n, k, m) == \A t \in TTLs : Matches(s.hops[t], r.hops[t], n[t], k[t], m[t])

\* The destination r knows is that of s or nearer, unless MTU probes or polled
\* responses, which are not logged, may have found the latter.
Ends(s) == s.complete <=> s.dest # None
Reaches(s, r, k, mtuProbes) ==
    /\ Ends(s) /\ Ends(r)
    /\ (s.complete /\ ~mtuProbes /\ k[s.dest] = 0) => r.complete /\ r.dest <= s.dest

RebuiltFrom(s, r, n, k, m, q) ==
    /\ s \in SessionType /\ Replayed(r) /\ SentAddsUp(r)
    /\ MatchesAll(s, r, n, k, m) /\ Reaches(s, r, k, q.mtuProbes)

Counts == [TTLs -> Nat]

LEMMA BumpCounts ==
    ASSUME NEW n \in Counts, NEW t \in TTLs, NEW n2, n2 = Bump(n, t)
    PROVE  n2 \in Counts
BY DEF Bump, Counts

LEMMA RebuiltNew ==
    ASSUME NEW n \in Counts, NEW k \in Counts, NEW m \in Counts, \A t \in TTLs : n[t] = 0 /\ k[t] = 0 /\ m[t] = 0, NEW q
    PROVE  RebuiltFrom(NewSession, NewSession, n, k, m, q)
<1>1. MatchesAll(NewSession, NewSession, n, k, m)
    BY NewSessionFields, MatchesNew DEF MatchesAll
<1>2. Reaches(NewSession, NewSession, k, q.mtuProbes)
    BY NewSessionFields DEF Reaches, Ends
<1> QED  BY <1>1, <1>2, NewSessionFields, NewSessionReplayed DEF RebuiltFrom

\* Nothing logged and nothing counted.
LEMMA RebuiltSame ==
    ASSUME NEW s, NEW r, NEW n \in Counts, NEW k \in Counts, NEW m \in Counts, NEW q, RebuiltFrom(s, r, n, k, m, q),
           NEW s2 \in SessionType, \A t \in TTLs : Alike(s.hops[t], s2.hops[t]),
           s2.complete = s.complete, s2.dest = s.dest
    PROVE  RebuiltFrom(s2, r, n, k, m, q)
<1>1. ASSUME NEW t \in TTLs PROVE Matches(s2.hops[t], r.hops[t], n[t], k[t], m[t])
    <2>1. s2.hops[t] \in HopType /\ n[t] \in Nat /\ k[t] \in Nat /\ m[t] \in Nat
        <3>1. s2.hops[t] \in HopType  BY DEF SessionType
        <3>2. n[t] \in Nat /\ k[t] \in Nat /\ m[t] \in Nat  BY Zenon DEF Counts
        <3> QED  BY <3>1, <3>2
    <2>2. Matches(s.hops[t], r.hops[t], n[t], k[t], m[t])  BY DEF RebuiltFrom, MatchesAll
    <2> QED  BY <2>1, <2>2, MatchesAlike
<1>2. Reaches(s2, r, k, q.mtuProbes)  BY DEF RebuiltFrom, Reaches, Ends
<1> QED  BY <1>1, <1>2 DEF RebuiltFrom, MatchesAll

\* What a script sends is what a profile may ask for.
LEMMA ScriptedProbe ==
    ASSUME NEW q \in Profiles, NEW i \in 1..Len(q.script), NEW p \in q.script[i]
    PROVE  p \in Probes(q)
<1>1. q.script[i] \subseteq Probes(q)  BY ProfilesAssumption
<1> QED  BY <1>1

\* None is no TTL.
LEMMA NoneIsNoNumber == None \notin Int
<1>1. SrcPortBase \in Nat /\ None \notin Int  BY WireNumbers
<1> QED  BY <1>1

\* A reply that is counted and logged.
LEMMA RebuiltReply ==
    ASSUME profile \in Profiles, NEW p \in Probes(profile), NEW x, NEW s, NEW r, NEW n \in Counts, NEW k \in Counts,
           NEW m \in Counts, RebuiltFrom(s, r, n, k, m, profile),
           NEW s2 \in SessionType, CountedIn(s, s2, p), ReachedIn(s, s2, p, x),
           NEW r2, r2 = ApplyReplayEvent(r, ReplyEvent(p), profile.flows, profile.target)
    PROVE  RebuiltFrom(s2, r2, n, k, m, profile)
<1> DEFINE e == ReplyEvent(p)
<1>1. e \in EventType /\ e.outcome = "Reply" /\ e.ttl = p.id.ttl /\ e.flow = p.flow /\ e.addr = p.fate.from
      /\ e.addr \in Addrs
    BY ProbeIsOK DEF CountedIn, ReplyEvent, ProbeOK
<1>2. Replayed(r) /\ SentAddsUp(r)  BY DEF RebuiltFrom
<1> HIDE DEF e
<1>3. EventApplied(r, r2, e, profile.flows, profile.target) /\ Replayed(r2)
    <2>1. r2 = ApplyReplayEvent(r, e, profile.flows, profile.target)  BY DEF e
    <2> QED  BY <1>1, <1>2, <2>1, AppliedEvent
<1>4. SentAddsUp(r2)  BY <1>1, <1>2, <1>3, SentStillAddsUp
<1>5. ASSUME NEW t \in TTLs PROVE Matches(s2.hops[t], r2.hops[t], n[t], k[t], m[t])
    <2>1. Matches(s.hops[t], r.hops[t], n[t], k[t], m[t]) /\ n[t] \in Nat /\ k[t] \in Nat /\ m[t] \in Nat /\ Bounded(r.hops[t])
        BY <1>2 DEF RebuiltFrom, MatchesAll, Counts, Replayed
    <2>2. CASE t # e.ttl
        <3>1. s2.hops[t] = s.hops[t] /\ r2.hops[t] = r.hops[t]
            BY <1>1, <1>3, <2>2 DEF CountedIn, EventApplied
        <3> QED  BY <2>1, <3>1
    <2>3. CASE t = e.ttl
        <3>1. Responded(s.hops[t], s2.hops[t], e.flow, e.addr, profile.flows)
            BY <1>1, <2>3 DEF CountedIn
        <3>2. IsReplayed(r.hops[t], r2.hops[t], e, profile.flows)
            BY <1>3, <2>3 DEF EventApplied
        <3> QED  BY <1>1, <2>1, <3>1, <3>2, MatchesReply
    <2> QED  BY <2>2, <2>3
<1>6. Reaches(s2, r2, k, profile.mtuProbes)
    <2>1. p.dest = profile.target /\ e.ttl \in Int /\ e.ttl # None
        <3>1. p.dest = profile.target  BY ProbeFields
        <3>2. e.ttl \in Int  BY <1>1 DEF EventType, TTLs
        <3> QED  BY <3>1, <3>2, NoneIsNoNumber
    <2>2. /\ s.dest \in Int \cup {None} /\ r.dest \in Int \cup {None} /\ s.complete \in BOOLEAN
          /\ s2.complete \in BOOLEAN
        <3>1. s \in SessionType /\ r \in SessionType  BY <1>2 DEF RebuiltFrom, Replayed
        <3>2. s.dest \in TTLs \cup {None} /\ r.dest \in TTLs \cup {None} /\ s.complete \in BOOLEAN
              /\ s2.complete \in BOOLEAN
            BY <3>1 DEF SessionType
        <3>3. \A t \in TTLs : t \in Int  BY DEF TTLs
        <3> QED  BY <3>2, <3>3
    <2>3. Reaches(s, r, k, profile.mtuProbes)  BY DEF RebuiltFrom
    <2>4. CASE e.addr = profile.target
        <3>1. r2.complete = TRUE /\ r2.dest = IF r.dest = None \/ e.ttl < r.dest THEN e.ttl ELSE r.dest
            BY <1>1, <1>3, <2>4 DEF EventApplied
        <3>2. \/ s2.complete = s.complete /\ s2.dest = s.dest
              \/ s2.complete = TRUE /\ s2.dest = IF s.dest = None \/ e.ttl < s.dest THEN e.ttl ELSE s.dest
            BY <1>1 DEF ReachedIn
        <3>3. r2.dest \in Int /\ r2.dest # None /\ r2.dest <= e.ttl /\ (r.dest # None => r2.dest <= r.dest)
            BY <2>1, <2>2, <3>1
        <3>4. CASE s2.complete = s.complete /\ s2.dest = s.dest
            <4>1. Ends(s2) /\ Ends(r2)  BY <2>3, <3>1, <3>3, <3>4 DEF Reaches, Ends
            <4>2. ASSUME s2.complete, ~profile.mtuProbes, k[s2.dest] = 0 PROVE r2.dest <= s2.dest
                <5>1. r.dest <= s.dest /\ r.dest # None /\ s.dest # None
                    BY <2>3, <3>4, <4>2 DEF Reaches, Ends
                <5> QED  BY <2>2, <3>3, <3>4, <5>1
            <4> QED  BY <3>1, <4>1, <4>2 DEF Reaches
        <3>5. CASE s2.complete = TRUE /\ s2.dest = IF s.dest = None \/ e.ttl < s.dest THEN e.ttl ELSE s.dest
            <4>1. s2.dest # None  BY <2>1, <3>5
            <4>2. Ends(s2) /\ Ends(r2)  BY <3>1, <3>3, <3>5, <4>1 DEF Ends
            <4>3. r2.dest <= s2.dest \/ profile.mtuProbes \/ k[s2.dest] # 0
                <5>1. CASE s.dest = None \/ e.ttl < s.dest  BY <3>3, <3>5, <5>1
                <5>2. CASE ~(s.dest = None \/ e.ttl < s.dest)
                    <6>1. s2.dest = s.dest  BY <3>5, <5>2
                    <6>2. s.dest # None  BY <5>2
                    <6>3. profile.mtuProbes \/ k[s.dest] # 0 \/ (r.dest # None /\ r.dest <= s.dest)
                        BY <2>3, <6>2 DEF Reaches, Ends
                    <6>4. s.dest \in Int /\ (r.dest # None => r.dest \in Int)  BY <2>2, <6>2
                    <6> QED  BY <3>3, <6>1, <6>3, <6>4
                <5> QED  BY <5>1, <5>2
            <4> QED  BY <3>1, <4>2, <4>3 DEF Reaches
        <3> QED  BY <3>2, <3>4, <3>5
    <2>5. CASE e.addr # profile.target
        <3>1. r2.complete = r.complete /\ r2.dest = r.dest
            BY <1>3, <2>5 DEF EventApplied
        <3>2. s2.complete = s.complete /\ s2.dest = s.dest
            BY <1>1, <2>1, <2>5 DEF ReachedIn
        <3> QED  BY <2>3, <3>1, <3>2 DEF Reaches, Ends
    <2> QED  BY <2>4, <2>5
<1> QED  BY <1>3, <1>4, <1>5, <1>6 DEF RebuiltFrom, MatchesAll

\* A reply to an MTU probe: it may end the session, and is neither counted nor
\* logged.
LEMMA RebuiltMtu ==
    ASSUME profile \in Profiles, NEW p \in Probes(profile), p.pmtud, NEW x, NEW s, NEW r, NEW n \in Counts, NEW k \in Counts,
           NEW m \in Counts, RebuiltFrom(s, r, n, k, m, profile),
           NEW s2 \in SessionType, s2.hops = s.hops, ReachedIn(s, s2, p, x) \/ PollReachedIn(s, s2, p)
    PROVE  RebuiltFrom(s2, r, n, k, m, profile)
<1>1. profile.mtuProbes /\ p.id.ttl \in Int
    <2>1. p.id \in [ttl : 1..MaxTtl, seq : Byte] /\ profile.mtuProbes  BY ProbeFields
    <2> QED  BY <2>1
<1>2. p.id.ttl # None  BY <1>1, NoneIsNoNumber
<1>3. Ends(s) /\ Ends(r)  BY DEF RebuiltFrom, Reaches
<1>4. Ends(s2)  BY <1>2, <1>3 DEF ReachedIn, PollReachedIn, Ends
<1>5. Reaches(s2, r, k, profile.mtuProbes)  BY <1>1, <1>3, <1>4 DEF Reaches
<1>6. MatchesAll(s2, r, n, k, m)  BY DEF RebuiltFrom, MatchesAll
<1> QED  BY <1>5, <1>6 DEF RebuiltFrom

\* A polled response, which is counted only, and may be the end.
LEMMA RebuiltPolled ==
    ASSUME profile \in Profiles, NEW p \in Probes(profile), NEW s, NEW r, NEW n \in Counts, NEW k \in Counts,
           NEW m \in Counts, RebuiltFrom(s, r, n, k, m, profile),
           NEW s2 \in SessionType, PolledIn(s, s2, p), PollReachedIn(s, s2, p),
           NEW k2, k2 = Bump(k, p.id.ttl)
    PROVE  RebuiltFrom(s2, r, n, k2, m, profile)
<1>1. PICK u \in TTLs : u = p.id.ttl
    BY ProbeIsOK DEF ProbeOK
<1>2. ASSUME NEW t \in TTLs PROVE Matches(s2.hops[t], r.hops[t], n[t], k2[t], m[t])
    <2>1. /\ Matches(s.hops[t], r.hops[t], n[t], k[t], m[t]) /\ Bounded(r.hops[t])
          /\ n[t] \in Nat /\ k[t] \in Nat /\ m[t] \in Nat
        BY DEF RebuiltFrom, MatchesAll, Counts, Replayed
    <2>2. CASE t # u
        <3>1. k2[t] = k[t]  BY <1>1, <2>2 DEF Bump, Counts
        <3>2. s2.hops[t] = s.hops[t]  BY <1>1, <2>2 DEF PolledIn
        <3> QED  BY <2>1, <3>1, <3>2
    <2>3. CASE t = u
        <3>1. k2[t] = k[t] + 1  BY <1>1, <2>3 DEF Bump, Counts
        <3>2. Responded(s.hops[t], s2.hops[t], p.flow, p.fate.from, profile.flows)
            BY <1>1, <2>3 DEF PolledIn
        <3>3. Matches(s2.hops[t], r.hops[t], n[t], k[t] + 1, m[t])  BY <2>1, <3>2, MatchesPolled
        <3> QED  BY <3>1, <3>3
    <2> QED  BY <2>2, <2>3
<1>3. /\ Ends(s) /\ Ends(r)
      /\ (s.complete /\ ~profile.mtuProbes /\ k[s.dest] = 0) => r.complete /\ r.dest <= s.dest
    BY DEF RebuiltFrom, Reaches
<1>4. u \in Int /\ u # None  BY NoneIsNoNumber DEF TTLs
<1>5. s.dest \in TTLs \cup {None}  BY DEF RebuiltFrom, SessionType
<1>6. k2[u] # 0 /\ \A t \in TTLs : k2[t] = 0 => k[t] = 0
    <2>1. k2[u] = k[u] + 1 /\ k[u] \in Nat  BY <1>1 DEF Bump, Counts
    <2>2. ASSUME NEW t \in TTLs, t # u PROVE k2[t] = k[t]  BY <1>1, <2>2 DEF Bump, Counts
    <2> QED  BY <2>1, <2>2
<1>7. Reaches(s2, r, k2, profile.mtuProbes)
    <2>1. CASE s2.complete = s.complete /\ s2.dest = s.dest
        <3>1. (s.complete /\ k2[s.dest] = 0) => k[s.dest] = 0  BY <1>3, <1>5, <1>6 DEF Ends
        <3> QED  BY <1>3, <2>1, <3>1 DEF Reaches, Ends
    <2>2. CASE s2.complete = TRUE /\ s2.dest = IF s.dest = None \/ u < s.dest THEN u ELSE s.dest
        <3>1. CASE s2.dest = u
            BY <1>3, <1>4, <1>6, <2>2, <3>1 DEF Reaches, Ends
        <3>2. CASE s2.dest = s.dest /\ s.dest # None
            <4>1. s.complete /\ (k2[s.dest] = 0 => k[s.dest] = 0)  BY <1>3, <1>5, <1>6, <3>2 DEF Ends
            <4> QED  BY <1>3, <2>2, <3>2, <4>1 DEF Reaches, Ends
        <3> QED  BY <2>2, <3>1, <3>2
    <2> QED  BY <1>1, <2>1, <2>2 DEF PollReachedIn
<1>8. MatchesAll(s2, r, n, k2, m)  BY <1>2 DEF MatchesAll
<1> QED  BY <1>7, <1>8 DEF RebuiltFrom

\* A timeout that is counted and logged.
LEMMA RebuiltTimeout ==
    ASSUME NEW q, NEW p, TimeoutEvent(p) \in EventType, NEW s, NEW r, NEW n \in Counts, NEW k \in Counts, NEW m \in Counts,
           RebuiltFrom(s, r, n, k, m, q),
           NEW s2 \in SessionType, ExpiredIn(s, s2, p), s2.complete = s.complete, s2.dest = s.dest,
           NEW r2, r2 = ApplyReplayEvent(r, TimeoutEvent(p), q.flows, q.target)
    PROVE  RebuiltFrom(s2, r2, n, k, m, q)
<1> DEFINE e == TimeoutEvent(p)
<1>1. e \in EventType /\ e.outcome = "Timeout" /\ e.ttl = p.id.ttl /\ e.flow = p.flow
    BY DEF TimeoutEvent
<1>2. Replayed(r) /\ SentAddsUp(r)  BY DEF RebuiltFrom
<1> HIDE DEF e
<1>3. EventApplied(r, r2, e, q.flows, q.target) /\ Replayed(r2)
    <2>1. r2 = ApplyReplayEvent(r, e, q.flows, q.target)  BY DEF e
    <2> QED  BY <1>1, <1>2, <2>1, AppliedEvent
<1>4. SentAddsUp(r2)  BY <1>1, <1>2, <1>3, SentStillAddsUp
<1>5. ASSUME NEW t \in TTLs PROVE Matches(s2.hops[t], r2.hops[t], n[t], k[t], m[t])
    <2>1. Matches(s.hops[t], r.hops[t], n[t], k[t], m[t]) /\ n[t] \in Nat /\ k[t] \in Nat /\ m[t] \in Nat /\ Bounded(r.hops[t])
        BY <1>2 DEF RebuiltFrom, MatchesAll, Counts, Replayed
    <2>2. CASE t # e.ttl
        <3>1. s2.hops[t] = s.hops[t] /\ r2.hops[t] = r.hops[t]
            BY <1>1, <1>3, <2>2 DEF ExpiredIn, EventApplied
        <3> QED  BY <2>1, <3>1
    <2>3. CASE t = e.ttl
        <3>1. TimedOutOf(s.hops[t], s2.hops[t], e.flow)
            BY <1>1, <2>3 DEF ExpiredIn
        <3>2. IsReplayed(r.hops[t], r2.hops[t], e, q.flows)
            BY <1>3, <2>3 DEF EventApplied
        <3> QED  BY <1>1, <2>1, <3>1, <3>2, MatchesTimeout
    <2> QED  BY <2>2, <2>3
<1>6. Reaches(s2, r2, k, q.mtuProbes)
    <2>1. r2.complete = r.complete /\ r2.dest = r.dest
        BY <1>1, <1>3 DEF EventApplied
    <2> QED  BY <2>1 DEF RebuiltFrom, Reaches, Ends
<1> QED  BY <1>3, <1>4, <1>5, <1>6 DEF RebuiltFrom, MatchesAll

\* A late reply, which is logged only.
LEMMA RebuiltLate ==
    ASSUME NEW q, NEW e \in EventType, e.outcome = "LateReply", e.addr \in Addrs,
           NEW s, NEW r, NEW n \in Counts, NEW k \in Counts, NEW m \in Counts, RebuiltFrom(s, r, n, k, m, q),
           NEW s2 \in SessionType, s2.hops = s.hops, s2.complete = s.complete, s2.dest = s.dest,
           NEW r2, r2 = ApplyReplayEvent(r, e, q.flows, q.target),
           NEW n2, n2 = Bump(n, e.ttl)
    PROVE  RebuiltFrom(s2, r2, n2, k, m, q)
<1>1. Replayed(r) /\ SentAddsUp(r)  BY DEF RebuiltFrom
<1>2. EventApplied(r, r2, e, q.flows, q.target) /\ Replayed(r2)
    BY <1>1, AppliedEvent
<1>3. SentAddsUp(r2)  BY <1>1, <1>2, SentStillAddsUp
<1>4. ASSUME NEW t \in TTLs PROVE Matches(s2.hops[t], r2.hops[t], n2[t], k[t], m[t])
    <2>1. Matches(s.hops[t], r.hops[t], n[t], k[t], m[t]) /\ n[t] \in Nat /\ k[t] \in Nat /\ m[t] \in Nat /\ Bounded(r.hops[t])
        BY <1>1 DEF RebuiltFrom, MatchesAll, Counts, Replayed
    <2>2. CASE t # e.ttl
        <3>1. n2[t] = n[t]  BY <2>2 DEF Bump, Counts
        <3>2. r2.hops[t] = r.hops[t]  BY <1>2, <2>2 DEF EventApplied
        <3> QED  BY <2>1, <3>1, <3>2
    <2>3. CASE t = e.ttl
        <3>1. n2[t] = n[t] + 1  BY <2>3 DEF Bump, Counts
        <3>2. IsReplayed(r.hops[t], r2.hops[t], e, q.flows)  BY <1>2, <2>3 DEF EventApplied
        <3>3. Matches(s.hops[t], r2.hops[t], n[t] + 1, k[t], m[t])  BY <2>1, <3>2, MatchesLate
        <3> QED  BY <3>1, <3>3
    <2> QED  BY <2>2, <2>3
<1>5. Reaches(s2, r2, k, q.mtuProbes)
    <2>1. r2.complete = r.complete /\ r2.dest = r.dest  BY <1>2 DEF EventApplied
    <2> QED  BY <2>1 DEF RebuiltFrom, Reaches, Ends
<1> QED  BY <1>2, <1>3, <1>4, <1>5 DEF RebuiltFrom, MatchesAll

\* A flushed timeout, which is counted only.
LEMMA RebuiltFlush ==
    ASSUME NEW q, NEW p, p.id.ttl \in TTLs, NEW s, NEW r, NEW n \in Counts, NEW k \in Counts, NEW m \in Counts,
           RebuiltFrom(s, r, n, k, m, q),
           NEW s2 \in SessionType, ExpiredIn(s, s2, p), s2.complete = s.complete, s2.dest = s.dest,
           NEW m2, m2 = Bump(m, p.id.ttl)
    PROVE  RebuiltFrom(s2, r, n, k, m2, q)
<1>1. ASSUME NEW t \in TTLs PROVE Matches(s2.hops[t], r.hops[t], n[t], k[t], m2[t])
    <2>1. Matches(s.hops[t], r.hops[t], n[t], k[t], m[t]) /\ n[t] \in Nat /\ k[t] \in Nat /\ m[t] \in Nat /\ Bounded(r.hops[t])
        BY DEF RebuiltFrom, MatchesAll, Counts, Replayed
    <2>2. CASE t # p.id.ttl
        <3>1. m2[t] = m[t]  BY <2>2 DEF Bump, Counts
        <3>2. s2.hops[t] = s.hops[t]  BY <2>2 DEF ExpiredIn
        <3> QED  BY <2>1, <3>1, <3>2
    <2>3. CASE t = p.id.ttl
        <3>1. m2[t] = m[t] + 1  BY <2>3 DEF Bump, Counts
        <3>2. TimedOutOf(s.hops[t], s2.hops[t], p.flow)  BY <2>3 DEF ExpiredIn
        <3>3. Matches(s2.hops[t], r.hops[t], n[t], k[t], m[t] + 1)  BY <2>1, <3>2, MatchesFlush
        <3> QED  BY <3>1, <3>3
    <2> QED  BY <2>2, <2>3
<1>2. Reaches(s2, r, k, q.mtuProbes)  BY DEF RebuiltFrom, Reaches, Ends
<1> QED  BY <1>1, <1>2 DEF RebuiltFrom, MatchesAll
-----------------------------------------------------------------------------
(* Every reachable session is rebuilt by the replay of its log.             *)

TheReplay == Replay(live.events, profile.flows, profile.target)

\* A reset forgets the late replies with the log and the polled responses with the
\* counters, but not the timeouts of the final flush: none was counted before the last probe was sent.
ReplayInv ==
    /\ late \in Counts /\ polled \in Counts /\ flushed \in Counts
    /\ step <= Len(profile.script) => \A t \in TTLs : flushed[t] = 0
    /\ RebuiltFrom(live, TheReplay, late, polled, flushed, profile)

LEMMA InitRebuilt ==
    Init => ReplayInv
<1> SUFFICES ASSUME Init PROVE ReplayInv
    OBVIOUS
<1>1. late \in Counts /\ polled \in Counts /\ flushed \in Counts /\ \A t \in TTLs : late[t] = 0 /\ polled[t] = 0 /\ flushed[t] = 0
    BY DEF Init, Counts
<1>2. live = NewSession /\ live.events = <<>>
    BY NewSessionFields DEF Init
<1>3. TheReplay = NewSession
    <2>1. <<>> \in Seq({0}) /\ 0 \in {0}  OBVIOUS
    <2> QED  BY <1>2, <2>1, ReplayAppends DEF TheReplay
<1> QED  BY <1>1, <1>2, <1>3, RebuiltNew DEF ReplayInv

\* The replay of a log with one more event.
LEMMA LongerReplay ==
    ASSUME live \in SessionType, NEW e \in EventType, NEW s2, s2.events = Append(live.events, e)
    PROVE  Replay(s2.events, profile.flows, profile.target)
             = ApplyReplayEvent(TheReplay, e, profile.flows, profile.target)
<1>1. live.events \in Seq(EventType)  BY DEF SessionType
<1> QED  BY <1>1, ReplayAppends DEF TheReplay

\* A response that found no entry: logged and counted late, or neither.
LEMMA LateKeeps ==
    ASSUME SessionInv, ReplayInv, probe # None, NEW r, r = ParsedOf(probe),
           NEW s2, s2 = IF Some(r) THEN LogLate(live, r) ELSE live,
           NEW n2, n2 = IF IsLogged(r) THEN [late EXCEPT ![r.id.ttl] = @ + 1] ELSE late
    PROVE  /\ n2 \in Counts
           /\ RebuiltFrom(s2, Replay(s2.events, profile.flows, profile.target), n2, polled, flushed, profile)
<1>1. profile \in Profiles /\ probe \in Probes(profile) /\ Sound(live, profile.flows) /\ live \in SessionType
    BY DEF SessionInv, Sound
<1>2. late \in Counts /\ polled \in Counts /\ flushed \in Counts /\ RebuiltFrom(live, TheReplay, late, polled, flushed, profile)
    BY DEF ReplayInv
<1>3. CASE ~IsLogged(r)
    <2>1. n2 = late  BY <1>3
    <2>2. s2 = live
        <3>1. CASE Some(r)  BY <1>1, <1>3, <3>1, LateSession
        <3>2. CASE ~Some(r)  BY <3>2
        <3> QED  BY <3>1, <3>2
    <2> QED  BY <1>2, <2>1, <2>2 DEF TheReplay
<1>4. CASE IsLogged(r)
    <2>1. Some(r)  BY <1>4 DEF IsLogged
    <2>2. s2 = LogLate(live, r)  BY <2>1
    <2>3. /\ Sound(s2, profile.flows) /\ s2.hops = live.hops /\ s2.complete = live.complete
          /\ s2.dest = live.dest /\ LoggedLate(live, s2, probe)
        BY <1>1, <1>4, <2>1, <2>2, LateSession
    <2>4. PICK f \in FlowIds : /\ LateEvent(probe, f) \in EventType
                               /\ s2.events = Append(live.events, LateEvent(probe, f))
        BY <2>3 DEF LoggedLate
    <2>5. PICK e \in EventType : e = LateEvent(probe, f)
        BY <2>4
    <2>6. e.outcome = "LateReply" /\ e.addr \in Addrs /\ e.ttl = probe.id.ttl
        BY <1>1, <2>5, ProbeIsOK DEF LateEvent, ProbeOK
    <2>7. r.id = probe.id
        BY <1>1, <2>1, AnswerNamesProbe
    <2>8. n2 = Bump(late, e.ttl)
        BY <1>4, <2>6, <2>7 DEF Bump
    <2>9. Replay(s2.events, profile.flows, profile.target)
            = ApplyReplayEvent(TheReplay, e, profile.flows, profile.target)
        BY <1>1, <2>4, <2>5, LongerReplay
    <2>10. n2 \in Counts
        <3>1. e.ttl \in TTLs  BY DEF EventType
        <3> QED  BY <1>2, <2>8, <3>1, BumpCounts
    <2>11. s2 \in SessionType  BY <2>3 DEF Sound
    <2>12. RebuiltFrom(s2, Replay(s2.events, profile.flows, profile.target), n2, polled, flushed, profile)
        BY <1>2, <2>3, <2>6, <2>8, <2>9, <2>11, RebuiltLate
    <2> QED  BY <2>10, <2>12
<1> QED  BY <1>3, <1>4

\* Every step keeps the replay of the log a rebuilt session.
LEMMA NextRebuilt ==
    ASSUME SessionInv, ReplayInv, [Next]_vars
    PROVE  ReplayInv'
<1>1. /\ profile \in Profiles /\ Len(profile.script) \in Nat /\ Sound(live, profile.flows)
      /\ live \in SessionType /\ live.events \in Seq(EventType)
      /\ probe \in Probes(profile) \cup {None} /\ (pending => probe # None)
      /\ step \in 1..(Len(profile.script) + 1)
    <2>1. profile \in Profiles /\ Sound(live, profile.flows) /\ live \in SessionType
        BY DEF SessionInv, Sound
    <2>2. live.events \in Seq(EventType)  BY <2>1 DEF SessionType
    <2> QED  BY <2>1, <2>2, ProfilesAssumption DEF SessionInv
<1>2. /\ late \in Counts /\ polled \in Counts /\ flushed \in Counts /\ RebuiltFrom(live, TheReplay, late, polled, flushed, profile)
      /\ step <= Len(profile.script) => \A t \in TTLs : flushed[t] = 0
    BY DEF ReplayInv
<1> DEFINE Again == Replay(live'.events, profile.flows, profile.target)
\* What is left to show of a step that keeps the profile.
<1>3. ASSUME profile' = profile, late' \in Counts, polled' \in Counts, flushed' \in Counts,
             step' <= Len(profile.script) => \A t \in TTLs : flushed'[t] = 0,
             RebuiltFrom(live', Again, late', polled', flushed', profile)
      PROVE  ReplayInv'
    BY <1>3 DEF ReplayInv, TheReplay
<1>4. ASSUME live'.events = live.events PROVE Again = TheReplay
    BY <1>4 DEF TheReplay
<1>5. CASE Send
    <2>1. /\ step <= Len(profile.script) /\ profile' = profile /\ late' = late /\ flushed' = flushed /\ polled' = polled
          /\ \E p \in profile.script[step] : live' = RecordSend(live, p)
        BY <1>5 DEF Send
    <2>2. PICK p \in profile.script[step] : live' = RecordSend(live, p)
        BY <2>1
    <2>3. p \in Probes(profile)
        <3>1. step \in 1..Len(profile.script)  BY <1>1, <2>1
        <3>2. profile \in Profiles  BY <1>1
        <3> QED  BY <3>1, <3>2, ScriptedProbe
    <2>4. /\ Sound(live', profile.flows) /\ \A t \in TTLs : Alike(live.hops[t], live'.hops[t])
          /\ live'.complete = live.complete /\ live'.dest = live.dest /\ live'.events = live.events
        <3> HIDE DEF Again
        <3>1. profile \in Profiles /\ Sound(live, profile.flows)  BY <1>1
        <3>2. PICK next : next = live'  OBVIOUS
        <3>3. next = RecordSend(live, p)  BY <2>2, <3>2
        <3>4. /\ Sound(next, profile.flows) /\ \A t \in TTLs : Alike(live.hops[t], next.hops[t])
              /\ next.complete = live.complete /\ next.dest = live.dest /\ next.events = live.events
            BY <2>3, <3>1, <3>3, SendSession
        <3> QED  BY <3>2, <3>4
    <2>5. live' \in SessionType  BY <2>4 DEF Sound
    <2>6. RebuiltFrom(live', TheReplay, late, polled, flushed, profile)
        BY <1>2, <2>4, <2>5, RebuiltSame
    <2> HIDE DEF Again
    <2> QED  BY <1>2, <1>3, <1>4, <2>1, <2>4, <2>6
<1>6. CASE Receive
    <2> DEFINE r == ParsedOf(probe)
               found == Some(r) /\ Finds(probe, r)
    <2>1. /\ probe \in Probes(profile) /\ probe # None /\ profile' = profile /\ step' = step
          /\ flushed' = flushed /\ polled' = polled
        BY <1>1, <1>6 DEF Receive
    <2>2. CASE found
        <3>1. live' = Applied(live, probe, r) /\ late' = late
            BY <1>6, <2>2 DEF Receive
        <3> HIDE DEF r
        <3>2. /\ Sound(live', profile.flows) /\ ReachedIn(live, live', probe, r)
              /\ probe.pmtud => live'.hops = live.hops /\ live'.events = live.events
              /\ ~probe.pmtud => CountedIn(live, live', probe)
            BY <1>1, <2>1, <3>1, AppliedSession
        <3>3. live' \in SessionType  BY <3>2 DEF Sound
        <3>4. RebuiltFrom(live', Again, late, polled, flushed, profile)
            <4>1. CASE ~probe.pmtud
                <5>1. CountedIn(live, live', probe)  BY <3>2, <4>1
                <5>2. Again = ApplyReplayEvent(TheReplay, ReplyEvent(probe), profile.flows, profile.target)
                    BY <1>1, <5>1, LongerReplay DEF CountedIn
                <5> HIDE DEF Again
                <5> QED  BY <1>1, <1>2, <2>1, <3>2, <3>3, <5>1, <5>2, RebuiltReply
            <4>2. CASE probe.pmtud
                <5>1. Again = TheReplay  BY <1>4, <3>2, <4>2
                <5>2. live'.hops = live.hops  BY <3>2, <4>2
                <5> HIDE DEF Again
                <5> QED  BY <1>1, <1>2, <2>1, <3>2, <3>3, <4>2, <5>1, <5>2, RebuiltMtu
            <4> QED  BY <4>1, <4>2
        <3> HIDE DEF Again
        <3> QED  BY <1>2, <1>3, <2>1, <3>1, <3>4
    <2>3. CASE ~found
        <3>1. /\ live' = IF Some(r) THEN LogLate(live, r) ELSE live
              /\ late' = IF IsLogged(r) THEN [late EXCEPT ![r.id.ttl] = @ + 1] ELSE late
            BY <1>6, <2>3 DEF Receive, CountLate
        <3>2. r = ParsedOf(probe)  OBVIOUS
        <3> HIDE DEF r
        <3>3. late' \in Counts /\ RebuiltFrom(live', Again, late', polled, flushed, profile)
            BY <2>1, <3>1, <3>2, LateKeeps
        <3> HIDE DEF Again
        <3> QED  BY <1>2, <1>3, <2>1, <3>3
    <2> QED  BY <2>2, <2>3
<1>7. CASE Expire
    <2>1. /\ probe \in Probes(profile) /\ profile' = profile /\ step' = step
          /\ late' = late /\ flushed' = flushed /\ polled' = polled
        <3>1. /\ pending /\ profile' = profile /\ step' = step /\ late' = late /\ flushed' = flushed /\ polled' = polled
            BY <1>7 DEF Expire
        <3> QED  BY <1>1, <3>1
    <2>2. live' = Expired(live, probe)
        BY <1>7 DEF Expire, Expired
    <2>3. /\ Sound(live', profile.flows) /\ live'.complete = live.complete /\ live'.dest = live.dest
          /\ probe.pmtud => live' = live
          /\ ~probe.pmtud => /\ ExpiredIn(live, live', probe) /\ TimeoutEvent(probe) \in EventType
                             /\ live'.events = Append(live.events, TimeoutEvent(probe))
        <3>1. ExpiredAlone(live, live', probe, profile.flows)
            BY <1>1, <2>1, <2>2, ExpiredSession
        <3> QED  BY <3>1 DEF ExpiredAlone
    <2>4. live' \in SessionType  BY <2>3 DEF Sound
    <2>5. RebuiltFrom(live', Again, late, polled, flushed, profile)
        <3>1. CASE probe.pmtud
            <4>1. live' = live  BY <2>3, <3>1
            <4> QED  BY <1>2, <4>1 DEF TheReplay
        <3>2. CASE ~probe.pmtud
            <4>1. /\ ExpiredIn(live, live', probe) /\ TimeoutEvent(probe) \in EventType
                  /\ live'.events = Append(live.events, TimeoutEvent(probe))
                BY <2>3, <3>2
            <4>2. Again = ApplyReplayEvent(TheReplay, TimeoutEvent(probe), profile.flows, profile.target)
                BY <1>1, <4>1, LongerReplay
            <4> HIDE DEF Again
            <4> QED  BY <1>2, <2>3, <2>4, <4>1, <4>2, RebuiltTimeout
        <3> QED  BY <3>1, <3>2
    <2> HIDE DEF Again
    <2> QED  BY <1>2, <1>3, <2>1, <2>5
<1>8. CASE Flush
    <2>1. /\ probe \in Probes(profile) /\ profile' = profile /\ late' = late
          /\ step' = Len(profile.script) + 1 /\ live' = TimedOut(live, probe)
          /\ polled' = polled /\ flushed' = IF probe.pmtud THEN flushed ELSE [flushed EXCEPT ![probe.id.ttl] = @ + 1]
        BY <1>1, <1>8 DEF Flush
    <2>2. /\ Sound(live', profile.flows) /\ live'.complete = live.complete /\ live'.dest = live.dest
          /\ live'.events = live.events
          /\ probe.pmtud => live' = live
          /\ ~probe.pmtud => ExpiredIn(live, live', probe)
        BY <1>1, <2>1, TimedOutSession
    <2>3. Again = TheReplay  BY <1>4, <2>2
    <2> HIDE DEF Again
    <2>4. live' \in SessionType  BY <2>2 DEF Sound
    <2>5. flushed' \in Counts /\ RebuiltFrom(live', TheReplay, late, polled, flushed', profile)
        <3>1. CASE probe.pmtud
            <4>1. live' = live  BY <2>2, <3>1
            <4>2. flushed' = flushed  BY <2>1, <3>1
            <4> QED  BY <1>2, <4>1, <4>2
        <3>2. CASE ~probe.pmtud
            <4>1. ExpiredIn(live, live', probe) /\ probe.id.ttl \in TTLs
                BY <1>1, <2>1, <2>2, <3>2, ProbeIsOK DEF ProbeOK
            <4>2. flushed' = Bump(flushed, probe.id.ttl)  BY <2>1, <3>2 DEF Bump
            <4>3. flushed' \in Counts  BY <1>2, <4>1, <4>2, BumpCounts
            <4>4. RebuiltFrom(live', TheReplay, late, polled, flushed', profile)
                BY <1>2, <2>2, <2>4, <4>1, <4>2, RebuiltFlush
            <4> QED  BY <4>3, <4>4
        <3> QED  BY <3>1, <3>2
    <2>6. ~(step' <= Len(profile.script))  BY <1>1, <2>1
    <2> QED  BY <1>2, <1>3, <2>1, <2>3, <2>5, <2>6
<1>9. CASE ReceiveLate
    <2> DEFINE r == ParsedOf(probe)
    <2>1. /\ probe # None /\ profile' = profile /\ step' = step /\ flushed' = flushed /\ polled' = polled
          /\ live' = IF Some(r) THEN LogLate(live, r) ELSE live
          /\ late' = IF IsLogged(r) THEN [late EXCEPT ![r.id.ttl] = @ + 1] ELSE late
        BY <1>9 DEF ReceiveLate, CountLate
    <2>2. r = ParsedOf(probe)  OBVIOUS
    <2> HIDE DEF r
    <2>3. late' \in Counts /\ RebuiltFrom(live', Again, late', polled, flushed, profile)
        BY <2>1, <2>2, LateKeeps
    <2> HIDE DEF Again
    <2> QED  BY <1>2, <1>3, <2>1, <2>3
<1>10. CASE AnalyzeTick
    <2>1. /\ profile' = profile /\ step' = step /\ late' = late /\ flushed' = flushed /\ polled' = polled
          /\ live' = [live EXCEPT !.hops = Analyze(live.hops)]
        BY <1>10 DEF AnalyzeTick
    <2>2. /\ Sound(live', profile.flows) /\ \A t \in TTLs : Alike(live.hops[t], live'.hops[t])
          /\ live'.complete = live.complete /\ live'.dest = live.dest /\ live'.events = live.events
        BY <1>1, <2>1, AnalyzedSession
    <2>3. live' \in SessionType  BY <2>2 DEF Sound
    <2>4. RebuiltFrom(live', TheReplay, late, polled, flushed, profile)
        BY <1>2, <2>2, <2>3, RebuiltSame
    <2> HIDE DEF Again
    <2> QED  BY <1>2, <1>3, <1>4, <2>1, <2>2, <2>4
<1>11. CASE Reset
    <2>1. /\ step = profile.resetAt /\ profile' = profile /\ step' = step /\ flushed' = flushed
          /\ live' = NewSession /\ late' = [t \in TTLs |-> 0] /\ polled' = [t \in TTLs |-> 0]
        BY <1>11 DEF Reset, ResetStats
    <2>2. step <= Len(profile.script)
        BY <1>1, <2>1, ProfilesAssumption
    <2>3. /\ late' \in Counts /\ polled' \in Counts
          /\ \A t \in TTLs : late'[t] = 0 /\ polled'[t] = 0 /\ flushed[t] = 0
        BY <1>2, <2>1, <2>2 DEF Counts
    <2>4. Again = NewSession
        <3>1. live'.events = <<>> /\ <<>> \in Seq({0}) /\ 0 \in {0}  BY <2>1, NewSessionFields
        <3> QED  BY <3>1, ReplayAppends
    <2> HIDE DEF Again
    <2>5. RebuiltFrom(live', Again, late', polled', flushed, profile)
        BY <1>2, <2>1, <2>3, <2>4, RebuiltNew
    <2> QED  BY <1>2, <1>3, <2>1, <2>3, <2>5
<1>13. CASE PollEcho
    <2> DEFINE r == ParsedOf(probe)
               found == pending /\ Some(r) /\ Finds(probe, r)
    <2>1. /\ probe \in Probes(profile) /\ profile' = profile /\ step' = step /\ late' = late
          /\ flushed' = flushed /\ live' = IF found THEN AppliedPolled(live, probe, r) ELSE live
          /\ polled' = IF found /\ ~probe.pmtud THEN [polled EXCEPT ![probe.id.ttl] = @ + 1] ELSE polled
        BY <1>1, <1>13 DEF PollEcho
    <2> HIDE DEF r, found
    <2>2. CASE found
        <3>1. live' = AppliedPolled(live, probe, r)  BY <2>1, <2>2
        <3>2. /\ Sound(live', profile.flows) /\ PollReachedIn(live, live', probe)
              /\ live'.events = live.events
              /\ probe.pmtud => live'.hops = live.hops
              /\ ~probe.pmtud => PolledIn(live, live', probe)
            BY <1>1, <2>1, <3>1, AppliedPolledSession
        <3>3. live' \in SessionType  BY <3>2 DEF Sound
        <3>4. Again = TheReplay  BY <1>4, <3>2
        <3> HIDE DEF Again
        <3>5. polled' \in Counts /\ RebuiltFrom(live', TheReplay, late, polled', flushed, profile)
            <4>1. CASE probe.pmtud
                <5>1. polled' = polled /\ live'.hops = live.hops  BY <2>1, <3>2, <4>1
                <5> QED  BY <1>1, <1>2, <2>1, <3>2, <3>3, <4>1, <5>1, RebuiltMtu
            <4>2. CASE ~probe.pmtud
                <5>1. polled' = Bump(polled, probe.id.ttl)  BY <2>1, <2>2, <4>2 DEF Bump
                <5>2. probe.id.ttl \in TTLs  BY <1>1, <2>1, ProbeIsOK DEF ProbeOK
                <5>3. polled' \in Counts  BY <1>2, <5>1, <5>2, BumpCounts
                <5>4. PolledIn(live, live', probe)  BY <3>2, <4>2
                <5> QED  BY <1>1, <1>2, <2>1, <3>2, <3>3, <5>1, <5>3, <5>4, RebuiltPolled
            <4> QED  BY <4>1, <4>2
        <3> QED  BY <1>2, <1>3, <2>1, <3>4, <3>5
    <2>3. CASE ~found
        <3>1. live' = live /\ polled' = polled  BY <2>1, <2>3
        <3> QED  BY <1>2, <1>3, <1>4, <2>1, <3>1
    <2> QED  BY <2>2, <2>3
<1>12. CASE UNCHANGED vars
    BY <1>12 DEF vars, ReplayInv, TheReplay
<1> QED  BY <1>5, <1>6, <1>7, <1>8, <1>9, <1>10, <1>11, <1>12, <1>13 DEF Next

LEMMA AlwaysRebuilt ==
    Spec => []ReplayInv
<1>1. SessionInv /\ ReplayInv /\ [Next]_vars => ReplayInv'
    BY NextRebuilt
<1> QED  BY <1>1, InitRebuilt, AlwaysSound, PTL DEF Spec

\* Replaying the log of a session, at any time, rebuilds the hops of the live
\* session up to what the log leaves out: ReplayRebuilds.
THEOREM LogRebuildsSession == Spec => []ReplayRebuilds
<1>1. ASSUME ReplayInv PROVE ReplayRebuilds
    <2> DEFINE r == TheReplay
    <2>1. RebuiltFrom(live, r, late, polled, flushed, profile) /\ late \in Counts /\ polled \in Counts /\ flushed \in Counts
        BY <1>1 DEF ReplayInv
    <2> HIDE DEF r
    <2>2. ASSUME NEW t \in TTLs
          PROVE  LET l == live.hops[t]
                     h == r.hops[t]
                 IN  /\ h.received = l.received + late[t] - polled[t]
                     /\ h.timeouts = l.timeouts - flushed[t]
                     /\ h.sent = l.received - polled[t] + l.timeouts - flushed[t]
                     /\ (late[t] = 0 /\ flushed[t] = 0 /\ polled[t] = 0) =>
                            /\ h.responders = l.responders /\ h.recent = l.recent
                            /\ h.changes = l.changes /\ h.flapPrimary = l.flapPrimary
                            /\ \A f \in FlowIds : /\ h.flows[f].responders = l.flows[f].responders
                                                  /\ h.flows[f].timeouts = l.flows[f].timeouts
        <3> DEFINE l == live.hops[t]
                   h == r.hops[t]
        <3>1. /\ Matches(l, h, late[t], polled[t], flushed[t]) /\ Bounded(h)
              /\ late[t] \in Nat /\ polled[t] \in Nat /\ flushed[t] \in Nat
            BY <2>1 DEF RebuiltFrom, MatchesAll, Replayed, Counts
        <3> HIDE DEF l, h
        <3>2. l.received \in Nat /\ l.timeouts \in Nat /\ h.timeouts \in Nat /\ h.received \in Nat /\ h.sent \in Nat
            <4>1. l \in HopType /\ h \in HopType  BY <3>1 DEF Matches, Bounded
            <4> QED  BY <4>1 DEF HopType
        <3>3. /\ h.received = l.received + late[t] - polled[t]
              /\ h.timeouts = l.timeouts - flushed[t]
              /\ h.sent = l.received - polled[t] + l.timeouts - flushed[t]
            BY <3>1, <3>2 DEF Matches
        <3>4. (late[t] = 0 /\ flushed[t] = 0 /\ polled[t] = 0) => Alike(l, h)
            BY <3>1 DEF Matches
        <3> QED  BY <3>3, <3>4 DEF Alike, l, h
    <2>3. r.totalSent = SumFunction([t \in TTLs |-> r.hops[t].sent])
        BY <2>1 DEF RebuiltFrom, SentAddsUp, SentByHop
    <2>4. r = Replay(live.events, profile.flows, profile.target)
        BY DEF r, TheReplay
    <2> QED  BY <2>2, <2>3, <2>4 DEF ReplayRebuilds
<1> QED  BY <1>1, AlwaysRebuilt, PTL

\* A replay knows the destination the live session knew, or one nearer:
\* ReplayReaches.
THEOREM LogReachesDestination == Spec => []ReplayReaches
<1>1. ReplayInv => ReplayReaches
    BY DEF ReplayInv, RebuiltFrom, Reaches, ReplayReaches, TheReplay
<1> QED  BY <1>1, AlwaysRebuilt, PTL
=============================================================================
