------------------------------ MODULE RateLimit ------------------------------
(***************************************************************************)
(* The analysis that tells a router's limit on ICMP errors from loss       *)
(* (state/ratelimit.rs).  hops maps every TTL of a session to its hop; the *)
(* worker runs Analyze on each session every two seconds.                  *)
(***************************************************************************)
EXTENDS HopStats

CONSTANT MaxChecks      \* u8::MAX, where negative_checks saturates; 5 is the last threshold

ASSUME RateLimitAssumption == MaxChecks \in 5..255

Ttls(hops) == DOMAIN hops

\* The hop that find_next_responding_hop_loss takes its answer from, as a set.
NextRespondingHop(hops, ttl) ==
    LET healthy == {t \in Ttls(hops) : t > ttl /\ hops[t].received > 0 /\ Completed(hops[t]) >= 5}
    IN  IF healthy = {} THEN {} ELSE {hops[Min(healthy)]}

Losses(recent) == Cardinality({i \in 1..Len(recent) : ~recent[i]})

\* The losses l of thirds of n_i results differ by less than 10 percent points.
IsStableLossRatio(recent) ==
    LET third == Len(recent) \div 3
        part  == <<SubSeq(recent, 1, third), SubSeq(recent, third + 1, 2 * third),
                   SubSeq(recent, 2 * third + 1, Len(recent))>>
    IN  /\ Len(recent) >= 20
        /\ \A i, j \in 1..3 :
               10 * (Losses(part[i]) * Len(part[j]) - Losses(part[j]) * Len(part[i]))
                   < Len(part[i]) * Len(part[j])

RecentLossAbove(recent, p) == 100 * Losses(recent) > p * Len(recent)

\* The losses of the flows with five probes sent deviate by less than 5 percent
\* points, and one is at least that: with L in tenths of a percent rounded down,
\* n * sum of L^2 - (sum of L)^2 < 2500 n^2.
FlowLoss(flow) == IF Completed(flow) = 0 THEN 0 ELSE (1000 * flow.timeouts) \div Completed(flow)

IsUniformFlowLoss(hop) ==
    LET flows == {f \in FlowIds : hop.flows[f].sent >= 5}
        n     == Cardinality(flows)
        loss(f)   == FlowLoss(hop.flows[f])
        square(f) == loss(f) * loss(f)
        sum   == MapThenSumSet(loss, flows)
    IN  /\ n >= 2
        /\ \E f \in flows : loss(f) >= 50
        /\ n * MapThenSumSet(square, flows) - sum * sum < 2500 * n * n

DetectRateLimiting(hops, ttl) ==
    LET hop == hops[ttl]
    IN  /\ Completed(hop) >= 10
        /\ LossAtLeast(hop, 5)
        /\ \/ LossAbove(hop, 15) /\ \E next \in NextRespondingHop(hops, ttl) : ~LossAtLeast(next, 5)
           \/ IsUniformFlowLoss(hop)
           \/ IsStableLossRatio(hop.recent) /\ RecentLossAbove(hop.recent, 10)

\* Mutant: one analysis without a match clears the verdict.
ClearsAtOnce(hops, ttl, checks) == TRUE

\* Mutant: there is no clearing by five analyses alone.
ClearsOnlyQuickly(hops, ttl, checks) ==
    /\ Completed(hops[ttl]) > 20 /\ checks >= 2
    /\ ~LossAtLeast(hops[ttl], 5) \/ \E next \in NextRespondingHop(hops, ttl) : LossAtLeast(next, 10)

\* Whether `checks` analyses in a row without a match clear the verdict.
Clears(hops, ttl, checks) ==
    LET hop == hops[ttl]
        downstreamHigh == \E next \in NextRespondingHop(hops, ttl) : LossAtLeast(next, 10)
    IN  /\ Completed(hop) > 20
        /\ checks >= 5 \/ (checks >= 2 /\ (~LossAtLeast(hop, 5) \/ downstreamHigh))

NewVerdict(hops, ttl) ==
    LET old == hops[ttl].rateLimit
        checks == IF old.checks = MaxChecks THEN MaxChecks ELSE old.checks + 1
    IN  IF DetectRateLimiting(hops, ttl) THEN [suspected |-> TRUE, checks |-> 0]
        ELSE IF ~old.suspected THEN old
        ELSE IF Clears(hops, ttl, checks) THEN NoRateLimit
        ELSE [old EXCEPT !.checks = checks]

\* Every hop is judged by the counters alone, so the order does not matter.
Analyze(hops) == [t \in Ttls(hops) |-> [hops[t] EXCEPT !.rateLimit = NewVerdict(hops, t)]]
=============================================================================
