------------------------------ MODULE HopStats ------------------------------
(***************************************************************************)
(* The statistics of a hop and the detectors that read them (the Hop and   *)
(* its parts in state/session.rs), as operators on records.  A responder's *)
(* record is its response count: round-trip times, jitter and percentiles  *)
(* are not modelled.  Ratios are compared by cross-multiplication.         *)
(***************************************************************************)
EXTENDS Integers, Sequences, FiniteSets, FiniteSetsExt, Functions

CONSTANTS
    Addrs,              \* the addresses that may respond
    FlowIds,            \* the flow ids in use, 0 .. num_flows - 1
    RecentWindow,       \* RECENT_WINDOW_SIZE
    MaxRouteChanges,    \* MAX_ROUTE_CHANGES
    NoAddr              \* no responder

ASSUME HopStatsAssumption ==
    /\ IsFiniteSet(Addrs) /\ NoAddr \notin Addrs
    /\ IsFiniteSet(FlowIds) /\ FlowIds \subseteq Nat
    /\ RecentWindow \in Nat \ {0}
    /\ MaxRouteChanges \in Nat \ {0}

PrimaryChangeMargin == 2
MinResponsesForFlap == 5
MinResponsesForPerPacket == 8
MinFlowResponsesForClassification == 4

NoCounts == [a \in Addrs |-> 0]
NewFlow == [sent |-> 0, received |-> 0, timeouts |-> 0, responders |-> NoCounts]
NewNat == [matched |-> 0, rewritten |-> 0]
NewAsymmetry == [asymmetric |-> 0, symmetric |-> 0, suspected |-> FALSE]
NewManip == [normal |-> 0, anomalous |-> 0, noDecrement |-> 0, suspected |-> FALSE, checks |-> 0]
NoRateLimit == [suspected |-> FALSE, checks |-> 0]

NewHop(ttl) ==
    [ttl |-> ttl, sent |-> 0, received |-> 0, timeouts |-> 0, responders |-> NoCounts,
     recent |-> <<>>, flows |-> [f \in FlowIds |-> NewFlow], nat |-> NewNat,
     rateLimit |-> NoRateLimit, changes |-> <<>>, asym |-> NewAsymmetry, manip |-> NewManip,
     flapPrimary |-> NoAddr]

-----------------------------------------------------------------------------
(* Responses and losses.                                                    *)

TopCount(counts) == Max({counts[a] : a \in Addrs})

\* max_by_key over a hash map returns any one of those with most responses.
Leaders(counts) == {a \in Addrs : counts[a] > 0 /\ counts[a] = TopCount(counts)}
Responders(counts) == {a \in Addrs : counts[a] > 0}

Completed(c) == c.received + c.timeouts

\* LossAtLeast(c, p): loss_pct() >= p; a hop without completed probes has none.
LossAtLeast(c, p) == IF Completed(c) = 0 THEN p <= 0 ELSE 100 * c.timeouts >= p * Completed(c)
LossAbove(c, p) == Completed(c) > 0 /\ 100 * c.timeouts > p * Completed(c)

\* Mutants: nothing is dropped; the newest is.
KeepAll(s, n) == s
KeepOldest(s, n) == SubSeq(s, 1, Min({n, Len(s)}))

\* A window that keeps its n newest elements.
KeepNewest(s, n) == IF Len(s) > n THEN Tail(s) ELSE s

RecordResponse(hop, a) ==
    [hop EXCEPT !.received = @ + 1, !.responders[a] = @ + 1,
                !.recent = KeepNewest(Append(@, TRUE), RecentWindow)]

RecordTimeout(hop) ==
    [hop EXCEPT !.timeouts = @ + 1, !.recent = KeepNewest(Append(@, FALSE), RecentWindow)]

RecordFlowResponse(hop, f, a) ==
    [hop EXCEPT !.flows[f].received = @ + 1, !.flows[f].responders[a] = @ + 1]

\* Mutant: only the hop counts a timeout.
RecordFlowTimeoutNot(hop, f) == hop

RecordFlowTimeout(hop, f) == [hop EXCEPT !.flows[f].timeouts = @ + 1]

RecordSent(hop) == [hop EXCEPT !.sent = @ + 1]
RecordFlowSent(hop, f) == [hop EXCEPT !.flows[f].sent = @ + 1]
-----------------------------------------------------------------------------
(* Route changes: the tracked primary follows the leader with a margin.     *)

CountOf(counts, a) == IF a = NoAddr THEN 0 ELSE counts[a]

\* Mutant: the margin is exceeded, not met.
TrackedPrimaryBeyond(hop, a) ==
    IF a = NoAddr \/ TopCount(hop.responders) > CountOf(hop.responders, a) + PrimaryChangeMargin
    THEN CHOOSE b \in Leaders(hop.responders) : TRUE
    ELSE a

\* The leader is the only one ahead by the margin: one count grows at a time.
TrackedPrimary(hop, a) ==
    IF a = NoAddr \/ TopCount(hop.responders) >= CountOf(hop.responders, a) + PrimaryChangeMargin
    THEN CHOOSE b \in Leaders(hop.responders) : TRUE
    ELSE a

RecordResponseDetectingFlaps(hop, a) ==
    LET old == hop.flapPrimary
        h   == RecordResponse(hop, a)
        new == TrackedPrimary(h, old)
        change == [from |-> old, to |-> new, atSeq |-> h.received]
    IN  [h EXCEPT !.flapPrimary = new,
                  !.changes = IF h.received >= MinResponsesForFlap /\ old # NoAddr /\ old # new
                              THEN KeepNewest(Append(@, change), MaxRouteChanges) ELSE @]
-----------------------------------------------------------------------------
(* Load balancing.                                                          *)

SampledFlows(hop) == {f \in FlowIds : hop.flows[f].received >= MinFlowResponsesForClassification}

\* The average share of a flow's most frequent responder is below 70%.
RatiosLow(hop, flows) ==
    LET product  == FoldFunctionOnSet(LAMBDA a, b : a * b, 1, [f \in FlowIds |-> hop.flows[f].received], flows)
        share(f) == TopCount(hop.flows[f].responders) * (product \div hop.flows[f].received)
    IN  10 * MapThenSumSet(share, flows) < 7 * Cardinality(flows) * product

HopRatioLow(hop) == hop.received > 0 /\ 10 * TopCount(hop.responders) < 7 * hop.received

\* The primaries of the flows, one leader of each: several choices on a tie.
ActiveFlows(hop) == {f \in FlowIds : hop.flows[f].received > 0}
Spread(hop) ==
    LET flows == ActiveFlows(hop)
        leads == [f \in flows |-> Leaders(hop.flows[f].responders)]
        same  == flows = {} \/ \E a \in Addrs : \A f \in flows : a \in leads[f]
        apart == \E f, g \in flows : \E a \in leads[f], b \in leads[g] : a # b
    IN  (IF same THEN {FALSE} ELSE {}) \cup (IF apart THEN {TRUE} ELSE {})

\* Mutant: the flows are not looked at before the hop as a whole.
EcmpKindsOfHop(hop) ==
    IF HopRatioLow(hop) /\ hop.received >= MinResponsesForPerPacket THEN {"PerPacket"}
    ELSE {IF s THEN "PerFlow" ELSE "None" : s \in Spread(hop)}

\* The verdicts ecmp_kind can return, one per choice of primaries on ties.
EcmpKinds(hop) ==
    LET several == Cardinality(Responders(hop.responders)) > 1
        sampled == SampledFlows(hop)
        many    == Cardinality(sampled) >= 2
        perPacket(s) ==
            /\ several
            /\ \/ many /\ RatiosLow(hop, sampled)
               \/ ~(many /\ s) /\ hop.received >= MinResponsesForPerPacket /\ HopRatioLow(hop)
    IN  {IF perPacket(s) THEN "PerPacket" ELSE IF s THEN "PerFlow" ELSE "None" : s \in Spread(hop)}
-----------------------------------------------------------------------------
(* NAT, return path and TTL manipulation.                                   *)

RecordNatCheck(hop, original, returned) ==
    IF original = returned THEN [hop EXCEPT !.nat.matched = @ + 1]
    ELSE [hop EXCEPT !.nat.rewritten = @ + 1]

\* The smallest usual initial TTL that is no smaller, minus the TTL.
EstimateReturnHops(ttl) == Min({initial \in {64, 128, 255} : initial >= ttl}) - ttl

RecordResponseTtl(hop, ttl) ==
    LET far   == EstimateReturnHops(ttl) - hop.ttl
        isFar == far >= 3 \/ far <= -3
        asym  == hop.asym.asymmetric + (IF isFar THEN 1 ELSE 0)
        total == hop.asym.asymmetric + hop.asym.symmetric + 1
    IN  [hop EXCEPT !.asym = [asymmetric |-> asym, symmetric |-> total - asym,
                              suspected |-> IF total >= 5 THEN 2 * asym > total ELSE @.suspected]]

\* Mutant: a clear keeps the count of probes that were not decremented.
UpdateManipKeepingEvidence(m) ==
    LET total == m.normal + m.anomalous
    IN  IF m.checks >= 10 THEN [m EXCEPT !.suspected = FALSE, !.checks = 0, !.anomalous = 0]
        ELSE IF total >= 5 /\ (10 * m.anomalous >= 3 * total \/ m.noDecrement > 0)
        THEN [m EXCEPT !.suspected = TRUE]
        ELSE m

\* Ten normal samples in a row clear the verdict and the evidence for it.
UpdateManip(m) ==
    LET total == m.normal + m.anomalous
    IN  IF m.checks >= 10
        THEN [m EXCEPT !.suspected = FALSE, !.checks = 0, !.anomalous = 0, !.noDecrement = 0]
        ELSE IF total >= 5 /\ (10 * m.anomalous >= 3 * total \/ m.noDecrement > 0)
        THEN [m EXCEPT !.suspected = TRUE]
        ELSE m

\* A quoted TTL above 1 is anomalous, one equal to the TTL sent doubly so.
RecordTtlManipCheck(hop, quoted) ==
    LET m == hop.manip
        sample ==
            IF quoted > 1 THEN [m EXCEPT !.anomalous = @ + 1, !.checks = 0]
            ELSE [m EXCEPT !.normal = @ + 1, !.checks = IF m.suspected THEN @ + 1 ELSE @]
        undecremented ==
            IF quoted = hop.ttl /\ hop.ttl > 1
            THEN [sample EXCEPT !.noDecrement = @ + 1, !.checks = 0] ELSE sample
    IN  [hop EXCEPT !.manip = UpdateManip(undecremented)]
=============================================================================
