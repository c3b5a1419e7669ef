----------------------------- MODULE SessionStats -----------------------------
(***************************************************************************)
(* One session fed by real packets: an engine sends a probe, the network   *)
(* answers it or not, the receiver parses what arrives, finds the pending  *)
(* probe, and updates the statistics, the detectors and the event log of   *)
(* the session; the analysis worker and the user act in between.  The log  *)
(* is what a replay rebuilds the session from.                             *)
(*                                                                         *)
(* One probe is outstanding at a time (ProbeTracking has the interleaving  *)
(* of many).  A profile is a configuration and a script: for every probe   *)
(* the set of things that may happen to it, so that long histories, which  *)
(* the thresholds ask for, stay few.                                       *)
(***************************************************************************)
EXTENDS Wire, RateLimit

CONSTANTS
    Profiles,       \* the profiles a behaviour may follow
    MaxTtl          \* config.max_ttl

ASSUME SessionStatsAssumption == MaxTtl \in 1..255

VARIABLES
    profile,    \* the profile followed: target, flows, resets and script
    step,       \* the next entry of the script
    probe,      \* the probe the network holds and its fate, or None
    pending,    \* whether the map still has its entry
    live,       \* the session
    late,       \* late replies logged since the last reset, per TTL (history)
    flushed,    \* timeouts of the final flush, per TTL (history)
    polled      \* responses the engine counted since the last reset, per TTL (history)

vars == <<profile, step, probe, pending, live, late, flushed, polled>>
-----------------------------------------------------------------------------
(* What a profile may ask for.                                              *)

Byte     == 0..255
Word     == 0..(W16 - 1)
Maybe(S) == S \cup {None}

Labels     == [label : Nat, bottom : BOOLEAN]
Objects    == [fits : BOOLEAN, class : {"mpls", "interface", "other"}, stack : Seq(Labels),
               role : 0..3, whole : BOOLEAN, info : Nat]
Extensions == [length : Byte, at : Nat, version : 0..15, objects : Seq(Objects)]
Headers    == {"hopbyhop", "routing", "destopts", "fragment"}
FateKinds  == {"lost", "flushed", "answered", "late"}

Fates ==
    [kind : FateKinds, from : Addrs, echo : BOOLEAN, foreign : BOOLEAN, type : Byte, code : Byte,
     mtu : Nat, quotedTtl : Byte, bytes : Nat, chain : Seq(Headers), ext : Maybe(Extensions),
     port : Maybe(Word), ident : Maybe(Word), dgram : BOOLEAN, ttl : Maybe(Byte)]

\* A probe of one of the session's flows and TTLs to its target; MTU probes only
\* where they are announced.  Echo requests alone have an identifier that another
\* may have, and are answered by an echo; they alone have no port to rewrite and
\* no flows, and packets of IPv4 no extension headers.
Probes(q) ==
    {p \in [id : [ttl : 1..MaxTtl, seq : Byte], flow : {f \in FlowIds : f < q.flows},
            pmtud : IF q.mtuProbes THEN BOOLEAN ELSE {FALSE}, proto : {"icmp", "udp", "tcp"},
            fam : {4, 6}, dest : {q.target}, fate : Fates] :
        /\ (p.fate.echo \/ p.fate.foreign \/ Some(p.fate.ident)) => p.proto = "icmp"
        /\ p.proto = "icmp" => q.flows = 1
        /\ Some(p.fate.port) => p.proto # "icmp"
        /\ p.fam = 4 => p.fate.chain = <<>>}

\* What the parsers make of a message.
Interfaces == [role : 0..3, info : Nat]
Responses ==
    [id : [ttl : 1..MaxTtl, seq : Byte], pmtud : BOOLEAN, code : Byte, port : Maybe(Word),
     type : {"EchoReply", "TimeExceeded", "DestUnreachable", "PacketTooBig"}, mtu : Maybe(Nat),
     quotedTtl : Maybe(Byte), dest : Addrs, labels : Seq(Labels), interfaces : Seq(Interfaces)]

ASSUME ResponsesAssumption == None \notin Responses

\* The user resets before the last probe was sent: after it the program may have
\* ended.
ASSUME ProfilesAssumption ==
    \A q \in Profiles :
        /\ q.target \in Addrs
        /\ q.flows \in Nat \ {0} /\ 0..(q.flows - 1) \subseteq FlowIds
        /\ q.analyzed \in BOOLEAN /\ q.mtuProbes \in BOOLEAN /\ q.polls \in BOOLEAN
        /\ Len(q.script) \in Nat /\ q.resetAt \in 0..Len(q.script)
        /\ \A i \in 1..Len(q.script) : q.script[i] \subseteq Probes(q)
        /\ None \notin Probes(q)
-----------------------------------------------------------------------------
(* The session.                                                             *)

TTLs == 1..MaxTtl

NewSession ==
    [hops |-> [t \in TTLs |-> NewHop(t)], complete |-> FALSE, dest |-> None, totalSent |-> 0,
     events |-> <<>>]

\* Every statistic, detector and event goes; the structure stays.
ResetStats(s) == NewSession

\* dest_ttl only ever gets smaller.
Reach(s, ttl) ==
    [s EXCEPT !.complete = TRUE, !.dest = IF @ = None \/ ttl < @ THEN ttl ELSE @]

RecordEvent(s, ttl, flow, outcome, addr) ==
    [s EXCEPT !.events = Append(@, [ttl |-> ttl, flow |-> flow, outcome |-> outcome, addr |-> addr])]

\* Flaps are looked for in single-flow mode only.
RecordResponseOf(hop, addr, flows) ==
    IF flows = 1 THEN RecordResponseDetectingFlaps(hop, addr) ELSE RecordResponse(hop, addr)

\* Mutant: a replayed timeout does not enter the flow's statistics.
ReplayHopWithoutFlow(s, e, flows) ==
    CASE e.outcome = "Timeout" -> RecordTimeout(RecordSent(s.hops[e.ttl]))
      [] OTHER -> RecordFlowResponse(RecordResponseOf(RecordSent(s.hops[e.ttl]), e.addr, flows), 0, e.addr)

ReplayHop(s, e, flows) ==
    CASE e.outcome = "Reply" ->
            RecordFlowResponse(RecordResponseOf(RecordSent(s.hops[e.ttl]), e.addr, flows), e.flow, e.addr)
      [] e.outcome = "Timeout" ->
            RecordFlowTimeout(RecordTimeout(RecordSent(s.hops[e.ttl])), e.flow)
      [] e.outcome = "LateReply" ->
            RecordFlowResponse(RecordResponseOf(s.hops[e.ttl], e.addr, flows), e.flow, e.addr)

ApplyReplayEvent(s, e, flows, target) ==
    LET t == [s EXCEPT !.hops[e.ttl] = ReplayHop(s, e, flows),
                       !.totalSent = IF e.outcome = "LateReply" THEN @ ELSE @ + 1]
    IN  IF e.outcome = "Reply" /\ e.addr = target THEN Reach(t, e.ttl) ELSE t

\* What replaying a log from its first event makes of a new session.
Replay(events, flows, target) ==
    FoldLeft(LAMBDA s, e : ApplyReplayEvent(s, e, flows, target), NewSession, events)
-----------------------------------------------------------------------------
(* A probe and its fate, from a script.  A fate is lost, flushed (pending   *)
(* when the program ends), answered, or late (answered after its timeout). *)

PortOf(p) == IF p.proto = "icmp" THEN None ELSE FlowPort(p.flow)

\* The message a router or the target returns; a NAT or a macOS kernel may have
\* rewritten the probe, and a foreign message answers another process's probe.
Message(p) ==
    LET f      == p.fate
        sent   == Encode(p)
        nat    == IF Some(f.port) THEN RewritePort(sent, f.port) ELSE sent
        packet == IF Some(f.ident) THEN RewriteIdent(nat, f.ident) ELSE nat
        whose  == IF f.foreign THEN [packet EXCEPT !.words = [@ EXCEPT ![3] = Ident + 1, ![5] = Ident + 1]]
                  ELSE packet
    IN  IF f.echo THEN EchoReply(whose)
        ELSE IcmpError(whose, f.type, f.code, f.mtu, f.quotedTtl, f.bytes, f.chain, f.ext)

ParsedOf(p) == ParseIcmpResponse(Message(p), p.fate.from, p.fate.dgram)

\* Whether a response takes the only pending entry: with its probe id, and no
\* port of another flow.  The fallback tries the session's target whatever
\* destination was quoted.
Finds(p, r) ==
    LET hint == DeriveFlowHint(r.port, profile.flows)
    IN  /\ r.id = p.id
            /\ hint \in {None, p.flow}
-----------------------------------------------------------------------------
Init ==
    /\ profile \in Profiles
    /\ step = 1
    /\ probe = None
    /\ pending = FALSE
    /\ live = NewSession
    /\ late = [t \in TTLs |-> 0]
    /\ flushed = [t \in TTLs |-> 0]
    /\ polled = [t \in TTLs |-> 0]

\* An MTU probe is not counted: it does not measure the hop.
RecordSend(s, p) ==
    IF p.pmtud THEN s
    ELSE [s EXCEPT !.totalSent = @ + 1,
                   !.hops[p.id.ttl] = RecordFlowSent(RecordSent(@), p.flow)]

Send ==
    /\ probe = None
    /\ step <= Len(profile.script)
    /\ \E p \in profile.script[step] :
        /\ probe' = p
        /\ live' = RecordSend(live, p)
    /\ pending' = TRUE
    /\ step' = step + 1
    /\ UNCHANGED <<profile, late, flushed, polled>>

RespondedHop(hop, p, r) ==
    LET flows  == profile.flows
        stats  == RecordFlowResponse(RecordResponseOf(hop, p.fate.from, flows), p.flow, p.fate.from)
        nat    == IF Some(PortOf(p)) /\ Some(r.port) THEN RecordNatCheck(stats, PortOf(p), r.port)
                  ELSE stats
        return == IF flows = 1 /\ Some(p.fate.ttl) THEN RecordResponseTtl(nat, p.fate.ttl) ELSE nat
    IN  IF r.type = "TimeExceeded" /\ r.code = 0 THEN RecordTtlManipCheck(return, r.quotedTtl)
        ELSE return

\* Mutant: an error from the target completes the session like its echo reply.
AppliedAnyAnswer(s, p, r) ==
    LET counted == RecordEvent([s EXCEPT !.hops[p.id.ttl] = RespondedHop(@, p, r)],
                               p.id.ttl, p.flow, "Reply", p.fate.from)
    IN  IF r.type # "EchoReply" THEN Reach(counted, p.id.ttl) ELSE counted

Applied(s, p, r) ==
    LET counted == IF p.pmtud THEN s
                   ELSE RecordEvent([s EXCEPT !.hops[p.id.ttl] = RespondedHop(@, p, r)],
                                    p.id.ttl, p.flow, "Reply", p.fate.from)
    IN  IF r.type = "EchoReply" /\ p.fate.from = p.dest THEN Reach(counted, p.id.ttl) ELSE counted

\* A response that finds no pending probe is logged when it names a session.
LogLate(s, r) ==
    LET hint == DeriveFlowHint(r.port, profile.flows)
    IN  IF Some(r.dest) /\ r.dest = profile.target
        THEN RecordEvent(s, r.id.ttl, IF Some(hint) THEN hint ELSE 0, "LateReply", probe.fate.from)
        ELSE s

IsLogged(r) == Some(r) /\ Some(r.dest) /\ r.dest = profile.target

CountLate(r) == late' = IF IsLogged(r) THEN [late EXCEPT ![r.id.ttl] = @ + 1] ELSE late

\* Linux hands the echo replies of IPv6 to the socket that sent the request: the
\* engine reads them there, the receiver never sees them.
Polled(p) == profile.polls /\ p.fam = 6 /\ p.fate.echo

\* The message arrives while the entry is there, and takes it or leaves it.
Receive ==
    /\ pending /\ probe.fate.kind = "answered"
    /\ ~Polled(probe)
    /\ LET r == ParsedOf(probe)
           found == Some(r) /\ Finds(probe, r)
       IN  IF found
           THEN /\ live' = Applied(live, probe, r)
                /\ probe' = None /\ pending' = FALSE
                /\ UNCHANGED late
           ELSE /\ live' = IF Some(r) THEN LogLate(live, r) ELSE live
                /\ probe' = [probe EXCEPT !.fate.kind = "lost"]
                /\ CountLate(r)
                /\ UNCHANGED pending
    /\ UNCHANGED <<profile, step, flushed, polled>>

\* What the engine makes of an echo reply it reads: the hop and the destination,
\* as the receiver would, and no event.
AppliedPolled(s, p, r) ==
    LET counted == IF p.pmtud THEN s ELSE [s EXCEPT !.hops[p.id.ttl] = RespondedHop(@, p, r)]
    IN  IF p.fate.from = p.dest THEN Reach(counted, p.id.ttl) ELSE counted

\* poll_ipv6_echo_reply: a reply without an entry is dropped, late ones too.
PollEcho ==
    /\ probe # None /\ Polled(probe)
    /\ pending => probe.fate.kind = "answered"
    /\ LET r == ParsedOf(probe)
           found == pending /\ Some(r) /\ Finds(probe, r)
       IN  /\ live' = IF found THEN AppliedPolled(live, probe, r) ELSE live
           /\ polled' = IF found /\ ~probe.pmtud THEN [polled EXCEPT ![probe.id.ttl] = @ + 1] ELSE polled
           /\ pending' = (pending /\ ~found)
           /\ probe' = IF pending' THEN [probe EXCEPT !.fate.kind = "lost"] ELSE None
    /\ UNCHANGED <<profile, step, late, flushed>>

TimedOut(s, p) ==
    IF p.pmtud THEN s
    ELSE [s EXCEPT !.hops[p.id.ttl] = RecordFlowTimeout(RecordTimeout(@), p.flow)]

\* The timeout passes: the cleanup logs it.
Expire ==
    /\ pending /\ probe.fate.kind \in {"lost", "late"}
    /\ live' = IF probe.pmtud THEN live
               ELSE RecordEvent(TimedOut(live, probe), probe.id.ttl, probe.flow, "Timeout", NoAddr)
    /\ pending' = FALSE
    /\ probe' = IF probe.fate.kind = "late" THEN probe ELSE None
    /\ UNCHANGED <<profile, step, late, flushed, polled>>

\* The program ends first: the flush counts the timeout and logs nothing.
Flush ==
    /\ pending /\ probe.fate.kind = "flushed"
    /\ live' = TimedOut(live, probe)
    /\ flushed' = IF probe.pmtud THEN flushed ELSE [flushed EXCEPT ![probe.id.ttl] = @ + 1]
    /\ pending' = FALSE
    /\ probe' = None
    /\ step' = Len(profile.script) + 1
    /\ UNCHANGED <<profile, late, polled>>

ReceiveLate ==
    /\ probe # None /\ ~pending
    /\ ~Polled(probe)
    /\ LET r == ParsedOf(probe)
       IN  /\ live' = IF Some(r) THEN LogLate(live, r) ELSE live
           /\ CountLate(r)
    /\ probe' = None
    /\ UNCHANGED <<profile, step, pending, flushed, polled>>

\* A tick of the analysis worker.
AnalyzeTick ==
    /\ profile.analyzed
    /\ live' = [live EXCEPT !.hops = Analyze(live.hops)]
    /\ UNCHANGED <<profile, step, probe, pending, late, flushed, polled>>

\* The user resets the statistics, at the step the profile names; a probe in
\* flight completes against the new counters.
Reset ==
    /\ step = profile.resetAt /\ live.events # <<>>
    /\ live' = ResetStats(live)
    /\ late' = [t \in TTLs |-> 0]
    /\ polled' = [t \in TTLs |-> 0]
    /\ UNCHANGED <<profile, step, probe, pending, flushed>>

Next == Send \/ Receive \/ PollEcho \/ Expire \/ Flush \/ ReceiveLate \/ AnalyzeTick \/ Reset

\* The worker's interval ticks on while the program runs.
Spec == Init /\ [][Next]_vars /\ WF_vars(AnalyzeTick)
-----------------------------------------------------------------------------
(* Properties.                                                              *)

Outcomes == {"Reply", "Timeout", "LateReply"}

\* The types of what the session keeps.
TypeOK ==
    /\ profile \in Profiles
    /\ step \in 1..(Len(profile.script) + 1)
    /\ probe \in Probes(profile) \cup {None}
    /\ pending \in BOOLEAN /\ (pending => probe # None)
    /\ live.complete \in BOOLEAN /\ live.dest \in TTLs \cup {None} /\ live.totalSent \in Nat
    /\ \A t \in TTLs :
        LET h == live.hops[t] IN
        /\ {h.sent, h.received, h.timeouts} \subseteq Nat
        /\ Len(h.recent) <= RecentWindow /\ Len(h.changes) <= MaxRouteChanges
        /\ h.flapPrimary \in Addrs \cup {NoAddr}
        /\ h.rateLimit.checks \in 0..MaxChecks /\ h.manip.checks \in 0..9
    /\ \A i \in 1..Len(live.events) :
        live.events[i].ttl \in TTLs /\ live.events[i].flow \in FlowIds /\ live.events[i].outcome \in Outcomes

\* A hop's responses are those of its responders, and of its flows; its timeouts
\* those of its flows; the recent window holds as many results as fit; a probe
\* with a source port that is answered by a packet with one is a NAT check.
FlowAccounting ==
    \A t \in TTLs :
        LET h == live.hops[t] IN
        /\ h.received = SumFunction(h.responders)
        /\ \A a \in Addrs : h.responders[a] = SumFunction([f \in FlowIds |-> h.flows[f].responders[a]])
        /\ \A f \in FlowIds : h.flows[f].received = SumFunction(h.flows[f].responders)
        /\ h.timeouts = SumFunction([f \in FlowIds |-> h.flows[f].timeouts])
        /\ Len(h.recent) = Min({RecentWindow, Completed(h)})
        /\ h.nat.matched + h.nat.rewritten <= h.received

\* record_response_detecting_flaps: the margin hides noise but no real change.
\* No responder is ever two ahead of the tracked primary, so the leader it picks
\* is unique whatever order the hash map has; the tracked primary did lead.
FlapTracksPrimary ==
    \A t \in TTLs :
        LET h == live.hops[t] IN
        (profile.flows = 1 /\ h.received > 0) =>
            /\ h.flapPrimary # NoAddr
            /\ TopCount(h.responders) < h.responders[h.flapPrimary] + PrimaryChangeMargin

\* The route changes shown form one chain in time that ends at the tracked
\* primary, also after the oldest were dropped.
RouteChangesChain ==
    \A t \in TTLs :
        LET h == live.hops[t]
            n == Len(h.changes)
        IN  /\ \A i \in 1..n : h.changes[i].from # h.changes[i].to
            /\ \A i \in 1..(n - 1) : /\ h.changes[i].to = h.changes[i + 1].from
                                     /\ h.changes[i].atSeq < h.changes[i + 1].atSeq
            /\ n > 0 => h.changes[n].to = h.flapPrimary

\* Flows that each keep to one responder, two of them well sampled, are never
\* taken for per-packet balancing, and different responders always show.
EcmpSettled ==
    \A t \in TTLs :
        LET h == live.hops[t]
            pinned == \A f \in ActiveFlows(h) : Cardinality(Responders(h.flows[f].responders)) = 1
        IN  (pinned /\ Cardinality(SampledFlows(h)) >= 2) =>
                EcmpKinds(h) = {IF Cardinality(Responders(h.responders)) > 1 THEN "PerFlow" ELSE "None"}

\* TTL manipulation is suspected on evidence that still counts: clearing the
\* verdict forgets the anomalies, those of probes without decrement included.
ManipEvidence ==
    \A t \in TTLs :
        LET m == live.hops[t].manip IN
        /\ m.noDecrement <= m.anomalous
        /\ m.suspected => m.anomalous > 0
        /\ (m.noDecrement > 0 /\ m.normal + m.anomalous >= 5) => m.suspected

\* Replaying the log gives the hops of the live session up to what the code is
\* known to leave out of one of the two: a late reply is counted by the replay
\* alone, a response the engine polled and a timeout of the final flush by the
\* live session alone.  Without those, the same responders, flows, route changes
\* and recent window.
ReplayRebuilds ==
    LET r == Replay(live.events, profile.flows, profile.target)
    IN  /\ \A t \in TTLs :
            LET l == live.hops[t]
                h == r.hops[t]
            IN  /\ h.received = l.received + late[t] - polled[t]
                /\ h.timeouts = l.timeouts - flushed[t]
                /\ h.sent = l.received - polled[t] + l.timeouts - flushed[t]
                /\ (late[t] = 0 /\ flushed[t] = 0 /\ polled[t] = 0) =>
                    /\ h.responders = l.responders /\ h.recent = l.recent
                    /\ h.changes = l.changes /\ h.flapPrimary = l.flapPrimary
                    /\ \A f \in FlowIds : /\ h.flows[f].responders = l.flows[f].responders
                                          /\ h.flows[f].timeouts = l.flows[f].timeouts
        /\ r.totalSent = SumFunction([t \in TTLs |-> r.hops[t].sent])

\* A replay knows the destination the live session knew, at the same distance or
\* nearer (an error from the target counts for it too), unless an echo reply that
\* was never logged may have told the live session.
ReplayReaches ==
    LET r == Replay(live.events, profile.flows, profile.target)
    IN  (live.complete /\ ~profile.mtuProbes /\ polled[live.dest] = 0) =>
            r.complete /\ r.dest <= live.dest

\* What an answer must quote for its probe to be recognised: the ICMP and TCP
\* headers are in the eight bytes every router quotes, the UDP payload is not;
\* a fragment and a foreign identifier hide the probe; an identifier that was
\* rewritten is found again in the payload copy when twelve bytes are quoted.
Recognisable(p) ==
    LET f == p.fate
        kept == f.bytes \div 2
    IN  IF f.echo THEN ~f.foreign
        ELSE /\ \A i \in 1..Len(f.chain) : f.chain[i] # "fragment"
             /\ CASE p.proto = "icmp" -> ~f.foreign /\ kept >= (IF f.ident \in {None, Ident} THEN 4 ELSE 6)
                  [] p.proto = "tcp"  -> kept >= 4
                  [] p.proto = "udp"  -> kept >= 7
             /\ f.type \in (IF p.fam = 4 THEN {3, 11} ELSE {1, 2, 3})

\* Own probes are found, through quoting, NAT, rewriting and extension headers,
\* exactly when enough of them comes back; a port that was not rewritten gives
\* the flow; and the message of a foreign process is told from ours.
OwnProbeFound ==
    (probe # None /\ probe.fate.kind \in {"answered", "late"}) =>
        LET r == ParsedOf(probe) IN
        /\ Some(r) <=> Recognisable(probe)
        /\ Some(r) => /\ Finds(probe, r)
                      /\ r.dest = IF probe.fate.echo THEN probe.fate.from ELSE profile.target
                      /\ r.pmtud = (probe.pmtud /\ probe.fate.echo)

\* An interface role is reported once however often its object is repeated, and
\* the labels come from stacks of an extension of the right version and place.
ExtensionsRead ==
    (probe # None /\ probe.fate.kind \in {"answered", "late"}) =>
        LET r == ParsedOf(probe)
            e == probe.fate.ext
        IN  Some(r) =>
            /\ \A i, j \in 1..Len(r.interfaces) : r.interfaces[i].role = r.interfaces[j].role => i = j
            /\ (r.labels # <<>> \/ r.interfaces # <<>>) =>
                   /\ Some(e) /\ e.version = 2
                   /\ ToSet(r.labels) \subseteq UNION {ToSet(e.objects[i].stack) : i \in 1..Len(e.objects)}
            /\ \A i \in 1..(Len(r.labels) - 1) : r.labels[i].bottom => Cardinality(
                   {k \in 1..Len(e.objects) : e.objects[k].class = "mpls"}) > 1

\* A port that no NAT rewrote tells the flow (derive_flow_hint).
FlowHintKept ==
    (probe # None /\ Some(PortOf(probe))) => DeriveFlowHint(PortOf(probe), profile.flows) = probe.flow

\* The analysis that follows one that matched never withdraws the verdict.
NoFlicker ==
    [][\A t \in TTLs : (live.hops[t].rateLimit.suspected /\ live.hops[t].rateLimit.checks = 0) =>
            live'.hops[t].rateLimit.suspected \/ live'.totalSent = 0]_vars

Done == step > Len(profile.script) /\ probe = None

\* When the traffic has ended the verdict on every hop with enough probes comes
\* to what its counters say, whatever it was before.
VerdictSettles ==
    \A t \in TTLs :
        <>[]((Done /\ profile.analyzed /\ Completed(live.hops[t]) > 20) =>
                (live.hops[t].rateLimit.suspected <=> DetectRateLimiting(live.hops, t)))
=============================================================================
