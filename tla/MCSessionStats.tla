---------------------------- MODULE MCSessionStats ----------------------------
(***************************************************************************)
(* Profiles for SessionStats: what the network does to each probe of a     *)
(* script.  A step with several entries branches; thresholds that need     *)
(* long histories are reached with steps that do not.                      *)
(***************************************************************************)
EXTENDS SessionStats

CONSTANTS A, B, T       \* two routers and the target

MCAddrs == {A, B, T}

\* An ordinary Time Exceeded of router A.
Fate == [kind |-> "answered", from |-> A, echo |-> FALSE, foreign |-> FALSE, type |-> 11,
         code |-> 0, mtu |-> 0, quotedTtl |-> 1, bytes |-> 28, chain |-> <<>>, ext |-> None,
         port |-> None, ident |-> None, dgram |-> FALSE, ttl |-> None]
By(a) == [Fate EXCEPT !.from = a]
Echo == [Fate EXCEPT !.echo = TRUE, !.from = T]
Lost == [Fate EXCEPT !.kind = "lost"]
Late(f) == [f EXCEPT !.kind = "late"]
Flushed == [Fate EXCEPT !.kind = "flushed"]

Probe(proto, fam, ttl, seq, flow, fate) ==
    [id |-> [ttl |-> ttl, seq |-> seq % 256], flow |-> flow, pmtud |-> FALSE, proto |-> proto,
     fam |-> fam, dest |-> T, fate |-> fate]
Icmp(ttl, seq, fate) == Probe("icmp", 4, ttl, seq, 0, fate)
Udp(ttl, seq, flow, fate) == Probe("udp", 4, ttl, seq, flow, fate)

Profile(flows, analyzed, resetAt, script) ==
    [target |-> T, flows |-> flows, analyzed |-> analyzed, resetAt |-> resetAt,
     mtuProbes |-> FALSE, polls |-> FALSE, script |-> script]

\* Every order of eleven answers of two routers.
AnyFlaps == Profile(1, FALSE, 0, [i \in 1..11 |-> {Icmp(2, i, By(a)) : a \in {A, B}}])

\* Runs of one router, then of the other: three route changes; a reset.
Runs == <<A, B, B, B, A, A, A, A, B, B, B, B, A, A, A, A>>
LongFlaps(resetAt) == Profile(1, FALSE, resetAt,
    [i \in 1..Len(Runs) |-> IF i \in {6, 11} THEN {Icmp(2, i, By(a)) : a \in {A, B}} ELSE {Icmp(2, i, By(Runs[i]))}])

\* Two flows, each answered by either router, or not at all.
Flows == Profile(2, FALSE, 0,
    [i \in 1..10 |-> {Udp(2, i, i % 2, f) : f \in {By(A), By(B)} \cup (IF i = 3 THEN {Lost} ELSE {})}])

\* TTL 2 loses every third probe for a while, TTL 3 none.
Limited == Profile(1, TRUE, 0,
    [i \in 1..80 |-> LET k == (i + 1) \div 2 IN
        {IF i % 2 = 0 THEN Icmp(3, k, By(B)) ELSE IF k % 3 = 0 /\ k <= 18 THEN Icmp(2, k, Lost) ELSE Icmp(2, k, By(A))}])

\* The last hop loses every fourth probe of two flows, then none, or a burst.
LimitedFlows(burst) == Profile(2, TRUE, 30,
    [i \in 1..60 |-> {Udp(3, i, i % 2,
        IF (i < 24 /\ i % 8 \in {0, 1}) \/ (burst /\ i \in 30..40) THEN Lost ELSE By(A))}])

\* A verdict within twenty probes, and the middle of the window behind it.
Downstream == Profile(1, TRUE, 0,
    [i \in 1..56 |-> LET k == (i + 1) \div 2 IN
        {IF i % 2 = 0 THEN Icmp(3, k, IF k > 14 THEN Lost ELSE By(B))
         ELSE Icmp(2, k, IF k % 4 = 0 THEN Lost ELSE By(A))}])

\* Quoted TTLs as they should be, anomalous, and undecremented; response TTLs.
Quoted == {[Fate EXCEPT !.ttl = 61], [Fate EXCEPT !.quotedTtl = 3, !.ttl = 50],
           [Fate EXCEPT !.quotedTtl = 5]}
Detectors == Profile(1, FALSE, 0,
    [i \in 1..19 |-> {Icmp(3, i, f) : f \in IF i <= 6 \/ i >= 18 THEN Quoted ELSE {[Fate EXCEPT !.ttl = 240]}}])

\* What may happen to a probe on its way to the log, with a reset.
LogFates(ttl) == {By(A), Lost, Late(By(B)), Late(Echo), Flushed} \cup (IF ttl > 1 THEN {Echo, [By(T) EXCEPT !.type = 3, !.code = 3]} ELSE {})
Log(resetAt) == Profile(1, FALSE, resetAt,
    [i \in 1..4 |-> LET ttl == (i % 2) + 1 IN {Icmp(ttl, i, f) : f \in LogFates(ttl)}])
LogFlows == Profile(2, FALSE, 3,
    [i \in 1..3 |-> {Udp(2, i, i % 2, f) : f \in {By(A), Lost, Late(By(B)), Flushed}}])

\* Extensions: interface roles repeated, torn, and a stack with two bottoms.
Object(class) == [fits |-> TRUE, class |-> class, stack |-> <<>>, role |-> 0, whole |-> TRUE, info |-> 1]
Role(r, whole, info) == [Object("interface") EXCEPT !.role = r, !.whole = whole, !.info = info]
Stack == [Object("mpls") EXCEPT !.stack = <<[label |-> 16, bottom |-> FALSE], [label |-> 17, bottom |-> TRUE], [label |-> 18, bottom |-> TRUE]>>]
Ext(length, at, version, objects) == [length |-> length, at |-> at, version |-> version, objects |-> objects]
Exts(fam) ==
    LET ruled == <<Role(1, TRUE, 5), Role(1, TRUE, 6), Object("other"), Role(2, FALSE, 7), Stack>>
        torn  == <<Role(1, TRUE, 5), [Role(2, TRUE, 6) EXCEPT !.fits = FALSE], Stack>>
    IN  {None, Ext(0, 128, 2, ruled), Ext(0, 128, 1, ruled), Ext(16, 128, 2, torn),
         Ext(32, 128, 2, ruled), Ext(IF fam = 6 THEN 17 ELSE 34, 136, 2, <<Stack, Role(0, TRUE, 1)>>)}

ErrorTypes(fam) == IF fam = 4 THEN {<<11, 0>>, <<11, 1>>, <<3, 3>>, <<3, 4>>, <<5, 0>>}
                   ELSE {<<3, 0>>, <<2, 0>>, <<1, 4>>, <<4, 0>>}
Chains(fam) == IF fam = 4 THEN {<<>>} ELSE {<<>>, <<"hopbyhop", "destopts">>, <<"fragment">>}

Errors(proto, fam) ==
    {[Fate EXCEPT !.type = t[1], !.code = t[2], !.mtu = IF t \in {<<3, 4>>, <<2, 0>>} THEN 1400 ELSE 0,
                  !.bytes = n, !.chain = c, !.dgram = d] :
        t \in ErrorTypes(fam), n \in {6, 8, 12, 14, 20}, c \in Chains(fam), d \in BOOLEAN}
    \cup {[Fate EXCEPT !.type = IF fam = 4 THEN 11 ELSE 3, !.ext = e, !.bytes = 28] : e \in Exts(fam)}
    \cup (IF proto = "icmp" THEN {[Fate EXCEPT !.type = IF fam = 4 THEN 11 ELSE 3, !.ident = Ident + 7, !.bytes = n] : n \in {8, 12, 14}}
                                 \cup {[Fate EXCEPT !.type = IF fam = 4 THEN 11 ELSE 3, !.foreign = TRUE, !.bytes = n] : n \in {8, 14}}
          ELSE {[Fate EXCEPT !.type = IF fam = 4 THEN 11 ELSE 3, !.port = p] : p \in {40000, 1}})

EchoFates == {[Echo EXCEPT !.ident = i, !.foreign = w, !.dgram = d] : i \in {None, Ident + 7}, w \in BOOLEAN, d \in BOOLEAN}

Packets(proto, fam, flows) ==
    Profile(flows, FALSE, 0,
        <<{Probe(proto, fam, 2, 200, flows - 1, f) : f \in Errors(proto, fam)}
            \cup (IF proto = "icmp" THEN {Probe(proto, fam, 2, 255, 0, f) : f \in EchoFates} ELSE {})>>)

MtuProbes == [Profile(1, FALSE, 0,
    [i \in 1..2 |-> {[Icmp(2, i, f) EXCEPT !.pmtud = TRUE] : f \in {Echo, By(A), Lost, Late(Echo), Flushed}}])
        EXCEPT !.mtuProbes = TRUE]

\* Echo replies of IPv6, on Linux: polled by the engine.
Polling(q) ==
    [q EXCEPT !.polls = TRUE,
              !.script = [i \in 1..Len(q.script) |-> {[p EXCEPT !.fam = 6,
                  !.fate.type = IF @ = 11 THEN 3 ELSE 1, !.fate.code = IF @ = 3 THEN 4 ELSE 0] : p \in q.script[i]}]]

MCProfiles ==
    {AnyFlaps, LongFlaps(0), LongFlaps(8), Flows, Limited, LimitedFlows(FALSE), LimitedFlows(TRUE), Downstream,
     Detectors, Log(0), Log(3), LogFlows, MtuProbes, Polling(Log(0)), Polling(Log(3)), Polling(MtuProbes)}
    \cup {Packets(proto, fam, IF proto = "icmp" THEN 1 ELSE 2) : proto \in {"icmp", "udp", "tcp"}, fam \in {4, 6}}

\* The last ports the command line accepts for two flows.
MCLastPorts == {Flows, Packets("udp", 4, 2), Packets("tcp", 6, 2)}
=============================================================================
