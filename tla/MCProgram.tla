------------------------------- MODULE MCProgram -------------------------------
(***************************************************************************)
(* Profiles for Program: each is one way to run the program, with what the *)
(* network answers and what the user may press.                            *)
(***************************************************************************)
EXTENDS Program, TLC

CONSTANTS R1, R2, T1, T2, T6    \* two routers and three targets

MCBits == (R1 :> <<0, 0, 1>>) @@ (R2 :> <<0, 1, 1>>) @@ (T1 :> <<1, 0, 1>>) @@ (T2 :> <<1, 1, 1>>)
            @@ (T6 :> <<0, 0, 1, 1>>)
MCV6 == {T6}
MCOrder == (R1 :> 1) @@ (R2 :> 2) @@ (T6 :> 3) @@ (T1 :> 4) @@ (T2 :> 5)

BaseArgs ==
    [output |-> None, noTui |-> FALSE, streamJson |-> FALSE, daemon |-> FALSE, prometheus |-> None,
     replay |-> None, diff |-> None, targets |-> <<"one">>, count |-> 0, force |-> {},
     interval |-> 1000, timeout |-> 3000, maxTtl |-> 30, flows |-> 1, srcPort |-> 50000, port |-> None,
     portFixed |-> FALSE, protocol |-> "icmp", speed |-> 10, interface |-> None, sourceIp |-> None,
     pmtud |-> FALSE, resolveAll |-> FALSE]

MCDns == ("one" :> <<T1>>) @@ ("two" :> <<T2>>) @@ ("six" :> <<T6>>) @@ ("both" :> <<T6, T1>>) @@ ("no" :> <<>>)

Base ==
    [args |-> BaseArgs, dns |-> MCDns, recorded |-> T1,
     path |-> (T1 :> <<T1>>) @@ (T2 :> <<T2>>) @@ (T6 :> <<T6>>),
     workers |-> {}, faults |-> FALSE, signals |-> 0, rounds |-> 1, events |-> <<>>,
     prefs |-> [theme |-> 0, display |-> 0, key |-> None, check |-> TRUE],
     theme |-> None, wide |-> FALSE, update |-> "none", keysLeft |-> 0, keys |-> {}, adds |-> {}, times |-> {},
     lookupFaults |-> 0, file |-> None, published |-> <<>>, answers |-> [a \in DOMAIN MCBits |-> None]]

Headless == [BaseArgs EXCEPT !.noTui = TRUE]
Counted == [BaseArgs EXCEPT !.output = "json", !.count = 1]

\* Ports at both sides of every bound, for every protocol.
PortArgs ==
    {[Headless EXCEPT !.protocol = proto, !.flows = flows, !.srcPort = src, !.port = port, !.portFixed = fixed, !.maxTtl = 30] :
        proto \in {"auto", "icmp", "udp", "tcp"}, flows \in {1, 16}, src \in {0, 65520, 65521},
        port \in {None, 0, 65505, 65506, 65535}, fixed \in BOOLEAN}
    \cup {[Headless EXCEPT !.protocol = "udp", !.maxTtl = ttl] : ttl \in {0, 64, 65}}
    \cup {[Headless EXCEPT !.protocol = "udp", !.flows = flows] : flows \in {0, 17}}
    \cup {[Headless EXCEPT !.protocol = "sctp"]}

\* Arguments that are refused, and modes that do not trace.
OtherArgs ==
    {[BaseArgs EXCEPT !.output = "csv", !.targets = <<>>], [BaseArgs EXCEPT !.output = "csv"],
     [BaseArgs EXCEPT !.streamJson = TRUE, !.targets = <<>>], [Headless EXCEPT !.force = Families],
     [Headless EXCEPT !.interval = 0], [Headless EXCEPT !.timeout = 256000], [Headless EXCEPT !.timeout = 255999],
     [Headless EXCEPT !.targets = <<"one", "no">>], [Headless EXCEPT !.targets = <<"both", "one", "six">>, !.force = {"v4"}],
     [Headless EXCEPT !.targets = <<"both", "one", "two">>, !.resolveAll = TRUE],
     [Headless EXCEPT !.interface = [length |-> 16, families |-> Families]],
     [Headless EXCEPT !.interface = [length |-> 4, families |-> {"v6"}]],
     [Headless EXCEPT !.sourceIp = [parses |-> TRUE, family |-> "v6"]],
     [Headless EXCEPT !.targets = <<"six">>, !.sourceIp = [parses |-> TRUE, family |-> "v6"]],
     [BaseArgs EXCEPT !.diff = "file", !.targets = <<>>], [BaseArgs EXCEPT !.replay = "file", !.output = "json"],
     [BaseArgs EXCEPT !.replay = "file", !.speed = 0], [Headless EXCEPT !.prometheus = "malformed"]}

Starting == {[Base EXCEPT !.args = a, !.rounds = 0, !.signals = 1] : a \in PortArgs \cup OtherArgs}

\* Two families, one with two hops, and a fault anywhere.
TwoFamilies == <<"one", "six">>
BatchRuns ==
    {[Base EXCEPT !.args = [Counted EXCEPT !.targets = TwoFamilies], !.faults = f,
                  !.signals = IF f THEN 1 ELSE 2, !.path[T1] = IF f THEN <<T1>> ELSE <<R1, T1>>] : f \in BOOLEAN}

\* A stream of two rounds, ended by its count or, without one, by a signal.
Streams ==
    {[Base EXCEPT !.args = [BaseArgs EXCEPT !.streamJson = TRUE, !.count = c], !.rounds = 2,
                  !.signals = IF c = 0 THEN 2 ELSE 0, !.workers = {"ratelimit"}] : c \in {0, 2}}

\* Targets are added, of the family traced and of another.
Adding ==
    LET Asking(targets, hosts, left, interface) ==
            [Base EXCEPT !.args = [BaseArgs EXCEPT !.protocol = "auto", !.flows = 2, !.targets = targets, !.interface = interface],
                         !.rounds = 0, !.keysLeft = left, !.keys = {"o", "type", "enter"}, !.adds = hosts, !.signals = 1]
    IN  {Asking(<<"one">>, {"six"}, 3, None), Asking(<<>>, {"both"}, 3, None), Asking(<<"one", "two">>, {}, 0, None), [Asking(<<"one">>, {"one", "two", "no"}, 3, None) EXCEPT !.signals = 0],
         Asking(<<"one">>, {"six"}, 3, [length |-> 4, families |-> {"v4"}]),
         [Asking(<<"six">>, {"one"}, 3, None) EXCEPT !.faults = TRUE, !.args.protocol = "icmp"]}

\* A hop is selected while the first round is out, and the statistics are reset.
Selecting ==
    [Base EXCEPT !.args.maxTtl = 2, !.keysLeft = 3, !.keys = {"up", "down", "enter", "r"}]

\* The views, of a saved trace with three hops, and of two targets.
Viewing ==
    {[Base EXCEPT !.args.replay = "file", !.path[T1] = <<R1, R2, T1>>, !.keysLeft = 4, !.theme = 1,
                  !.keys = {"up", "down", "2", "esc", "enter", "?", "r", "q"}],
     [Base EXCEPT !.args.targets = <<"one", "two">>, !.rounds = 0, !.keysLeft = 3, !.keys = {"tab", "N", "l", "2", "up", "down", "enter", "p"}],
     [Base EXCEPT !.keysLeft = 3, !.keys = {"p", "r", "esc", "q"}], Selecting,
     [Base EXCEPT !.rounds = 0, !.keysLeft = 4, !.wide = TRUE, !.update = "checking", !.workers = {"ix"},
                  !.keys = {"esc", "enter", "down", "tab", "type", "back", "t", "w", "s", "u", "q"}]}

\* A recording with a gap and two events of the same millisecond, out of order.
Event(at, id) == [at |-> at, id |-> id]
Recording == <<Event(0, 1), Event(400, 2), Event(400, 3), Event(1900, 5), Event(900, 4)>>
Replaying ==
    {[Base EXCEPT !.args = [BaseArgs EXCEPT !.replay = "file", !.speed = speed], !.events = events,
                  !.keysLeft = left, !.times = {450}, !.keys = keys] :
        <<speed, events, left, keys>> \in {
            <<7, Recording, 3, {"p", "r", "left", "faster"}>>,
            <<10, <<Event(0, 1)>>, 2, {"p", "back", "right"}>>,
            <<10, Recording, 1, {"home", "left", "right", "back", "on", "end", "slower"}>>}}

\* Names, with a router that has none and three addresses for a batch of two, and
\* failures.
Naming ==
    {[Base EXCEPT !.args = Headless, !.path[T1] = IF k = "dns" THEN <<R1, R2, T1>> ELSE <<T1>>, !.workers = {k},
                  !.signals = 1, !.lookupFaults = IF k = "asn" THEN 1 ELSE 0, !.answers = [a \in DOMAIN MCBits |-> IF a = R1 THEN None ELSE a]] :
        k \in {"dns", "asn", "geo"}}

\* Exchanges, with and without a file, and a refresh or two.
Entry(fam, bits, len, info) == [fam |-> fam, bits |-> bits, len |-> len, info |-> info]
Old == <<Entry("v4", <<0, 0, 0>>, 1, "X")>>
New == <<Entry("v4", <<0, 1, 0>>, 2, "Y"), Entry("v4", <<0, 0, 0>>, 0, "Z")>>
Exchanging ==
    {[Base EXCEPT !.path[T1] = <<R2>>, !.workers = {"ix"}, !.lookupFaults = 1, !.file = f, !.published = New,
                  !.keysLeft = 4, !.keys = {"s", "tab", "refresh"}] :
        f \in {None, [old |-> FALSE, entries |-> Old], [old |-> TRUE, entries |-> Old]}}

\* Two prefixes of every length at and around the addresses.
Networks ==
    {Entry("v4", bits, len, "v") : bits \in {<<0, 0, 1>>, <<0, 1, 1>>}, len \in 0..3}
    \cup {Entry("v6", bits, len, "v") : bits \in {<<0, 0, 1, 1>>, <<0, 0, 1, 0>>}, len \in 0..4}
Named(es) == [i \in 1..Len(es) |-> [es[i] EXCEPT !.info = i]]
Matching ==
    {[Base EXCEPT !.args.diff = "file", !.args.targets = <<>>, !.published = Named(es)] :
        es \in {<<a, b, c>> : a, c \in Networks, b \in {e \in Networks : e.bits[2] = 0}}}

\* Batches in which nothing fails.
MCBatches == {p \in BatchRuns : ~p.faults}

MCProfiles ==
    Starting \cup BatchRuns \cup Streams \cup Adding \cup Viewing \cup Replaying \cup Naming \cup Exchanging \cup Matching
=============================================================================
