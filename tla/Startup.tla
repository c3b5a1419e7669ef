------------------------------- MODULE Startup -------------------------------
(***************************************************************************)
(* What the program decides before it probes: the arguments it accepts,    *)
(* the run mode, the configuration made of the arguments, the addresses of *)
(* the targets, and the number of flows an address family can really use.  *)
(* No state: the operators are used by Lifecycle.                          *)
(*                                                                         *)
(* Arguments are a record a.  Durations are milliseconds and the replay    *)
(* speed is in tenths.  An option that was not given is None.              *)
(***************************************************************************)
EXTENDS Integers, Sequences, FiniteSets, SequencesExt

CONSTANTS
    None,
    V6          \* the addresses of the IPv6 family; every other one is IPv4

Families == {"v4", "v6"}
Family(ip) == IF ip \in V6 THEN "v6" ELSE "v4"
Protocols == {"auto", "icmp", "udp", "tcp"}
MaxPort == 65535
MaxSafeTtl == 64
MaxFlows == 16
SeqSpace == 256
-----------------------------------------------------------------------------
(* The parser of the command line, and Args::validate.                      *)

IsBatchMode(a) == a.output \in {"json", "csv", "report"}
IsHeadless(a) == a.noTui \/ a.streamJson \/ a.daemon \/ a.prometheus # None

\* Neither loads targets nor probes.
ReplayOrDiff(a) == a.replay # None \/ a.diff # None

\* What the parser lets through: numbers of the width of their fields, no count
\* being 0, and no two options that exclude each other.
Parsed(a) ==
    /\ a.count \in Nat
    /\ {a.maxTtl, a.flows} \subseteq 0..255
    /\ a.srcPort \in 0..MaxPort /\ a.port \in {None} \cup 0..MaxPort
    /\ a.diff # None => a.replay = None /\ a.targets = <<>>
    /\ a.streamJson \/ a.daemon \/ a.prometheus # None => ~IsBatchMode(a) /\ ~ReplayOrDiff(a)

TargetsGiven(a) ==
    \/ ReplayOrDiff(a)
    \/ /\ a.targets = <<>> => ~IsBatchMode(a) /\ ~IsHeadless(a)
       /\ IsBatchMode(a) => a.count # 0

\* A destination port is used by UDP and TCP, and by auto when --port is given.
UsesPort(a) == a.protocol \in {"udp", "tcp"} \/ (a.protocol = "auto" /\ a.port # None)
DefaultDestinationPort(protocol) == IF protocol = "tcp" THEN 80 ELSE 33434

\* Mutant: the last flow's port is forgotten.
PortsInRangeOfBase(a) ==
    /\ a.srcPort <= MaxPort
    /\ UsesPort(a) /\ ~a.portFixed =>
        (IF a.port # None THEN a.port ELSE DefaultDestinationPort(a.protocol)) + a.maxTtl <= MaxPort

PortsInRange(a) ==
    /\ a.srcPort + (a.flows - 1) <= MaxPort
    /\ UsesPort(a) /\ ~a.portFixed =>
        (IF a.port # None THEN a.port ELSE DefaultDestinationPort(a.protocol)) + a.maxTtl <= MaxPort

RangesValid(a) ==
    /\ ~(a.force = Families)                        \* -4 and -6
    /\ a.protocol \in Protocols
    /\ a.interval > 0 /\ a.timeout > 0
    /\ a.maxTtl \in 1..MaxSafeTtl
    /\ a.flows \in 1..MaxFlows

\* The sequence number of a probe comes round after 256 intervals.
NoSequenceWrap(a) == a.timeout < SeqSpace * a.interval

\* Replay speed, exporter address, interface name, source address and zone.
OptionsValid(a) ==
    /\ a.speed \in 1..10000
    /\ a.prometheus # "malformed"
    /\ a.interface # None => a.interface.length \in 1..15
    /\ a.sourceIp # None => a.sourceIp.parses
    /\ ReplayOrDiff(a) => ~a.pmtud

Valid(a) ==
    TargetsGiven(a) /\ RangesValid(a) /\ PortsInRange(a) /\ NoSequenceWrap(a) /\ OptionsValid(a)

Mode(a) ==
    CASE a.replay # None -> IF a.output # None \/ a.noTui THEN "print" ELSE "replay"
      [] a.replay = None /\ a.diff # None -> "diff"
      [] ~ReplayOrDiff(a) /\ IsBatchMode(a) -> "batch"
      [] ~ReplayOrDiff(a) /\ ~IsBatchMode(a) /\ IsHeadless(a) -> "stream"
      [] OTHER -> "interactive"

\* The check is for a newer release: every layer can only switch it off.
UpdateCheckDisabled(env, flag, pref) == env \/ flag \/ pref = TRUE
-----------------------------------------------------------------------------
(* The configuration, and the ports a probe of it uses.                     *)

ConfigFrom(a) ==
    [count |-> IF a.count = 0 THEN None ELSE a.count, protocol |-> a.protocol, maxTtl |-> a.maxTtl, flows |-> a.flows,
     portFixed |-> a.portFixed, srcPortBase |-> a.srcPort,
     port |-> IF a.port # None THEN a.port
              ELSE IF a.protocol \in {"udp", "tcp"} THEN DefaultDestinationPort(a.protocol) ELSE None,
     sourceFamily |-> IF a.sourceIp = None THEN None ELSE a.sourceIp.family,
     interface |-> a.interface]

\* What auto probes with, of the sockets it can create; the port it then takes.
AutoProtocol(works) == IF "icmp" \in works THEN "icmp" ELSE IF "udp" \in works THEN "udp" ELSE "tcp"
PortOfAuto(cfg, works) == IF cfg.port # None THEN cfg.port ELSE DefaultDestinationPort(AutoProtocol(works))
ProtocolRun(cfg, works) == IF cfg.protocol = "auto" THEN AutoProtocol(works) ELSE cfg.protocol

\* The destination ports of a round, before the addition wraps.
DestinationPorts(cfg, works) ==
    LET base == IF cfg.protocol = "auto" THEN PortOfAuto(cfg, works) ELSE cfg.port
    IN  IF ProtocolRun(cfg, works) = "icmp" THEN {}
        ELSE IF cfg.portFixed THEN {base} ELSE {base + ttl : ttl \in 1..cfg.maxTtl}
SourcePorts(cfg, works) ==
    IF ProtocolRun(cfg, works) = "icmp" THEN {} ELSE {cfg.srcPortBase + f : f \in 0..(cfg.flows - 1)}

\* ICMP has no ports: it cannot tell flows apart, so it uses one.
EffectiveFlows(cfg, icmpWorks) ==
    IF cfg.flows > 1 /\ (cfg.protocol = "icmp" \/ (cfg.protocol = "auto" /\ icmpWorks))
    THEN 1 ELSE cfg.flows

\* Asked once per family, and remembered.  Mutant: asked anew each time.
CachedFlowsAnew(cached, cfg, icmpWorks) == EffectiveFlows(cfg, icmpWorks)
CachedFlows(cached, cfg, icmpWorks) ==
    IF cached # None THEN cached ELSE EffectiveFlows(cfg, icmpWorks)
-----------------------------------------------------------------------------
(* Targets.  dns gives the addresses of a host, none if it does not         *)
(* resolve.  The result of a resolution that fails is None.                 *)

OfFamily(ips, families) ==
    FoldLeft(LAMBDA kept, ip : IF Family(ip) \in families THEN Append(kept, ip) ELSE kept, <<>>, ips)
Distinct(ips) ==
    FoldLeft(LAMBDA order, ip : IF Contains(order, ip) THEN order ELSE Append(order, ip), <<>>, ips)

ResolveTarget(host, force, dns) ==
    LET found == IF force = {} THEN dns[host] ELSE OfFamily(dns[host], force)
    IN  IF found = <<>> THEN None ELSE found[1]

EveryAddress(hosts, dns) == FoldLeft(LAMBDA order, host : order \o dns[host], <<>>, hosts)

\* --resolve-all: every address of every host, of one family unless neither
\* -4 nor -6 is given (the family of the first address is never the limit).
ResolveTargets(hosts, force, dns) ==
    LET all   == Distinct(EveryAddress(hosts, dns))
        kept  == IF force = {} THEN all ELSE OfFamily(all, force)
    IN  IF kept = <<>> \/ \E i \in 1..Len(hosts) : dns[hosts[i]] = <<>> THEN None ELSE kept

\* One address per host; a host whose address is traced already is skipped.
ResolveEach(hosts, force, dns) ==
    LET ips == [i \in 1..Len(hosts) |-> ResolveTarget(hosts[i], force, dns)]
    IN  IF Contains(ips, None) THEN None ELSE Distinct(ips)

InitialTargets(a, dns) ==
    IF a.resolveAll THEN ResolveTargets(a.targets, a.force, dns) ELSE ResolveEach(a.targets, a.force, dns)

FamiliesOf(ips) == {Family(ips[i]) : i \in 1..Len(ips)}

\* The first target of a family, whose session its receiver is made for.
FirstOf(ips, fam) ==
    ips[CHOOSE i \in 1..Len(ips) : Family(ips[i]) = fam /\ \A j \in 1..(i - 1) : Family(ips[j]) # fam]

\* An interface without an address of the only family traced, or a source
\* address of another family, ends the program; with both families traced an
\* interface may lack one of them, and no source address is right.
FamiliesServed(a, ips) ==
    /\ a.interface # None /\ Cardinality(FamiliesOf(ips)) = 1 => FamiliesOf(ips) \subseteq a.interface.families
    /\ a.sourceIp # None /\ ips # <<>> => FamiliesOf(ips) = {a.sourceIp.family}

\* The same, for a target added while tracing.
FamilyServed(cfg, ip) ==
    /\ cfg.sourceFamily # None => cfg.sourceFamily = Family(ip)
    /\ cfg.interface # None => Family(ip) \in cfg.interface.families
=============================================================================
