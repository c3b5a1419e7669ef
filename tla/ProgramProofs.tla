---------------------------- MODULE ProgramProofs ----------------------------
(***************************************************************************)
(* Proofs about Program: the ports of the probes, the flows that sessions  *)
(* and receivers agree on, and what is left when the program exits.        *)
(***************************************************************************)
EXTENDS Program, FiniteSetTheorems, SequenceTheorems, TLAPS

-----------------------------------------------------------------------------
(* Folds over sequences.                                                    *)

KeepOne(families, ip, kept) == IF Family(ip) \in families THEN Append(kept, ip) ELSE kept
JoinOne(c, ip, order) == IF Contains(order, ip) THEN order ELSE Append(order, ip)
FindOne(dns, host, order) == order \o dns[host]
StartOne(works, ip, acc) ==
    LET f == CachedFlows(acc.cached[Family(ip)], Cfg, works[ip])
    IN  [cached |-> [acc.cached EXCEPT ![Family(ip)] = f], flowsOf |-> Inserted(acc.flowsOf, ip, f)]
Highest(s) == Max(s)

KF == INSTANCE FoldTheory WITH Op <- KeepOne, Choice <- Highest
JF == INSTANCE FoldTheory WITH Op <- JoinOne, Choice <- Highest
FF == INSTANCE FoldTheory WITH Op <- FindOne, Choice <- Highest
SF == INSTANCE FoldTheory WITH Op <- StartOne, Choice <- Highest

\* The greatest of some of the first n numbers is one of them.
LEMMA MaxOfSome ==
    ASSUME NEW n \in Nat, NEW s \in SUBSET (1..n), s # {}
    PROVE  Max(s) \in s /\ \A x \in s : x <= Max(s)
<1> DEFINE T == {n - x : x \in s}
<1>1. T \in SUBSET Nat /\ T # {}
    <2>1. \A x \in s : n - x \in Nat  OBVIOUS
    <2> QED  BY <2>1
<1>2. PICK k \in T : \A y \in T : k <= y
    <2> HIDE DEF T
    <2> QED  BY <1>1, KF!LeastNat
<1>3. PICK m \in s : k = n - m
    BY <1>2
<1>4. \A x \in s : m >= x
    <2>1. TAKE x \in s
    <2>2. n - x \in T  BY <2>1
    <2>3. n - m <= n - x  BY <1>2, <1>3, <2>2
    <2> QED  BY <2>3
<1>5. Max(s) \in s /\ \A x \in s : Max(s) >= x
    BY <1>4 DEF Max
<1> QED  BY <1>5

\* The last index is folded last.
LEMMA MaxGreatest ==
    /\ \A k \in Nat : Highest(1..(k + 1)) = k + 1
    /\ \A k \in Nat : \A s \in SUBSET (1..k) : s # {} => Highest(s) \in s
<1>1. ASSUME NEW k \in Nat PROVE Highest(1..(k + 1)) = k + 1
    <2> DEFINE m == k + 1
               s == 1..m
    <2>1. m \in Nat /\ s \in SUBSET (1..m) /\ s # {} /\ m \in s  OBVIOUS
    <2> HIDE DEF m, s
    <2>2. Max(s) \in s /\ \A x \in s : x <= Max(s)  BY <2>1, MaxOfSome
    <2>3. Max(1..m) \in 1..m /\ m <= Max(1..m)  BY <2>1, <2>2 DEF s
    <2>4. Max(1..m) = m  BY <2>1, <2>3
    <2> QED  BY <2>4 DEF m, Highest
<1>2. ASSUME NEW k \in Nat, NEW s \in SUBSET (1..k), s # {} PROVE Highest(s) \in s
    BY <1>2, MaxOfSome DEF Highest
<1> QED  BY <1>1, <1>2

LEMMA Folding ==
    /\ KF!Greatest /\ \A k \in Nat : KF!Chooses(1..k)
    /\ JF!Greatest /\ \A k \in Nat : JF!Chooses(1..k)
    /\ FF!Greatest /\ \A k \in Nat : FF!Chooses(1..k)
    /\ SF!Greatest /\ \A k \in Nat : SF!Chooses(1..k)
BY MaxGreatest DEF KF!Greatest, KF!Chooses, JF!Greatest, JF!Chooses, FF!Greatest, FF!Chooses,
                   SF!Greatest, SF!Chooses

-----------------------------------------------------------------------------
(* The targets a run starts with are a sequence of addresses.               *)

LEMMA OfFamilyType ==
    ASSUME NEW S, NEW ips \in Seq(S), NEW families
    PROVE  OfFamily(ips, families) \in Seq(S)
<1> DEFINE n == Len(ips)
           T == [k \in Nat |-> Seq(S)]
<1>1. n \in Nat /\ DOMAIN ips = 1..n  OBVIOUS
<1> HIDE DEF n
<1>2. OfFamily(ips, families) = KF!Iter(families, ips, <<>>, 1..n)[1..n]
    BY <1>1, Zenon DEF OfFamily, FoldLeft, MapThenFoldSet, KF!Iter, KF!Recursion, KF!Step, KeepOne, Highest
<1>3. <<>> \in T[0]  OBVIOUS
<1>4. ASSUME NEW k \in Nat, k < n, NEW r \in T[k] PROVE KeepOne(families, ips[k + 1], r) \in T[k + 1]
    <2>1. k + 1 \in 1..n  BY <1>1, <1>4
    <2>2. ips[k + 1] \in S  BY <1>1, <2>1
    <2>3. r \in Seq(S) /\ T[k + 1] = Seq(S)  OBVIOUS
    <2> HIDE DEF T
    <2> QED  BY <2>2, <2>3 DEF KeepOne
<1> HIDE DEF T
<1>5. KF!Iter(families, ips, <<>>, 1..n)[1..n] \in T[n]
    BY <1>1, <1>3, <1>4, Folding, KF!Keeps
<1> QED  BY <1>1, <1>2, <1>5 DEF T

LEMMA DistinctType ==
    ASSUME NEW S, NEW ips \in Seq(S)
    PROVE  Distinct(ips) \in Seq(S)
<1> DEFINE n == Len(ips)
           T == [k \in Nat |-> Seq(S)]
<1>1. n \in Nat /\ DOMAIN ips = 1..n  OBVIOUS
<1> HIDE DEF n
<1>2. Distinct(ips) = JF!Iter(0, ips, <<>>, 1..n)[1..n]
    BY <1>1, Zenon DEF Distinct, FoldLeft, MapThenFoldSet, JF!Iter, JF!Recursion, JF!Step, JoinOne, Highest
<1>3. <<>> \in T[0]  OBVIOUS
<1>4. ASSUME NEW k \in Nat, k < n, NEW r \in T[k] PROVE JoinOne(0, ips[k + 1], r) \in T[k + 1]
    <2>1. k + 1 \in 1..n  BY <1>1, <1>4
    <2>2. ips[k + 1] \in S  BY <1>1, <2>1
    <2>3. r \in Seq(S) /\ T[k + 1] = Seq(S)  OBVIOUS
    <2> HIDE DEF T
    <2> QED  BY <2>2, <2>3 DEF JoinOne
<1> HIDE DEF T
<1>5. JF!Iter(0, ips, <<>>, 1..n)[1..n] \in T[n]
    BY <1>1, <1>3, <1>4, Folding, JF!Keeps
<1> QED  BY <1>1, <1>2, <1>5 DEF T

LEMMA FoundType ==
    ASSUME NEW S, NEW dns, \A host \in DOMAIN dns : dns[host] \in Seq(S), NEW hosts \in Seq(DOMAIN dns)
    PROVE  EveryAddress(hosts, dns) \in Seq(S)
<1> DEFINE n == Len(hosts)
           T == [k \in Nat |-> Seq(S)]
<1>1. n \in Nat /\ DOMAIN hosts = 1..n  OBVIOUS
<1> HIDE DEF n
<1>2. EveryAddress(hosts, dns) = FF!Iter(dns, hosts, <<>>, 1..n)[1..n]
    BY <1>1, Zenon DEF EveryAddress, FoldLeft, MapThenFoldSet, FF!Iter, FF!Recursion, FF!Step, FindOne, Highest
<1>3. <<>> \in T[0]  OBVIOUS
<1>4. ASSUME NEW k \in Nat, k < n, NEW r \in T[k] PROVE FindOne(dns, hosts[k + 1], r) \in T[k + 1]
    <2>1. k + 1 \in 1..n  BY <1>1, <1>4
    <2>2. hosts[k + 1] \in DOMAIN dns  BY <1>1, <2>1
    <2>3. dns[hosts[k + 1]] \in Seq(S)  BY <2>2
    <2>4. r \in Seq(S) /\ T[k + 1] = Seq(S)  OBVIOUS
    <2> HIDE DEF T
    <2> QED  BY <2>3, <2>4 DEF FindOne
<1> HIDE DEF T
<1>5. FF!Iter(dns, hosts, <<>>, 1..n)[1..n] \in T[n]
    BY <1>1, <1>3, <1>4, Folding, FF!Keeps
<1> QED  BY <1>1, <1>2, <1>5 DEF T

\* A host resolves to one of the addresses the resolver knows, or not at all.
LEMMA ResolvesToAddress ==
    ASSUME NEW S, NEW dns, \A host \in DOMAIN dns : dns[host] \in Seq(S), NEW host \in DOMAIN dns, NEW force,
           ResolveTarget(host, force, dns) # None
    PROVE  ResolveTarget(host, force, dns) \in S
<1> DEFINE found == IF force = {} THEN dns[host] ELSE OfFamily(dns[host], force)
<1>1. found \in Seq(S)  BY OfFamilyType
<1>2. ResolveTarget(host, force, dns) = IF found = <<>> THEN None ELSE found[1]
    BY DEF ResolveTarget
<1> HIDE DEF found
<1>3. found # <<>> => found[1] \in S  BY <1>1
<1> QED  BY <1>2, <1>3

LEMMA TargetsType ==
    ASSUME NEW S, NEW a, NEW dns, \A host \in DOMAIN dns : dns[host] \in Seq(S), a.targets \in Seq(DOMAIN dns),
           InitialTargets(a, dns) # None
    PROVE  InitialTargets(a, dns) \in Seq(S)
<1> DEFINE hosts == a.targets
           force == a.force
<1>1. CASE a.resolveAll
    <2> DEFINE all == Distinct(EveryAddress(hosts, dns))
               kept == IF force = {} THEN all ELSE OfFamily(all, force)
    <2>1. all \in Seq(S)  BY FoundType, DistinctType
    <2>2. kept \in Seq(S)
        <3> HIDE DEF all
        <3> QED  BY <2>1, OfFamilyType
    <2>3. InitialTargets(a, dns) \in {None, kept}
        BY <1>1 DEF InitialTargets, ResolveTargets
    <2> QED  BY <2>2, <2>3
<1>2. CASE ~a.resolveAll
    <2> DEFINE ips == [i \in 1..Len(hosts) |-> ResolveTarget(hosts[i], force, dns)]
    <2>1. InitialTargets(a, dns) = IF Contains(ips, None) THEN None ELSE Distinct(ips)
        BY <1>2 DEF InitialTargets, ResolveEach
    <2>2. ~Contains(ips, None)  BY <2>1
    <2>3. Len(hosts) \in Nat /\ DOMAIN ips = 1..Len(hosts) /\ Len(ips) = Len(hosts)
        OBVIOUS
    <2>4. ASSUME NEW i \in 1..Len(hosts) PROVE ResolveTarget(hosts[i], force, dns) \in S
        <3>1. ips[i] = ResolveTarget(hosts[i], force, dns) /\ hosts[i] \in DOMAIN dns  OBVIOUS
        <3>2. ips[i] # None
            <4> HIDE DEF ips
            <4> QED  BY <2>2, <2>3 DEF Contains
        <3> QED  BY <3>1, <3>2, ResolvesToAddress
    <2>5. ips \in Seq(S)  BY <2>3, <2>4
    <2> HIDE DEF ips
    <2> QED  BY <2>1, <2>2, <2>5, DistinctType
<1> QED  BY <1>1, <1>2
-----------------------------------------------------------------------------
(* The ports of a probe.                                                    *)

\* The ports of every round of an accepted configuration fit, whatever auto
\* can create sockets for.
LEMMA PortsOfConfig ==
    ASSUME NEW a, Parsed(a), Valid(a), NEW works,
           NEW port \in DestinationPorts(ConfigFrom(a), works) \cup SourcePorts(ConfigFrom(a), works)
    PROVE  port \in 0..MaxPort /\ (port = 0 => 0 \in {a.srcPort, a.port})
<1> DEFINE cfg == ConfigFrom(a)
           base == IF cfg.protocol = "auto" THEN PortOfAuto(cfg, works) ELSE cfg.port
<1>1. /\ cfg.protocol = a.protocol /\ cfg.maxTtl = a.maxTtl /\ cfg.flows = a.flows
      /\ cfg.portFixed = a.portFixed /\ cfg.srcPortBase = a.srcPort
      /\ cfg.port = IF a.port # None THEN a.port
                    ELSE IF a.protocol \in {"udp", "tcp"} THEN DefaultDestinationPort(a.protocol) ELSE None
    BY DEF ConfigFrom
<1> HIDE DEF cfg
<1>2. /\ a.srcPort \in 0..MaxPort /\ (a.port = None \/ a.port \in 0..MaxPort)
      /\ a.flows \in 1..MaxFlows /\ a.maxTtl \in 1..MaxSafeTtl /\ a.protocol \in Protocols
      /\ a.srcPort + (a.flows - 1) <= MaxPort
    BY DEF Parsed, Valid, RangesValid, PortsInRange
<1>3. DefaultDestinationPort("tcp") = 80 /\ DefaultDestinationPort("udp") = 33434
    BY DEF DefaultDestinationPort
<1>4. CASE port \in SourcePorts(cfg, works)
    <2>1. PICK f \in 0..(a.flows - 1) : port = a.srcPort + f
        BY <1>1, <1>4 DEF SourcePorts
    <2>2. port = a.srcPort + f /\ f >= 0 /\ f <= a.flows - 1 /\ f \in Int
        BY <1>2, <2>1 DEF MaxFlows
    <2>3. a.srcPort \in Int /\ 0 <= a.srcPort /\ a.flows \in Int /\ MaxPort \in Int
        <3>1. MaxPort \in Int  BY DEF MaxPort
        <3>2. MaxFlows \in Int  BY DEF MaxFlows
        <3> QED  BY <1>2, <3>1, <3>2
    <2>4. port \in Int /\ 0 <= port /\ port <= MaxPort /\ (port = 0 => a.srcPort = 0)
        <3> DEFINE m == MaxPort
                   x == a.srcPort
                   n == a.flows
        <3>1. /\ x + (n - 1) <= m /\ port = x + f /\ f >= 0 /\ f <= n - 1
              /\ x \in Int /\ 0 <= x /\ n \in Int /\ m \in Int /\ f \in Int
            BY <1>2, <2>2, <2>3
        <3> HIDE DEF m, x, n
        <3>2. port \in Int /\ 0 <= port /\ port <= m /\ (port = 0 => x = 0)
            BY <3>1
        <3> QED  BY <3>2 DEF m, x
    <2> QED  BY <2>3, <2>4
<1>5. CASE port \in DestinationPorts(cfg, works)
    <2>1. ProtocolRun(cfg, works) # "icmp"
        BY <1>5 DEF DestinationPorts
    <2>2. a.port = None => base \in {80, 33434} /\ (base = 80 => ProtocolRun(cfg, works) = "tcp")
        <3>1. CASE a.protocol = "auto"
            <4>1. AutoProtocol(works) \in {"udp", "tcp"}
                BY <1>1, <2>1, <3>1 DEF ProtocolRun, AutoProtocol
            <4> QED  BY <1>1, <1>3, <3>1, <4>1 DEF PortOfAuto, ProtocolRun, DefaultDestinationPort
        <3>2. CASE a.protocol # "auto"
            <4>1. a.protocol \in {"udp", "tcp"}
                BY <1>1, <1>2, <2>1, <3>2 DEF ProtocolRun, Protocols
            <4> QED  BY <1>1, <1>3, <3>2, <4>1 DEF ProtocolRun
        <3> QED  BY <3>1, <3>2
    <2>3. a.port # None => base = a.port
        BY <1>1 DEF PortOfAuto
    <2>4. base \in 0..MaxPort /\ (base = 0 => a.port = 0)
        <3>1. CASE a.port = None
            <4>1. 80 \in 0..MaxPort /\ 33434 \in 0..MaxPort  BY DEF MaxPort
            <4> HIDE DEF base
            <4> QED  BY <2>2, <3>1, <4>1
        <3>2. CASE a.port # None
            <4> HIDE DEF base
            <4> QED  BY <1>2, <2>3, <3>2
        <3> QED  BY <3>1, <3>2
    <2>5. CASE a.portFixed
        <3>1. port = base  BY <1>1, <1>5, <2>1, <2>5 DEF DestinationPorts
        <3> QED  BY <2>4, <3>1
    <2>6. CASE ~a.portFixed
        <3>1. PICK ttl \in 1..a.maxTtl : port = base + ttl
            BY <1>1, <1>5, <2>1, <2>6 DEF DestinationPorts
        <3>2. ttl \in Int /\ ttl >= 1 /\ ttl <= a.maxTtl /\ a.maxTtl \in Int /\ a.maxTtl <= MaxSafeTtl
            BY <1>2, <3>1 DEF MaxSafeTtl
        <3>3. base + a.maxTtl <= MaxPort
            <4>1. CASE a.port = None
                <5>1. \A n \in {80, 33434} : \A m \in 1..MaxSafeTtl : n + m <= MaxPort
                    BY DEF MaxPort, MaxSafeTtl
                <5> HIDE DEF base
                <5> QED  BY <1>2, <2>2, <4>1, <5>1
            <4>2. CASE a.port # None
                <5>1. UsesPort(a)
                    BY <1>1, <1>2, <2>1, <4>2 DEF UsesPort, ProtocolRun, Protocols
                <5>2. a.port + a.maxTtl <= MaxPort
                    BY <2>6, <4>2, <5>1 DEF Valid, PortsInRange
                <5> QED  BY <2>3, <4>2, <5>2
            <4> QED  BY <4>1, <4>2
        <3>5. MaxPort \in Int  BY DEF MaxPort
        <3>4. \A n \in 0..MaxPort : n \in Int /\ n >= 0
            <4>1. \A x \in Int : \A n \in 0..x : n \in Int /\ n >= 0  OBVIOUS
            <4> QED  BY <3>5, <4>1
        <3> HIDE DEF base
        <3>6. port = base + ttl /\ base \in Int /\ base >= 0  BY <2>4, <3>1, <3>4
        <3>7. port \in Int /\ 1 <= port /\ port <= MaxPort
            <4> DEFINE m == MaxPort
                       n == a.maxTtl
            <4>1. /\ port = base + ttl /\ base \in Int /\ base >= 0 /\ m \in Int /\ base + n <= m
                  /\ ttl \in Int /\ ttl >= 1 /\ ttl <= n /\ n \in Int
                BY <3>2, <3>3, <3>5, <3>6
            <4> HIDE DEF m, n
            <4>2. port \in Int /\ 1 <= port /\ port <= m  BY <4>1
            <4> QED  BY <4>2 DEF m
        <3> QED  BY <3>5, <3>7
    <2> QED  BY <2>5, <2>6
<1> QED  BY <1>4, <1>5 DEF cfg
-----------------------------------------------------------------------------
(* What the steps leave alone.                                              *)

BootStep == BootFails \/ BootPrint \/ BootReplay \/ BootTracing

LEMMA MainFrame ==
    ASSUME MainStep
    PROVE  /\ UNCHANGED <<profile, pending, queue, replies>> /\ Running
           /\ BootTracing \/ UNCHANGED <<engine, receiver, worker, mgr>>
           /\ BootReplay \/ BootTracing \/ Emit \/ Finish \/ UNCHANGED <<sessions, emitted>>
           /\ stage = "boot" => BootStep
           /\ stage # "boot" => stage' # "boot"
           /\ UNCHANGED <<stage, exit>> \/ ~Emit
<1> USE DEF mainVars, taskVars, mgrVars, GoTo, Leave
<1>1. CASE BootFails  BY <1>1 DEF BootFails, BootStep, Emit
<1>2. CASE BootPrint  BY <1>2 DEF BootPrint, BootStep, Emit
<1>3. CASE BootReplay  BY <1>3 DEF BootReplay, BootStep, Emit
<1>4. CASE BootTracing  BY <1>4 DEF BootTracing, BootStep, Emit
<1>5. CASE AwaitEngines  BY <1>5 DEF AwaitEngines, Await, Emit
<1>6. CASE AwaitReceivers  BY <1>6 DEF AwaitReceivers, Await, Emit
<1>7. CASE AwaitManager  BY <1>7 DEF AwaitManager, Await, Emit
<1>8. CASE Settle  BY <1>8 DEF Settle, Emit
<1>9. CASE Emit  BY <1>9 DEF Emit
<1>10. CASE LoopEnds  BY <1>10 DEF LoopEnds, Emit
<1>11. CASE Finish  BY <1>11 DEF Finish, Emit
<1> QED  BY <1>1, <1>2, <1>3, <1>4, <1>5, <1>6, <1>7, <1>8, <1>9, <1>10, <1>11 DEF MainStep

LEMMA MgrFrame ==
    ASSUME MgrStep
    PROVE  /\ UNCHANGED <<profile, mainVars, pending, worker, emitted>> /\ Running
           /\ MgrInserts \/ UNCHANGED sessions
           /\ MgrSpawns \/ UNCHANGED <<engine, receiver>>
           /\ mgr.pc \in {"idle", "resolving", "inserted", "joining"}
<1> USE DEF mainVars, MgrUnchanged
<1>1. CASE MgrTake  BY <1>1 DEF MgrTake
<1>2. CASE MgrCloses  BY <1>2 DEF MgrCloses
<1>3. CASE MgrDeclines  BY <1>3 DEF MgrDeclines
<1>4. CASE MgrInserts  BY <1>4 DEF MgrInserts
<1>5. CASE MgrSpawns  BY <1>5 DEF MgrSpawns
<1>6. CASE MgrJoins  BY <1>6 DEF MgrJoins
<1> QED  BY <1>1, <1>2, <1>3, <1>4, <1>5, <1>6 DEF MgrStep

LEMMA EngineFrame ==
    ASSUME NEW ip, EngineStep(ip)
    PROVE  /\ UNCHANGED <<profile, stage, exit, signals, receiver, worker, mgrVars, emitted>> /\ Running
           /\ Round(ip) \/ UNCHANGED <<sessions, pending>>
<1>1. CASE EngineStart(ip)  BY <1>1 DEF EngineStart, EngineUnchanged
<1>2. CASE Round(ip)  BY <1>2 DEF Round, EngineUnchanged
<1>3. CASE CountReached(ip)  BY <1>3 DEF CountReached, EngineUnchanged
<1>4. CASE EngineCancelled(ip)  BY <1>4 DEF EngineCancelled, EngineUnchanged
<1> QED  BY <1>1, <1>2, <1>3, <1>4 DEF EngineStep

LEMMA ReceiverFrame ==
    ASSUME NEW fam, ReceiverStep(fam)
    PROVE  /\ UNCHANGED <<profile, mainVars, engine, worker, mgrVars, emitted>>
           /\ ReceiverRuns(fam)
           /\ \/ UNCHANGED receiver
              \/ \E pc \in {"failed", "done"} : receiver' = [receiver EXCEPT ![fam].pc = pc]
           /\ ReceiverFails(fam) \/ Answered(fam) \/ TimedOut(fam) \/ Flush(fam)
<1>1. CASE Answered(fam)  BY <1>1 DEF Answered, ReceiverUnchanged
<1>2. CASE TimedOut(fam)  BY <1>2 DEF TimedOut, ReceiverUnchanged
<1>3. CASE ReceiverFails(fam)  BY <1>3 DEF ReceiverFails, ReceiverUnchanged
<1>4. CASE Flush(fam)  BY <1>4 DEF Flush, ReceiverUnchanged
<1> QED  BY <1>1, <1>2, <1>3, <1>4 DEF ReceiverStep

LEMMA TuiFrame ==
    ASSUME TuiStep
    PROVE  /\ UNCHANGED <<profile, signals, pending, taskVars, mgr, emitted>> /\ Shows
           /\ \/ UNCHANGED sessions \/ Frame \/ PauseKey \/ ResetKey
              \/ \E k \in profile.keys : ReplayKey(k)
           /\ \/ UNCHANGED <<stage, exit>>
              \/ UNCHANGED stage /\ exit' = "error"
              \/ RunMode = "replay" /\ UNCHANGED stage /\ exit' = "ok"
              \/ RunMode # "replay" /\ stage' = "engines" /\ UNCHANGED exit
<1> USE DEF mainVars, taskVars, mgrVars, lifecycleVars, tuiVars, Leave
<1>1. CASE Frame  BY <1>1 DEF Frame
<1>2. CASE Close  BY <1>2 DEF Close
<1>3. CASE CloseFails  BY <1>3 DEF CloseFails
<1>4. CASE \E ms \in profile.times : Pass(ms)  BY <1>4 DEF Pass
<1>5. CASE \E k \in profile.keys : ViewKey(k)  BY <1>5 DEF ViewKey, Pressed
<1>6. CASE \E k \in profile.keys : ReplayKey(k)  BY <1>6 DEF ReplayKey, Pressed
<1>7. CASE PauseKey  BY <1>7 DEF PauseKey, Pressed
<1>8. CASE ResetKey  BY <1>8 DEF ResetKey, Pressed
<1>9. CASE AddKey  BY <1>9 DEF AddKey, Pressed
<1>10. CASE Render  BY <1>10 DEF Render, Look, Draw, DrawingUnchanged
<1> QED  BY <1>1, <1>2, <1>3, <1>4, <1>5, <1>6, <1>7, <1>8, <1>9, <1>10 DEF TuiStep

LEMMA EnrichFrame ==
    ASSUME EnrichStep
    PROVE  /\ UNCHANGED <<profile, mainVars, pending, engine, receiver, mgrVars, emitted>> /\ Running
           /\ UNCHANGED sessions \/ \E k \in DOMAIN worker : FinishBatch(k)
           /\ \/ UNCHANGED worker /\ (lookups' = lookups \/ \E l \in lookups : LookupStep(l))
              \/ \E k \in DOMAIN worker : StartBatch(k) \/ FinishBatch(k)
<1> USE DEF lifecycleVars, taskVars, EnrichUnchanged
<1>1. CASE \E k \in DOMAIN worker : StartBatch(k)  BY <1>1 DEF StartBatch
<1>2. CASE \E k \in DOMAIN worker : FinishBatch(k)  BY <1>2 DEF FinishBatch
<1>3. CASE \E k \in DOMAIN worker : Age(k)  BY <1>3 DEF Age
<1>4. CASE \E l \in lookups : LookupStep(l)
    <2> PICK l \in lookups : LookupStep(l)  BY <1>4
    <2>1. CASE Check(l)  BY <2>1 DEF Check
    <2>2. CASE Ask(l)  BY <2>2 DEF Ask
    <2>3. CASE Match(l)  BY <2>3 DEF Match
    <2>4. CASE Keep(l)  BY <2>4 DEF Keep
    <2>5. CASE Load(l)  BY <2>5 DEF Load
    <2>6. CASE Enter(l)  BY <2>6 DEF Enter
    <2>7. CASE LoadData(l)  BY <2>7 DEF LoadData
    <2> QED  BY <2>1, <2>2, <2>3, <2>4, <2>5, <2>6, <2>7 DEF LookupStep
<1>5. CASE BackoffOver  BY <1>5 DEF BackoffOver
<1>6. CASE RefreshStep
    <2>1. CASE RefreshFetch  BY <2>1 DEF RefreshFetch
    <2>2. CASE RefreshReplace  BY <2>2 DEF RefreshReplace
    <2>3. CASE RefreshClear  BY <2>3 DEF RefreshClear
    <2> QED  BY <1>6, <2>1, <2>2, <2>3 DEF RefreshStep
<1> QED  BY <1>1, <1>2, <1>3, <1>4, <1>5, <1>6 DEF EnrichStep
-----------------------------------------------------------------------------
(* Nothing exists before the program has started, and it starts with        *)
(* arguments that were accepted.                                            *)

NothingYet ==
    /\ sessions = <<>> /\ pending = {} /\ engine = <<>> /\ emitted = <<>> /\ lookups = {}
    /\ receiver = [fam \in Families |-> None]
    /\ worker = [k \in profile.workers |-> "off"]
    /\ mgr = [pc |-> "off", req |-> None, ip |-> None, cached |-> [fam \in Families |-> None],
              served |-> {}, added |-> <<>>, spawned |-> <<>>]

Started ==
    /\ profile \in Profiles
    /\ stage = "boot" => NothingYet
    /\ stage # "boot" => ~Refused

LEMMA StartsWithNothing == ProgramInit => Started
BY DEF ProgramInit, Init, EnrichInit, Started, NothingYet

LEMMA StagesMove ==
    ASSUME Next, stage # "boot"
    PROVE  stage' # "boot" /\ profile' = profile
<1> USE DEF mainVars, mgrVars
<1>1. CASE LifecycleStep /\ UNCHANGED <<tuiVars, enrichVars>>
    <2>1. CASE MainStep  BY <2>1, MainFrame
    <2>2. CASE Signal  BY <2>2 DEF Signal
    <2>3. CASE MgrStep  BY <2>3, MgrFrame
    <2>4. CASE \E ip \in DOMAIN engine : EngineStep(ip)  BY <2>4, EngineFrame
    <2>5. CASE \E fam \in Families : ReceiverStep(fam)  BY <2>5, ReceiverFrame
    <2>6. CASE \E k \in DOMAIN worker : WorkerEnds(k)  BY <2>6 DEF WorkerEnds
    <2> QED  BY <1>1, <2>1, <2>2, <2>3, <2>4, <2>5, <2>6 DEF LifecycleStep
<1>2. CASE TuiStep /\ UNCHANGED enrichVars  BY <1>2, TuiFrame
<1>3. CASE EnrichStep /\ UNCHANGED tuiVars  BY <1>3, EnrichFrame
<1>4. CASE RefreshKey  BY <1>4 DEF RefreshKey, lifecycleVars
<1>5. CASE Ended  BY <1>5 DEF Ended, vars, lifecycleVars
<1> QED  BY <1>1, <1>2, <1>3, <1>4, <1>5 DEF Next

\* Until the main task has started them, no other task takes a step.
LEMMA OnlyBootSteps ==
    ASSUME Started, Next, stage = "boot"
    PROVE  /\ \/ BootStep /\ UNCHANGED enrichVars
              \/ UNCHANGED <<stage, sessions, pending, engine, emitted, lookups, receiver, worker, mgr>>
           /\ profile' = profile
<1> USE DEF mainVars, taskVars, mgrVars
<1>1. NothingYet  BY DEF Started
<1>2. CASE LifecycleStep /\ UNCHANGED <<tuiVars, enrichVars>>
    <2>1. CASE MainStep  BY <1>2, <2>1, MainFrame
    <2>2. CASE Signal  BY <2>2 DEF Signal
    <2>3. CASE MgrStep
        <3>1. mgr.pc \in {"idle", "resolving", "inserted", "joining"}  BY <2>3, MgrFrame
        <3> QED  BY <1>1, <3>1 DEF NothingYet
    <2>4. CASE \E ip \in DOMAIN engine : EngineStep(ip)
        <3>1. DOMAIN engine = {}  BY <1>1 DEF NothingYet
        <3> QED  BY <2>4, <3>1
    <2>5. CASE \E fam \in Families : ReceiverStep(fam)
        <3>1. PICK fam \in Families : ReceiverRuns(fam)  BY <2>5, ReceiverFrame
        <3> QED  BY <1>1, <3>1 DEF ReceiverRuns, NothingYet
    <2>6. CASE \E k \in DOMAIN worker : WorkerEnds(k)
        BY <1>1, <2>6 DEF WorkerEnds, NothingYet
    <2> QED  BY <1>2, <2>1, <2>2, <2>3, <2>4, <2>5, <2>6 DEF LifecycleStep
<1>3. CASE TuiStep /\ UNCHANGED enrichVars
    <2>1. Shows  BY <1>3, TuiFrame
    <2> QED  BY <2>1 DEF Shows
<1>4. CASE EnrichStep /\ UNCHANGED tuiVars
    <2>1. ~\E k \in DOMAIN worker : StartBatch(k) \/ FinishBatch(k)
        BY <1>1 DEF StartBatch, FinishBatch, NothingYet
    <2>2. lookups = {}  BY <1>1 DEF NothingYet
    <2>3. /\ UNCHANGED <<profile, mainVars, pending, engine, receiver, mgrVars, emitted>>
          /\ UNCHANGED sessions /\ UNCHANGED worker /\ lookups' = lookups
        BY <1>4, <2>1, <2>2, EnrichFrame
    <2> QED  BY <2>3
<1>5. CASE RefreshKey
    BY <1>5 DEF RefreshKey, Pressed, Shows
<1>6. CASE Ended
    BY <1>6 DEF Ended, vars, lifecycleVars, enrichVars
<1> QED  BY <1>2, <1>3, <1>4, <1>5, <1>6 DEF Next

LEMMA StartedKept ==
    ASSUME Started, Next
    PROVE  Started'
<1> USE DEF Started
<1>1. CASE stage # "boot"
    <2>1. stage' # "boot" /\ profile' = profile  BY <1>1, StagesMove
    <2>2. ~Refused'
        BY <1>1, <2>1 DEF Refused, Args, StartTargets
    <2> QED  BY <2>1, <2>2
<1>2. CASE stage = "boot"
    <2>1. NothingYet  BY <1>2
    <2>2. CASE UNCHANGED <<stage, sessions, pending, engine, emitted, lookups, receiver, worker, mgr>> /\ profile' = profile
        <3>1. NothingYet'  BY <2>1, <2>2 DEF NothingYet
        <3> QED  BY <1>2, <2>2, <3>1
    <2>3. CASE BootStep /\ UNCHANGED enrichVars
        <3>1. CASE BootFails
            BY <1>2, <2>1, <2>3, <3>1 DEF BootFails, Leave, NothingYet, taskVars, mgrVars, enrichVars
        <3>2. CASE BootPrint
            BY <1>2, <2>1, <2>3, <3>2 DEF BootPrint, Leave, NothingYet, taskVars, mgrVars, enrichVars
        <3>3. CASE BootReplay
            <4>1. stage' = "tui" /\ ~Refused /\ profile' = profile
                BY <3>3 DEF BootReplay, GoTo
            <4>2. ~Refused'  BY <4>1 DEF Refused, Args, StartTargets
            <4> QED  BY <4>1, <4>2
        <3>4. CASE BootTracing
            <4>1. stage' \in {"engines", "loop", "tui"} /\ ~Refused /\ profile' = profile
                BY <3>4 DEF BootTracing, GoTo, FirstStage
            <4>2. ~Refused'  BY <4>1 DEF Refused, Args, StartTargets
            <4> QED  BY <4>1, <4>2
        <3> QED  BY <2>3, <3>1, <3>2, <3>3, <3>4 DEF BootStep
    <2> QED  BY <1>2, <2>2, <2>3, OnlyBootSteps
<1> QED  BY <1>1, <1>2

\* The ports of every probe, of arguments that were accepted and whatever auto
\* chose, fit their sixteen bits, and none is 0 that was not asked for
\* (Args::validate; run_udp, run_tcp, run_auto).
THEOREM PortsAlwaysFit == Spec => []PortsFit
<1>1. ProgramInit => Started
    BY StartsWithNothing
<1>2. Started /\ [Next]_vars => Started'
    <2>1. CASE Next  BY <2>1, StartedKept
    <2>2. CASE UNCHANGED vars
        BY <2>2 DEF vars, lifecycleVars, mainVars, taskVars, mgrVars, enrichVars, Started, NothingYet,
                    Refused, Args, StartTargets
    <2> QED  BY <2>1, <2>2
<1>3. Started => PortsFit
    <2> SUFFICES ASSUME Started, NEW ip \in DOMAIN engine,
                        NEW port \in DestinationPorts(Cfg, engine[ip].works) \cup SourcePorts(Cfg, engine[ip].works)
                 PROVE  port \in 0..MaxPort /\ (port = 0 => 0 \in {Args.srcPort, Args.port})
        BY DEF PortsFit
    <2>1. stage # "boot"
        BY DEF Started, NothingYet
    <2>2. Valid(Args) /\ Parsed(Args)
        BY <2>1, RunsAssumption DEF Started, Refused, Args
    <2> QED  BY <2>2, PortsOfConfig DEF Cfg
<1> QED  BY <1>1, <1>2, <1>3, PTL DEF Spec
-----------------------------------------------------------------------------
(* Sessions, and what is written to them.                                   *)

Fields == {"paused", "flows", "sent", "beyond", "seen", "labels", "log", "recorded", "gen"}
Events == {"reply", "timeout"} \X Nat \X Int

SessionShape(s) ==
    /\ s = [field \in Fields |-> s[field]]
    /\ s.flows \in 1..MaxFlows /\ s.log \in Seq(Events) /\ s.recorded \in Seq(Events)

\* The flows of a session are for ever; its log grows, unless it is drained
\* or the statistics are reset.
Follows(s, t) == SessionShape(t) /\ t.flows = s.flows
Logs(s, t) ==
    \/ t.log = s.log /\ t.recorded = s.recorded
    \/ \E e \in Events : t.log = Append(s.log, e) /\ t.recorded = Append(s.recorded, e)

LEMMA NewSessionShape ==
    ASSUME NEW flows \in 1..MaxFlows
    PROVE  /\ SessionShape(NewSession(flows)) /\ NewSession(flows).flows = flows
           /\ NewSession(flows).log = <<>> /\ NewSession(flows).recorded = <<>>
<1> DEFINE s == NewSession(flows)
<1>1. s = [field \in Fields |-> s[field]]  BY DEF NewSession, Fields
<1>2. s.flows = flows  BY DEF NewSession
<1>3. s.log = <<>> /\ s.recorded = <<>>  BY DEF NewSession
<1>4. <<>> \in Seq(Events)  OBVIOUS
<1> HIDE DEF s
<1> QED  BY <1>1, <1>2, <1>3, <1>4 DEF SessionShape, s

LEMMA WrittenFollows ==
    ASSUME NEW s, SessionShape(s)
    PROVE  Follows(s, Written(s)) /\ Logs(s, Written(s))
BY DEF SessionShape, Follows, Logs, Fields, Written

\* A change of a field other than the flows and the log.
LEMMA FieldFollows ==
    ASSUME NEW s, SessionShape(s), NEW v, NEW field \in {"paused", "sent", "seen", "labels", "gen"}
    PROVE  LET t == [s EXCEPT ![field] = v] IN Follows(s, t) /\ Logs(s, t)
BY DEF SessionShape, Follows, Logs, Fields

LEMMA FollowsOn ==
    ASSUME NEW s, NEW t, NEW u, Follows(s, t), Logs(s, t), Follows(t, u), t.log = u.log, t.recorded = u.recorded
    PROVE  Follows(s, u) /\ Logs(s, u)
BY DEF Follows, Logs

LEMMA WrittenKeepsLog ==
    ASSUME NEW s, SessionShape(s)
    PROVE  Written(s).log = s.log /\ Written(s).recorded = s.recorded
BY DEF SessionShape, Fields, Written

LEMMA FieldWritten ==
    ASSUME NEW s, SessionShape(s), NEW v, NEW field \in {"paused", "sent", "seen", "labels", "gen"}
    PROVE  Follows(s, Written([s EXCEPT ![field] = v])) /\ Logs(s, Written([s EXCEPT ![field] = v]))
<1> DEFINE t == [s EXCEPT ![field] = v]
<1>1. Follows(s, t) /\ Logs(s, t)  BY FieldFollows
<1>2. SessionShape(t)  BY <1>1 DEF Follows
<1> HIDE DEF t
<1>3. Follows(t, Written(t)) /\ Written(t).log = t.log /\ Written(t).recorded = t.recorded
    BY <1>2, WrittenFollows, WrittenKeepsLog
<1>4. Follows(s, Written(t)) /\ Logs(s, Written(t))  BY <1>1, <1>3, FollowsOn
<1> QED  BY <1>4 DEF t

LEMMA RecordedFollows ==
    ASSUME NEW s, SessionShape(s), NEW e \in Events
    PROVE  /\ Follows(s, Record(s, e)) /\ Record(s, e).log = Append(s.log, e)
           /\ Record(s, e).recorded = Append(s.recorded, e)
<1> DEFINE l == Append(s.log, e)
           r == Append(s.recorded, e)
<1>1. l \in Seq(Events) /\ r \in Seq(Events)  BY DEF SessionShape
<1>2. Record(s, e) = [s EXCEPT !.log = l, !.recorded = r]
    BY DEF SessionShape, Fields, Record
<1> HIDE DEF l, r
<1>3. Follows(s, Record(s, e)) /\ Record(s, e).log = l /\ Record(s, e).recorded = r
    BY <1>1, <1>2 DEF SessionShape, Fields, Follows
<1> QED  BY <1>3 DEF l, r

LEMMA RecordedWritten ==
    ASSUME NEW s, SessionShape(s), NEW e \in Events
    PROVE  Follows(s, Written(Record(s, e))) /\ Logs(s, Written(Record(s, e)))
<1> DEFINE t == Record(s, e)
<1>1. Follows(s, t) /\ t.log = Append(s.log, e) /\ t.recorded = Append(s.recorded, e)
    BY RecordedFollows
<1>2. Logs(s, t) /\ SessionShape(t)  BY <1>1 DEF Logs, Follows
<1> HIDE DEF t
<1>3. Follows(t, Written(t)) /\ Written(t).log = t.log /\ Written(t).recorded = t.recorded
    BY <1>2, WrittenFollows, WrittenKeepsLog
<1>4. Follows(s, Written(t)) /\ Logs(s, Written(t))  BY <1>1, <1>2, <1>3, FollowsOn
<1> QED  BY <1>4 DEF t

\* A round is counted.
LEMMA SentWritten ==
    ASSUME NEW s, SessionShape(s), NEW known
    PROVE  Follows(s, Written(Sent(s, known))) /\ Logs(s, Written(Sent(s, known)))
<1> DEFINE n == s.sent + 1
           b == s.beyond \/ ~known
           t == [s EXCEPT !.sent = n, !.beyond = b]
<1>1. Sent(s, known) = t  BY DEF SessionShape, Fields, Sent
<1> HIDE DEF n, b
<1>2. Follows(s, t) /\ t.log = s.log /\ t.recorded = s.recorded
    BY DEF SessionShape, Fields, Follows
<1>3. Follows(s, t) /\ Logs(s, t) /\ SessionShape(t)  BY <1>2 DEF Follows, Logs
<1> HIDE DEF t
<1>4. Follows(t, Written(t)) /\ Written(t).log = t.log /\ Written(t).recorded = t.recorded
    BY <1>3, WrittenFollows, WrittenKeepsLog
<1>5. Follows(s, Written(t)) /\ Logs(s, Written(t))  BY <1>3, <1>4, FollowsOn
<1> QED  BY <1>1, <1>5

\* A reply is seen and recorded.
LEMMA SeenWritten ==
    ASSUME NEW s, SessionShape(s), NEW v, NEW e \in Events
    PROVE  /\ Follows(s, Written(Record([s EXCEPT !.seen = v], e)))
           /\ Logs(s, Written(Record([s EXCEPT !.seen = v], e)))
<1> DEFINE t == [s EXCEPT !.seen = v]
           u == Written(Record(t, e))
<1>1. Follows(s, t) /\ t.log = s.log /\ t.recorded = s.recorded
    BY DEF SessionShape, Fields, Follows
<1>2. SessionShape(t)  BY <1>1 DEF Follows
<1> HIDE DEF t
<1>3. Follows(t, u) /\ Logs(t, u)  BY <1>2, RecordedWritten
<1>4. Follows(s, u) /\ Logs(s, u)
    <2> HIDE DEF u
    <2> QED  BY <1>1, <1>3 DEF Follows, Logs
<1> QED  BY <1>4 DEF t

LEMMA DrainedFollows ==
    ASSUME NEW s, SessionShape(s)
    PROVE  LET t == Written([s EXCEPT !.log = <<>>])
           IN  Follows(s, t) /\ t.log = <<>> /\ t.recorded = s.recorded
<1> DEFINE t == [s EXCEPT !.log = <<>>]
<1>1. <<>> \in Seq(Events)  OBVIOUS
<1>2. Follows(s, t) /\ t.log = <<>> /\ t.recorded = s.recorded
    BY <1>1 DEF SessionShape, Fields, Follows
<1>3. SessionShape(t)  BY <1>2 DEF Follows
<1> HIDE DEF t
<1>4. Follows(t, Written(t)) /\ Written(t).log = t.log /\ Written(t).recorded = t.recorded
    BY <1>3, WrittenFollows, WrittenKeepsLog
<1>5. Follows(s, Written(t)) /\ Written(t).log = <<>> /\ Written(t).recorded = s.recorded
    BY <1>2, <1>4 DEF Follows
<1> QED  BY <1>5 DEF t

LEMMA ResetFollows ==
    ASSUME NEW s, SessionShape(s)
    PROVE  Follows(s, ResetStats(s))
<1> DEFINE n == NewSession(s.flows)
           t == [n EXCEPT !.paused = s.paused, !.gen = s.gen]
<1>1. SessionShape(n) /\ n.flows = s.flows
    BY NewSessionShape DEF SessionShape
<1> HIDE DEF n
<1>2. SessionShape(t) /\ t.flows = n.flows
    BY <1>1 DEF SessionShape, Fields
<1>3. ResetStats(s) = Written(t)  BY Zenon DEF ResetStats, n
<1> HIDE DEF t
<1> QED  BY <1>1, <1>2, <1>3, WrittenFollows DEF Follows

LEMMA PlayedFollows ==
    ASSUME NEW s, SessionShape(s), NEW p, NEW q
    PROVE  Follows(s, Played(s, p, q)) /\ Logs(s, Played(s, p, q))
<1>1. Follows(s, s) /\ Logs(s, s)  BY DEF Follows, Logs
<1>2. Follows(s, [s EXCEPT !.gen = 1]) /\ Logs(s, [s EXCEPT !.gen = 1])  BY FieldFollows
<1>3. Follows(s, Written(s)) /\ Logs(s, Written(s))  BY WrittenFollows
<1> QED  BY <1>1, <1>2, <1>3, Zenon DEF Played

\* What a step does to the sessions there are, and to what a stream has written.
SessionsFollow == DOMAIN sessions' = DOMAIN sessions /\ \A ip \in DOMAIN sessions : Follows(sessions[ip], sessions'[ip])
SessionsLog    == \A ip \in DOMAIN sessions : Logs(sessions[ip], sessions'[ip])
SessionsShape  == \A ip \in DOMAIN sessions : SessionShape(sessions[ip])
SessionsDrained ==
    /\ \A ip \in DOMAIN sessions : sessions'[ip].log = <<>> /\ sessions'[ip].recorded = sessions[ip].recorded
    /\ emitted' = [ip \in DOMAIN emitted |-> emitted[ip] \o sessions[ip].log]

PendingShape == pending \subseteq (DOMAIN engine) \X Nat \X Int

LEMMA SameSessions ==
    ASSUME SessionsShape, UNCHANGED sessions
    PROVE  SessionsFollow /\ SessionsLog
BY DEF SessionsShape, SessionsFollow, SessionsLog, Follows, Logs

\* One session is changed.
LEMMA OneFollows ==
    ASSUME SessionsShape, NEW addr, NEW t,
           addr \in DOMAIN sessions => Follows(sessions[addr], t) /\ Logs(sessions[addr], t),
           sessions' = [sessions EXCEPT ![addr] = t]
    PROVE  SessionsFollow /\ SessionsLog
BY DEF SessionsShape, SessionsFollow, SessionsLog, Follows, Logs

LEMMA DrainFollows ==
    ASSUME SessionsShape, Drain
    PROVE  SessionsFollow /\ SessionsDrained
<1>1. ASSUME NEW ip \in DOMAIN sessions
      PROVE  /\ Follows(sessions[ip], sessions'[ip]) /\ sessions'[ip].log = <<>>
             /\ sessions'[ip].recorded = sessions[ip].recorded
    <2>1. SessionShape(sessions[ip])  BY DEF SessionsShape
    <2>2. CASE sessions[ip].log = <<>>
        <3>1. sessions'[ip] = sessions[ip]  BY <2>2 DEF Drain
        <3> QED  BY <2>1, <2>2, <3>1 DEF Follows
    <2>3. CASE sessions[ip].log # <<>>
        <3>1. sessions'[ip] = Written([sessions[ip] EXCEPT !.log = <<>>])  BY <2>3 DEF Drain
        <3> QED  BY <2>1, <3>1, DrainedFollows
    <2> QED  BY <2>2, <2>3
<1>2. DOMAIN sessions' = DOMAIN sessions  BY DEF Drain
<1> QED  BY <1>1, <1>2 DEF SessionsFollow, SessionsDrained, Drain

LEMMA SessionsFrame ==
    ASSUME SessionsShape, PendingShape, DOMAIN engine \subseteq DOMAIN sessions, Next
    PROVE  \/ SessionsFollow /\ SessionsLog /\ UNCHANGED emitted
           \/ SessionsFollow /\ SessionsDrained /\ (Emit \/ Finish)
           \/ SessionsFollow /\ Shows /\ UNCHANGED emitted
           \/ BootReplay /\ UNCHANGED emitted
           \/ BootTracing
           \/ MgrInserts /\ UNCHANGED emitted
<1>1. CASE LifecycleStep /\ UNCHANGED <<tuiVars, enrichVars>>
    <2>1. CASE MainStep
        <3>1. CASE Emit
            BY <3>1, DrainFollows DEF Emit
        <3>2. CASE Finish
            <4>1. Drain \/ UNCHANGED <<sessions, emitted>>  BY <3>2 DEF Finish, FinalDrain
            <4> QED  BY <3>2, <4>1, DrainFollows, SameSessions
        <3>3. CASE BootReplay  BY <3>3 DEF BootReplay
        <3> QED  BY <2>1, <3>1, <3>2, <3>3, MainFrame, SameSessions
    <2>2. CASE Signal  BY <2>2, SameSessions DEF Signal
    <2>3. CASE MgrStep  BY <2>3, MgrFrame, SameSessions
    <2>4. CASE \E ip \in DOMAIN engine : EngineStep(ip)
        <3>1. PICK ip \in DOMAIN engine : EngineStep(ip)  BY <2>4
        <3>2. UNCHANGED emitted  BY <3>1, EngineFrame
        <3>3. CASE Round(ip)
            <4> DEFINE t == Written(Sent(sessions[ip], DestKnown(ip)))
            <4>1. SessionShape(sessions[ip]) /\ ip \in DOMAIN sessions  BY DEF SessionsShape
            <4>2. sessions' = [sessions EXCEPT ![ip] = t]  BY <3>3, <4>1 DEF Round
            <4>3. Follows(sessions[ip], t) /\ Logs(sessions[ip], t)  BY <4>1, SentWritten
            <4> HIDE DEF t
            <4> QED  BY <3>2, <4>2, <4>3, OneFollows
        <3> QED  BY <3>1, <3>2, <3>3, EngineFrame, SameSessions
    <2>5. CASE \E fam \in Families : ReceiverStep(fam)
        <3>1. PICK fam \in Families : ReceiverStep(fam)  BY <2>5
        <3>2. UNCHANGED emitted  BY <3>1, ReceiverFrame
        <3>3. CASE ReceiverFails(fam)  BY <3>2, <3>3, SameSessions DEF ReceiverFails
        <3>4. CASE Answered(fam)
            <4>1. PICK p \in pending : sessions' = [sessions EXCEPT ![p[1]] =
                            Written(Record(Seen(@, p[3]), <<"reply", p[2], p[3]>>))]
                BY <3>4 DEF Answered
            <4>2. p[1] \in DOMAIN sessions /\ p[2] \in Nat /\ p[3] \in Int
                <5>1. p \in (DOMAIN engine) \X Nat \X Int  BY DEF PendingShape
                <5> QED  BY <5>1
            <4> DEFINE s == sessions[p[1]]
                       e == <<"reply", p[2], p[3]>>
                       t == Written(Record(Seen(s, p[3]), e))
            <4>3. SessionShape(s)  BY <4>2 DEF SessionsShape
            <4>4. e \in Events  BY <4>2 DEF Events
            <4>5. sessions' = [sessions EXCEPT ![p[1]] = t]  BY <4>1, <4>2
            <4>6. Follows(s, t) /\ Logs(s, t)
                <5> HIDE DEF s, e
                <5> QED  BY <4>3, <4>4, SeenWritten DEF Seen
            <4> HIDE DEF t
            <4> QED  BY <3>2, <4>2, <4>5, <4>6, OneFollows
        <3>5. CASE TimedOut(fam)
            <4>1. PICK p \in pending : sessions' = [sessions EXCEPT ![p[1]] = Written(Record(@, <<"timeout", p[2], p[3]>>))]
                BY <3>5 DEF TimedOut
            <4>2. p[1] \in DOMAIN sessions /\ p[2] \in Nat /\ p[3] \in Int
                <5>1. p \in (DOMAIN engine) \X Nat \X Int  BY DEF PendingShape
                <5> QED  BY <5>1
            <4> DEFINE s == sessions[p[1]]
                       e == <<"timeout", p[2], p[3]>>
                       t == Written(Record(s, e))
            <4>3. SessionShape(s)  BY <4>2 DEF SessionsShape
            <4>4. e \in Events  BY <4>2 DEF Events
            <4>5. sessions' = [sessions EXCEPT ![p[1]] = t]  BY <4>1, <4>2
            <4>6. Follows(s, t) /\ Logs(s, t)
                <5> HIDE DEF s, e
                <5> QED  BY <4>3, <4>4, RecordedWritten
            <4> HIDE DEF t
            <4> QED  BY <3>2, <4>2, <4>5, <4>6, OneFollows
        <3>6. CASE Flush(fam)
            <4>1. DOMAIN sessions' = DOMAIN sessions  BY <3>6 DEF Flush
            <4>2. ASSUME NEW ip \in DOMAIN sessions
                  PROVE  Follows(sessions[ip], sessions'[ip]) /\ Logs(sessions[ip], sessions'[ip])
                <5>1. SessionShape(sessions[ip])  BY DEF SessionsShape
                <5>2. sessions'[ip] = sessions[ip] \/ sessions'[ip] = Written(sessions[ip])  BY <3>6 DEF Flush
                <5>3. Follows(sessions[ip], sessions[ip]) /\ Logs(sessions[ip], sessions[ip])
                    BY <5>1 DEF Follows, Logs
                <5> QED  BY <5>1, <5>2, <5>3, WrittenFollows
            <4> QED  BY <3>2, <4>1, <4>2 DEF SessionsFollow, SessionsLog
        <3> QED  BY <3>1, <3>3, <3>4, <3>5, <3>6, ReceiverFrame
    <2>6. CASE \E k \in DOMAIN worker : WorkerEnds(k)  BY <2>6, SameSessions DEF WorkerEnds
    <2> QED  BY <1>1, <2>1, <2>2, <2>3, <2>4, <2>5, <2>6 DEF LifecycleStep
<1>2. CASE TuiStep /\ UNCHANGED enrichVars
    <2>1. UNCHANGED emitted /\ Shows  BY <1>2, TuiFrame
    <2>2. ASSUME NEW q, PlayInto(q) PROVE SessionsFollow /\ SessionsLog
        <3>1. CASE UNCHANGED sessions  BY <3>1, SameSessions
        <3>2. CASE Target(ui) \in DOMAIN sessions /\ ~UNCHANGED sessions
            <4> DEFINE t == Played(sessions[Target(ui)], rp, q)
            <4>1. SessionShape(sessions[Target(ui)])  BY <3>2 DEF SessionsShape
            <4>2. sessions' = [sessions EXCEPT ![Target(ui)] = t]  BY <2>2, <3>2 DEF PlayInto
            <4>3. Follows(sessions[Target(ui)], t) /\ Logs(sessions[Target(ui)], t)  BY <4>1, PlayedFollows
            <4> HIDE DEF t
            <4> QED  BY <4>2, <4>3, OneFollows
        <3> QED  BY <2>2, <3>1, <3>2 DEF PlayInto, HasSession
    <2>3. CASE Frame  BY <2>1, <2>2, <2>3 DEF Frame
    <2>4. CASE \E k \in profile.keys : ReplayKey(k)  BY <2>1, <2>2, <2>4 DEF ReplayKey
    <2>5. CASE PauseKey
        <3>1. CASE UNCHANGED sessions  BY <2>1, <3>1, SameSessions
        <3>2. CASE ~UNCHANGED sessions
            <4> DEFINE addr == Target(ui)
                       t == Written([sessions[addr] EXCEPT !.paused = ui'.paused])
            <4>1. addr \in DOMAIN sessions
                BY <2>5, <3>2 DEF PauseKey, HasSession
            <4>2. sessions' = [sessions EXCEPT ![addr] = t]
                <5>1. sessions' = [sessions EXCEPT ![addr] = Written([@ EXCEPT !.paused = ui'.paused])]
                    BY <2>5, <3>2 DEF PauseKey
                <5> QED  BY <4>1, <5>1
            <4>3. SessionShape(sessions[addr])  BY <4>1 DEF SessionsShape
            <4>4. Follows(sessions[addr], t) /\ Logs(sessions[addr], t)  BY <4>3, FieldWritten
            <4> HIDE DEF t, addr
            <4> QED  BY <2>1, <4>2, <4>4, OneFollows
        <3> QED  BY <3>1, <3>2
    <2>6. CASE ResetKey
        <3> DEFINE addr == Target(ui)
                   t == ResetStats(sessions[addr])
        <3>1. addr \in DOMAIN sessions  BY <2>6 DEF ResetKey, HasSession
        <3>2. sessions' = [sessions EXCEPT ![addr] = t]
            <4>1. sessions' = [sessions EXCEPT ![addr] = ResetStats(@)]  BY <2>6 DEF ResetKey
            <4> QED  BY <3>1, <4>1
        <3>3. SessionShape(sessions[addr])  BY <3>1 DEF SessionsShape
        <3>4. Follows(sessions[addr], t)  BY <3>3, ResetFollows
        <3> HIDE DEF t, addr
        <3>5. SessionsFollow  BY <3>1, <3>2, <3>4 DEF SessionsShape, SessionsFollow, Follows
        <3> QED  BY <2>1, <3>5
    <2> QED  BY <1>2, <2>1, <2>3, <2>4, <2>5, <2>6, TuiFrame, SameSessions
<1>3. CASE EnrichStep /\ UNCHANGED tuiVars
    <2>1. UNCHANGED emitted  BY <1>3, EnrichFrame
    <2>2. ASSUME NEW k, FinishBatch(k) PROVE SessionsFollow /\ SessionsLog
        <3>1. DOMAIN sessions' = DOMAIN sessions  BY <2>2 DEF FinishBatch
        <3>2. ASSUME NEW ip \in DOMAIN sessions
              PROVE  Follows(sessions[ip], sessions'[ip]) /\ Logs(sessions[ip], sessions'[ip])
            <4>1. SessionShape(sessions[ip])  BY DEF SessionsShape
            <4>2. \/ sessions'[ip] = sessions[ip]
                  \/ \E v : sessions'[ip] = Written([sessions[ip] EXCEPT !.labels = v])
                BY <2>2 DEF FinishBatch
            <4>3. Follows(sessions[ip], sessions[ip]) /\ Logs(sessions[ip], sessions[ip])
                BY <4>1 DEF Follows, Logs
            <4> QED  BY <4>1, <4>2, <4>3, FieldWritten
        <3> QED  BY <3>1, <3>2 DEF SessionsFollow, SessionsLog
    <2> QED  BY <1>3, <2>1, <2>2, EnrichFrame, SameSessions
<1>4. CASE RefreshKey  BY <1>4, SameSessions DEF RefreshKey, lifecycleVars
<1>5. CASE Ended  BY <1>5, SameSessions DEF Ended, vars, lifecycleVars
<1> QED  BY <1>1, <1>2, <1>3, <1>4, <1>5 DEF Next
-----------------------------------------------------------------------------
(* The flows a run starts with.                                             *)

LEMMA EffectiveType ==
    ASSUME NEW a, a.flows \in 1..MaxFlows, NEW cached \in {None} \cup 1..MaxFlows, NEW works
    PROVE  CachedFlows(cached, ConfigFrom(a), works) \in 1..MaxFlows
<1>1. 1 \in 1..MaxFlows  BY DEF MaxFlows
<1>2. ConfigFrom(a).flows = a.flows  BY DEF ConfigFrom
<1> HIDE DEF MaxFlows
<1> QED  BY <1>1, <1>2 DEF CachedFlows, EffectiveFlows

FlowsAre == {None} \cup 1..MaxFlows

\* The sessions of a family all get the flows its capability was found to allow.
LEMMA StartedFlows ==
    ASSUME NEW S, NEW ips \in Seq(S), NEW works, Args.flows \in 1..MaxFlows
    PROVE  LET flowsOf == StartFlows(ips, works).flowsOf
           IN  \A i \in 1..Len(ips) :
                /\ flowsOf[ips[i]] \in 1..MaxFlows
                /\ \A j \in 1..Len(ips) : Family(ips[j]) = Family(ips[i]) => flowsOf[ips[j]] = flowsOf[ips[i]]
<1> DEFINE n == Len(ips)
           base == [cached |-> [fam \in Families |-> None], flowsOf |-> <<>>]
           Cached == [Families -> FlowsAre]
           Before(k) == {ips[i] : i \in 1..k}
           T == [k \in Nat |->
                    {acc \in [cached : Cached, flowsOf : [Before(k) -> 1..MaxFlows]] :
                        \A ip \in Before(k) : acc.flowsOf[ip] = acc.cached[Family(ip)]}]
<1>1. n \in Nat /\ DOMAIN ips = 1..n  OBVIOUS
<1> HIDE DEF n
<1>2. StartFlows(ips, works) = SF!Iter(works, ips, base, 1..n)[1..n]
    <2> HIDE DEF base
    <2>1. StartFlows(ips, works) = FoldLeft(LAMBDA acc, ip : StartOne(works, ip, acc), base, ips)
        BY Zenon DEF StartFlows, StartOne, base
    <2> QED
        BY <1>1, <2>1, Zenon DEF FoldLeft, MapThenFoldSet, SF!Iter, SF!Recursion, SF!Step, Highest
<1>3. base \in T[0]
    <2>1. Before(0) = {}  OBVIOUS
    <2>2. <<>> \in [{} -> 1..MaxFlows]
        <3>1. DOMAIN <<>> = {}  OBVIOUS
        <3>2. <<>> = [x \in DOMAIN <<>> |-> <<>>[x]]  OBVIOUS
        <3> QED  BY <3>1, <3>2
    <2>3. [fam \in Families |-> None] \in Cached  BY DEF FlowsAre
    <2>4. T[0] = {acc \in [cached : Cached, flowsOf : [Before(0) -> 1..MaxFlows]] :
                        \A ip \in Before(0) : acc.flowsOf[ip] = acc.cached[Family(ip)]}
        OBVIOUS
    <2> HIDE DEF T, Before, Cached
    <2> QED  BY <2>1, <2>2, <2>3, <2>4
<1>4. ASSUME NEW k \in Nat, k < n, NEW acc \in T[k] PROVE StartOne(works, ips[k + 1], acc) \in T[k + 1]
    <2> DEFINE addr == ips[k + 1]
               fam == Family(addr)
               f == CachedFlows(acc.cached[fam], Cfg, works[addr])
               cached == [acc.cached EXCEPT ![fam] = f]
               flowsOf == Inserted(acc.flowsOf, addr, f)
    <2>1. StartOne(works, addr, acc) = [cached |-> cached, flowsOf |-> flowsOf]
        BY DEF StartOne
    <2>2. /\ acc.cached \in Cached /\ acc.flowsOf \in [Before(k) -> 1..MaxFlows]
          /\ \A ip \in Before(k) : acc.flowsOf[ip] = acc.cached[Family(ip)]
        OBVIOUS
    <2>3. fam \in Families  BY DEF Family, Families
    <2>4. acc.cached[fam] \in FlowsAre  BY <2>2, <2>3
    <2>5. f \in 1..MaxFlows /\ (acc.cached[fam] # None => f = acc.cached[fam])
        BY <2>4, EffectiveType DEF FlowsAre, Cfg, CachedFlows
    <2>6. Before(k + 1) = Before(k) \cup {addr}
        <3>1. 1..(k + 1) = 1..k \cup {k + 1}  OBVIOUS
        <3> QED  BY <3>1
    <2>7. T[k + 1] = {r \in [cached : Cached, flowsOf : [Before(k + 1) -> 1..MaxFlows]] :
                        \A ip \in Before(k + 1) : r.flowsOf[ip] = r.cached[Family(ip)]}
        OBVIOUS
    <2> HIDE DEF T, Before, addr
    <2>8. cached \in Cached /\ cached[fam] = f /\ \A g \in Families : g # fam => cached[g] = acc.cached[g]
        <3> HIDE DEF f, fam
        <3> QED  BY <2>2, <2>3, <2>5 DEF FlowsAre
    <2>9. /\ flowsOf \in [Before(k + 1) -> 1..MaxFlows] /\ flowsOf[addr] = f
          /\ \A ip \in Before(k) : ip # addr => flowsOf[ip] = acc.flowsOf[ip]
        <3> HIDE DEF f, fam
        <3> QED  BY <2>2, <2>5, <2>6 DEF Inserted
    <2>10. ASSUME NEW ip \in Before(k + 1) PROVE flowsOf[ip] = cached[Family(ip)]
        <3> HIDE DEF f, cached, flowsOf
        <3>1. CASE ip = addr  BY <2>8, <2>9, <3>1 DEF fam
        <3>2. CASE ip # addr
            <4>1. ip \in Before(k) /\ flowsOf[ip] = acc.cached[Family(ip)] /\ Family(ip) \in Families
                BY <2>2, <2>6, <2>9, <3>2 DEF Family, Families
            <4>2. CASE Family(ip) = fam
                <5>1. acc.cached[fam] \in 1..MaxFlows  BY <2>2, <4>1, <4>2
                <5>2. acc.cached[fam] # None
                    <6>1. \A x \in 1..MaxFlows : x \in Int  BY DEF MaxFlows
                    <6> QED  BY <5>1, <6>1, NoneAssumption
                <5> QED  BY <2>5, <2>8, <4>1, <4>2, <5>2
            <4>3. CASE Family(ip) # fam  BY <2>8, <4>1, <4>3
            <4> QED  BY <4>2, <4>3
        <3> QED  BY <3>1, <3>2
    <2>11. [cached |-> cached, flowsOf |-> flowsOf] \in T[k + 1]
        <3> HIDE DEF f, cached, flowsOf, Cached
        <3> QED  BY <2>7, <2>8, <2>9, <2>10
    <2> HIDE DEF cached, flowsOf, f
    <2> QED  BY <2>1, <2>11 DEF addr
<1>5. SF!Iter(works, ips, base, 1..n)[1..n] \in T[n]
    <2> HIDE DEF T, base
    <2> QED  BY <1>1, <1>3, <1>4, Folding, SF!Keeps
<1> DEFINE acc == StartFlows(ips, works)
<1>6. acc \in T[n]  BY <1>2, <1>5
<1>7. /\ acc.flowsOf \in [Before(n) -> 1..MaxFlows]
      /\ \A ip \in Before(n) : acc.flowsOf[ip] = acc.cached[Family(ip)]
    <2> HIDE DEF acc
    <2> QED  BY <1>1, <1>6
<1>8. \A i \in 1..n : ips[i] \in Before(n)
    OBVIOUS
<1> HIDE DEF acc, T, Before
<1> QED  BY <1>7, <1>8 DEF n, acc

\* The first target of a family is one of them.
LEMMA FirstIsOne ==
    ASSUME NEW S, NEW ips \in Seq(S), NEW fam \in FamiliesOf(ips)
    PROVE  \E i \in 1..Len(ips) : FirstOf(ips, fam) = ips[i] /\ Family(ips[i]) = fam
<1> DEFINE Those == {i \in 1..Len(ips) : Family(ips[i]) = fam}
           First(i) == Family(ips[i]) = fam /\ \A j \in 1..(i - 1) : Family(ips[j]) # fam
<1>1. Those \in SUBSET Nat /\ Those # {}
    BY DEF FamiliesOf
<1>2. PICK i \in Those : \A j \in Those : i <= j
    <2> HIDE DEF Those
    <2> QED  BY <1>1, KF!LeastNat
<1>3. i \in 1..Len(ips) /\ First(i)
    <2>1. ASSUME NEW j \in 1..(i - 1) PROVE Family(ips[j]) # fam
        <3>1. i \in Nat /\ j \in 1..Len(ips) /\ ~(i <= j)  BY <1>1, <1>2
        <3>2. j \notin Those  BY <1>2, <3>1
        <3> QED  BY <3>1, <3>2
    <2> QED  BY <2>1
<1> DEFINE m == CHOOSE k \in 1..Len(ips) : First(k)
<1>4. m \in 1..Len(ips) /\ First(m)
    <2> HIDE DEF First
    <2> QED  BY <1>3
<1>5. FirstOf(ips, fam) = ips[m]  BY DEF FirstOf
<1> QED  BY <1>4, <1>5
-----------------------------------------------------------------------------
(* The shapes of the tasks, and how they change.                            *)

MgrFields == {"pc", "req", "ip", "cached", "served", "added", "spawned"}
MgrShape ==
    /\ mgr = [field \in MgrFields |-> mgr[field]]
    /\ mgr.cached \in [Families -> FlowsAre]
    /\ mgr.served \in SUBSET Families
    /\ mgr.added \in Seq(DOMAIN engine)
    /\ mgr.spawned \in Seq(Families)

EnginesShape == \A ip \in DOMAIN engine : engine[ip] \in EngineRecord
ReceiversShape == receiver \in [Families -> {None} \cup ReceiverRecord]

Shapes ==
    /\ SessionsShape /\ PendingShape /\ DOMAIN engine \subseteq DOMAIN sessions
    /\ EnginesShape /\ ReceiversShape /\ MgrShape

\* An engine that is done stays so, and so does a receiver.
EngineMoves(e, d) == d \in EngineRecord /\ d.owner = e.owner /\ (e.pc = "done" => d.pc = "done")
EnginesMove ==
    DOMAIN engine' = DOMAIN engine /\ \A ip \in DOMAIN engine : EngineMoves(engine[ip], engine'[ip])

ReceiverMoves(r, q) ==
    /\ q \in {None} \cup ReceiverRecord
    /\ r = None <=> q = None
    /\ r # None => q.flows = r.flows /\ q.owner = r.owner /\ (r.pc = "done" => q.pc = "done")
ReceiversMove ==
    /\ receiver' \in [Families -> {None} \cup ReceiverRecord]
    /\ \A fam \in Families : ReceiverMoves(receiver[fam], receiver'[fam])

LEMMA SameEngines ==
    ASSUME EnginesShape, UNCHANGED engine
    PROVE  EnginesMove
BY DEF EnginesShape, EnginesMove, EngineMoves

LEMMA OneEngine ==
    ASSUME EnginesShape, NEW ip \in DOMAIN engine, NEW d, EngineMoves(engine[ip], d),
           engine' = [engine EXCEPT ![ip] = d]
    PROVE  EnginesMove
BY DEF EnginesShape, EnginesMove, EngineMoves

LEMMA SameReceivers ==
    ASSUME ReceiversShape, UNCHANGED receiver
    PROVE  ReceiversMove
BY DEF ReceiversShape, ReceiversMove, ReceiverMoves

LEMMA OneReceiver ==
    ASSUME ReceiversShape, NEW fam \in Families, NEW q, ReceiverMoves(receiver[fam], q),
           receiver' = [receiver EXCEPT ![fam] = q]
    PROVE  ReceiversMove
BY DEF ReceiversShape, ReceiversMove, ReceiverMoves

LEMMA EngineStepMoves ==
    ASSUME EnginesShape, NEW ip \in DOMAIN engine, EngineStep(ip)
    PROVE  EnginesMove /\ engine[ip].pc \in {"start", "run"}
<1> DEFINE e == engine[ip]
<1>1. /\ e \in EngineRecord /\ e.pc \in {"start", "run", "done", "failed"} /\ e.rounds \in Nat
      /\ e.owner \in Owners /\ e.works \in SUBSET {"icmp", "udp"}
    BY DEF EnginesShape, EngineRecord
<1>2. ASSUME NEW pc \in {"run", "done", "failed"}, NEW works \in SUBSET {"icmp", "udp"}, e.pc # "done",
             engine' = [engine EXCEPT ![ip].pc = pc, ![ip].works = works]
      PROVE  EnginesMove
    <2> DEFINE d == [e EXCEPT !.pc = pc, !.works = works]
    <2>1. engine' = [engine EXCEPT ![ip] = d]  BY <1>2
    <2>2. EngineMoves(e, d)  BY <1>1, <1>2 DEF EngineMoves, EngineRecord
    <2> HIDE DEF d
    <2> QED  BY <2>1, <2>2, OneEngine
<1>3. ASSUME NEW pc \in {"run", "done", "failed"}, e.pc # "done", engine' = [engine EXCEPT ![ip].pc = pc]
      PROVE  EnginesMove
    <2> DEFINE d == [e EXCEPT !.pc = pc]
    <2>1. engine' = [engine EXCEPT ![ip] = d]  BY <1>3
    <2>2. EngineMoves(e, d)  BY <1>1, <1>3 DEF EngineMoves, EngineRecord
    <2> HIDE DEF d
    <2> QED  BY <2>1, <2>2, OneEngine
<1>4. CASE EngineStart(ip)
    <2>1. CASE engine' = [engine EXCEPT ![ip].pc = "failed"]  BY <1>3, <1>4, <2>1 DEF EngineStart
    <2>2. CASE \E works \in SUBSET {"icmp", "udp"} : engine' = [engine EXCEPT ![ip].pc = "run", ![ip].works = works]
        BY <1>2, <1>4, <2>2 DEF EngineStart
    <2> QED  BY <1>4, <2>1, <2>2 DEF EngineStart
<1>5. CASE Round(ip)
    <2> DEFINE d == [e EXCEPT !.rounds = @ + 1]
    <2>1. engine' = [engine EXCEPT ![ip] = d]  BY <1>5 DEF Round
    <2>2. EngineMoves(e, d)  BY <1>1 DEF EngineMoves, EngineRecord
    <2> HIDE DEF d
    <2> QED  BY <1>5, <2>1, <2>2, OneEngine DEF Round
<1>6. CASE CountReached(ip)  BY <1>3, <1>6 DEF CountReached
<1>7. CASE EngineCancelled(ip)  BY <1>3, <1>7 DEF EngineCancelled
<1> QED  BY <1>4, <1>5, <1>6, <1>7 DEF EngineStep

LEMMA ReceiverStepMoves ==
    ASSUME ReceiversShape, NEW fam \in Families, ReceiverStep(fam)
    PROVE  ReceiversMove
<1>1. receiver[fam] # None /\ receiver[fam].pc = "run"  BY ReceiverFrame DEF ReceiverRuns
<1>2. CASE UNCHANGED receiver  BY <1>2, SameReceivers
<1>3. CASE \E pc \in {"failed", "done"} : receiver' = [receiver EXCEPT ![fam].pc = pc]
    <2> PICK pc \in {"failed", "done"} : receiver' = [receiver EXCEPT ![fam].pc = pc]  BY <1>3
    <2> DEFINE r == receiver[fam]
               q == [r EXCEPT !.pc = pc]
    <2>1. receiver' = [receiver EXCEPT ![fam] = q]  OBVIOUS
    <2>2. r \in ReceiverRecord  BY <1>1 DEF ReceiversShape
    <2>3. q \in ReceiverRecord /\ q.flows = r.flows /\ q.owner = r.owner
        BY <2>2 DEF ReceiverRecord
    <2> HIDE DEF r, q
    <2>4. ReceiverMoves(r, q)
        BY <1>1, <2>3, NoneAssumption DEF ReceiverMoves, r
    <2> QED  BY <2>1, <2>4, OneReceiver DEF r
<1> QED  BY <1>2, <1>3, ReceiverFrame

\* Engines and receivers are made at startup and by the manager only.
LEMMA TasksFrame ==
    ASSUME EnginesShape, ReceiversShape, Next
    PROVE  (EnginesMove /\ ReceiversMove) \/ BootTracing \/ MgrSpawns
<1> USE DEF taskVars, lifecycleVars
<1>1. CASE UNCHANGED <<engine, receiver>>  BY <1>1, SameEngines, SameReceivers
<1>2. CASE LifecycleStep /\ UNCHANGED <<tuiVars, enrichVars>>
    <2>1. CASE MainStep  BY <1>1, <2>1, MainFrame
    <2>2. CASE Signal  BY <1>1, <2>2 DEF Signal
    <2>3. CASE MgrStep  BY <1>1, <2>3, MgrFrame
    <2>4. CASE \E ip \in DOMAIN engine : EngineStep(ip)
        BY <2>4, EngineStepMoves, EngineFrame, SameReceivers
    <2>5. CASE \E fam \in Families : ReceiverStep(fam)
        BY <2>5, ReceiverStepMoves, ReceiverFrame, SameEngines
    <2>6. CASE \E k \in DOMAIN worker : WorkerEnds(k)  BY <1>1, <2>6 DEF WorkerEnds
    <2> QED  BY <1>2, <2>1, <2>2, <2>3, <2>4, <2>5, <2>6 DEF LifecycleStep
<1>3. CASE TuiStep /\ UNCHANGED enrichVars  BY <1>1, <1>3, TuiFrame
<1>4. CASE EnrichStep /\ UNCHANGED tuiVars  BY <1>1, <1>4, EnrichFrame
<1>5. CASE RefreshKey  BY <1>1, <1>5 DEF RefreshKey
<1>6. CASE Ended  BY <1>1, <1>6 DEF Ended, vars
<1> QED  BY <1>2, <1>3, <1>4, <1>5, <1>6 DEF Next

LEMMA MgrSteps ==
    ASSUME Next
    PROVE  UNCHANGED mgr \/ BootTracing \/ MgrStep
<1> USE DEF mgrVars, lifecycleVars
<1>1. CASE LifecycleStep /\ UNCHANGED <<tuiVars, enrichVars>>
    <2>1. CASE MainStep  BY <2>1, MainFrame
    <2>2. CASE Signal  BY <2>2 DEF Signal
    <2>3. CASE \E ip \in DOMAIN engine : EngineStep(ip)  BY <2>3, EngineFrame
    <2>4. CASE \E fam \in Families : ReceiverStep(fam)  BY <2>4, ReceiverFrame
    <2>5. CASE \E k \in DOMAIN worker : WorkerEnds(k)  BY <2>5 DEF WorkerEnds
    <2> QED  BY <1>1, <2>1, <2>2, <2>3, <2>4, <2>5 DEF LifecycleStep
<1>2. CASE TuiStep /\ UNCHANGED enrichVars  BY <1>2, TuiFrame
<1>3. CASE EnrichStep /\ UNCHANGED tuiVars  BY <1>3, EnrichFrame
<1>4. CASE RefreshKey  BY <1>4 DEF RefreshKey
<1>5. CASE Ended  BY <1>5 DEF Ended, vars
<1> QED  BY <1>1, <1>2, <1>3, <1>4, <1>5 DEF Next

\* What the manager does to its own state.
MgrKeeps == UNCHANGED <<mgr.cached, mgr.served, mgr.added, mgr.spawned>>
MgrRecord(m) == m = [field \in MgrFields |-> m[field]]

LEMMA MgrChanges ==
    ASSUME MgrShape, MgrStep
    PROVE  /\ MgrRecord(mgr')
           /\ \/ MgrKeeps /\ mgr'.pc \in {"idle", "resolving", "joining", "done", "failed"}
                 /\ (MgrTake \/ MgrCloses \/ MgrDeclines \/ MgrJoins)
              \/ /\ MgrInserts /\ mgr'.pc = "inserted"
                 /\ UNCHANGED <<mgr.served, mgr.added, mgr.spawned>>
              \/ /\ MgrSpawns /\ mgr'.pc = "idle" /\ UNCHANGED mgr.cached
                 /\ mgr'.served = mgr.served \cup {Family(mgr.ip)} /\ mgr'.added = Append(mgr.added, mgr.ip)
                 /\ mgr'.spawned = IF Family(mgr.ip) \notin mgr.served THEN Append(mgr.spawned, Family(mgr.ip))
                                   ELSE mgr.spawned
<1> USE DEF MgrRecord, MgrFields, MgrKeeps
<1>1. MgrRecord(mgr)  BY DEF MgrShape
<1>2. CASE MgrTake  BY <1>1, <1>2 DEF MgrTake
<1>3. CASE MgrCloses  BY <1>1, <1>3 DEF MgrCloses
<1>4. CASE MgrDeclines
    <2>1. \E ip : mgr' = [mgr EXCEPT !.pc = "idle", !.ip = ip]  BY <1>4 DEF MgrDeclines
    <2> QED  BY <1>1, <1>4, <2>1
<1>5. CASE MgrInserts
    <2>1. PICK ip, flows : mgr' = [mgr EXCEPT !.pc = "inserted", !.ip = ip, !.cached[Family(ip)] = flows]
        BY <1>5 DEF MgrInserts
    <2> DEFINE cached == [mgr.cached EXCEPT ![Family(ip)] = flows]
    <2>2. mgr' = [mgr EXCEPT !.pc = "inserted", !.ip = ip, !.cached = cached]
        BY <1>1, <2>1
    <2> HIDE DEF cached
    <2> QED  BY <1>1, <1>5, <2>2
<1>6. CASE MgrSpawns
    <2> DEFINE fam == Family(mgr.ip)
               served == mgr.served \cup {fam}
               added == Append(mgr.added, mgr.ip)
               spawned == IF fam \notin mgr.served THEN Append(mgr.spawned, fam) ELSE mgr.spawned
    <2>1. mgr' = [mgr EXCEPT !.pc = "idle", !.served = served, !.added = added, !.spawned = spawned]
        BY <1>1, <1>6 DEF MgrSpawns
    <2>2. MgrRecord(mgr') /\ mgr'.pc = "idle" /\ UNCHANGED mgr.cached /\ mgr'.served = served
          /\ mgr'.added = added /\ mgr'.spawned = spawned
        <3> HIDE DEF served, added, spawned
        <3> QED  BY <1>1, <2>1
    <2> QED  BY <1>6, <2>2
<1>7. CASE MgrJoins
    <2>1. \E pc \in {"done", "failed"} : mgr' = [mgr EXCEPT !.pc = pc]  BY <1>7 DEF MgrJoins
    <2> QED  BY <1>1, <1>7, <2>1
<1> QED  BY <1>2, <1>3, <1>4, <1>5, <1>6, <1>7 DEF MgrStep
-----------------------------------------------------------------------------
(* The flows that sessions, receivers and the manager's cache agree on.     *)

FlowsAgree ==
    /\ \A ip \in DOMAIN sessions : sessions[ip].flows = mgr.cached[Family(ip)]
    /\ \A fam \in mgr.served :
        receiver[fam] # None /\ mgr.cached[fam] # None /\ receiver[fam].flows = mgr.cached[fam]

FlowsInv ==
    /\ Heard
    /\ mgr.pc # "off" => FlowsAgree
    /\ mgr.pc = "inserted" => mgr.ip \in DOMAIN sessions /\ mgr.ip \notin DOMAIN engine

FlowsInductive == Started /\ Shapes /\ FlowsInv

LEMMA FamilyType == \A ip : Family(ip) \in Families
BY DEF Family, Families

\* None is no number of flows, and no receiver.
LEMMA NotNone ==
    /\ \A x \in 1..MaxFlows : x # None
    /\ \A r \in ReceiverRecord : r # None
<1>1. \A x \in 1..MaxFlows : x \in Int  BY DEF MaxFlows
<1> QED  BY <1>1, NoneAssumption

\* What a run that traces starts with.
LEMMA TracingStarts ==
    ASSUME Started, Shapes, BootTracing
    PROVE  /\ profile' = profile /\ pending' = {} /\ NothingYet /\ Valid(Args) /\ ~ReplayOrDiff(Args)
           /\ DOMAIN engine' = DOMAIN sessions' /\ DOMAIN emitted' = DOMAIN sessions'
           /\ DOMAIN engine' = {StartTargets[i] : i \in 1..Len(StartTargets)}
           /\ StartTargets \in Seq(DOMAIN engine')
           /\ \A ip \in DOMAIN engine' :
                /\ engine'[ip] = NewEngine("main") /\ emitted'[ip] = <<>>
                /\ SessionShape(sessions'[ip])
                /\ sessions'[ip].log = <<>> /\ sessions'[ip].recorded = <<>>
           /\ receiver' \in [Families -> {None} \cup ReceiverRecord]
           /\ \A fam \in Families : receiver'[fam] # None => receiver'[fam].owner = "main"
           /\ Heard'
           /\ \/ RunMode # "interactive" /\ mgr' = mgr
              \/ /\ RunMode = "interactive"
                 /\ MgrRecord(mgr') /\ mgr'.pc = "idle" /\ mgr'.added = <<>> /\ mgr'.spawned = <<>>
                 /\ mgr'.cached \in [Families -> FlowsAre] /\ mgr'.served \in SUBSET Families
                 /\ FlowsAgree'
<1> DEFINE ips == StartTargets
           S == DOMAIN profile.path
           n == Len(ips)
<1>1. stage = "boot" /\ ~Refused /\ ~ReplayOrDiff(Args) /\ profile' = profile /\ NothingYet /\ pending' = pending
    BY DEF BootTracing, Started
<1>2. Valid(Args) /\ ips # None /\ pending' = {} /\ profile \in Profiles /\ Args.flows \in 1..MaxFlows
    BY <1>1 DEF Refused, NothingYet, Started, Valid, RangesValid
<1>3. ips \in Seq(S)
    <2>1. ips = InitialTargets(Args, profile.dns)  BY <1>1 DEF StartTargets
    <2>2. /\ Args.targets \in Seq(DOMAIN profile.dns)
          /\ \A host \in DOMAIN profile.dns : profile.dns[host] \in Seq(S)
        BY <1>2, RunsAssumption DEF Args
    <2> QED  BY <1>2, <2>1, <2>2, TargetsType
<1> HIDE DEF ips, S
<1>4. n \in Nat /\ DOMAIN ips = 1..n  BY <1>3
<1>5. ToSet(ips) = {ips[i] : i \in 1..n}  BY <1>4 DEF ToSet
<1> DEFINE Starting(works, start) ==
        LET Flows(fam) == start.flowsOf[FirstOf(ips, fam)]
        IN  /\ start = StartFlows(ips, works)
            /\ sessions' = [ip \in ToSet(ips) |-> NewSession(start.flowsOf[ip])]
            /\ engine' = [ip \in ToSet(ips) |-> NewEngine("main")]
            /\ receiver' = [fam \in Families |->
                                    IF fam \in FamiliesOf(ips) THEN NewReceiver(Flows(fam), "main") ELSE None]
            /\ mgr' = IF RunMode # "interactive" THEN mgr
                      ELSE [mgr EXCEPT !.pc = "idle", !.served = FamiliesOf(ips),
                                    !.cached = [fam \in Families |-> IF fam \in FamiliesOf(ips) THEN Flows(fam) ELSE None]]
            /\ emitted' = [ip \in ToSet(ips) |-> <<>>]
<1>6. PICK works \in [ToSet(ips) -> BOOLEAN] : \E start : Starting(works, start)
    BY DEF BootTracing, ips
<1>7. PICK start : Starting(works, start)
    BY <1>6
<1> DEFINE Flows(fam) == start.flowsOf[FirstOf(ips, fam)]
<1>8. \A i \in 1..n :
        /\ start.flowsOf[ips[i]] \in 1..MaxFlows
        /\ \A j \in 1..n : Family(ips[j]) = Family(ips[i]) => start.flowsOf[ips[j]] = start.flowsOf[ips[i]]
    BY <1>2, <1>3, <1>7, StartedFlows
<1>9. ASSUME NEW ip \in ToSet(ips)
      PROVE  /\ start.flowsOf[ip] \in 1..MaxFlows /\ Family(ip) \in FamiliesOf(ips)
             /\ Flows(Family(ip)) = start.flowsOf[ip]
    <2>1. PICK i \in 1..n : ip = ips[i]  BY <1>5
    <2>2. Family(ip) \in FamiliesOf(ips)  BY <2>1 DEF FamiliesOf
    <2>3. PICK j \in 1..n : FirstOf(ips, Family(ip)) = ips[j] /\ Family(ips[j]) = Family(ip)
        BY <1>3, <2>2, FirstIsOne
    <2> QED  BY <1>8, <2>1, <2>2, <2>3
<1>10. ASSUME NEW fam \in FamiliesOf(ips) PROVE fam \in Families /\ Flows(fam) \in 1..MaxFlows
    <2>1. PICK i \in 1..n : FirstOf(ips, fam) = ips[i] /\ Family(ips[i]) = fam
        BY <1>3, FirstIsOne
    <2> QED  BY <1>8, <2>1, FamilyType
<1> HIDE DEF Flows, n
<1>11. /\ DOMAIN sessions' = ToSet(ips) /\ DOMAIN engine' = ToSet(ips) /\ DOMAIN emitted' = ToSet(ips)
       /\ \A ip \in ToSet(ips) : sessions'[ip] = NewSession(start.flowsOf[ip])
       /\ \A ip \in ToSet(ips) : engine'[ip] = NewEngine("main") /\ emitted'[ip] = <<>>
    BY <1>7
<1>12. receiver' = [fam \in Families |-> IF fam \in FamiliesOf(ips) THEN NewReceiver(Flows(fam), "main") ELSE None]
    BY <1>7 DEF Flows
<1>13. ASSUME NEW fam \in FamiliesOf(ips)
       PROVE  NewReceiver(Flows(fam), "main") \in ReceiverRecord /\ NewReceiver(Flows(fam), "main").flows = Flows(fam)
              /\ NewReceiver(Flows(fam), "main").owner = "main"
    BY <1>10 DEF NewReceiver, ReceiverRecord, Owners
<1>14. /\ receiver' \in [Families -> {None} \cup ReceiverRecord]
       /\ \A fam \in Families : receiver'[fam] # None => receiver'[fam].owner = "main"
       /\ \A fam \in FamiliesOf(ips) : receiver'[fam] # None /\ receiver'[fam].flows = Flows(fam)
    BY <1>10, <1>12, <1>13, NotNone
<1>15. \A ip \in ToSet(ips) :
        /\ SessionShape(sessions'[ip]) /\ sessions'[ip].flows = Flows(Family(ip))
        /\ sessions'[ip].log = <<>> /\ sessions'[ip].recorded = <<>>
    BY <1>9, <1>11, NewSessionShape
<1>16. Heard'
    BY <1>9, <1>11, <1>14, <1>15 DEF Heard
<1>17. ips \in Seq(ToSet(ips))
    <2>1. \A i \in 1..n : ips[i] \in ToSet(ips)  BY <1>5
    <2> QED  BY <1>3, <1>4, <2>1
<1>18. CASE RunMode # "interactive"
    BY <1>1, <1>2, <1>5, <1>7, <1>11, <1>14, <1>15, <1>16, <1>17, <1>18 DEF n, ips
<1>19. CASE RunMode = "interactive"
    <2> DEFINE cached == [fam \in Families |-> IF fam \in FamiliesOf(ips) THEN Flows(fam) ELSE None]
    <2>1. mgr' = [mgr EXCEPT !.pc = "idle", !.served = FamiliesOf(ips), !.cached = cached]
        BY <1>7, <1>19 DEF Flows
    <2>2. cached \in [Families -> FlowsAre] /\ \A fam \in FamiliesOf(ips) : cached[fam] = Flows(fam)
        BY <1>10 DEF FlowsAre
    <2> HIDE DEF cached
    <2>3. MgrRecord(mgr) /\ mgr.added = <<>> /\ mgr.spawned = <<>>
        BY <1>1 DEF NothingYet, MgrRecord, MgrFields
    <2>4. /\ MgrRecord(mgr') /\ mgr'.pc = "idle" /\ mgr'.served = FamiliesOf(ips) /\ mgr'.cached = cached
          /\ mgr'.added = <<>> /\ mgr'.spawned = <<>>
        BY <2>1, <2>3 DEF MgrRecord, MgrFields
    <2>5. FamiliesOf(ips) \in SUBSET Families  BY <1>10
    <2>6. FlowsAgree'
        <3>1. \A ip \in DOMAIN sessions' : sessions'[ip].flows = mgr'.cached[Family(ip)]
            BY <1>9, <1>11, <1>15, <2>2, <2>4
        <3>2. \A fam \in mgr'.served :
                receiver'[fam] # None /\ mgr'.cached[fam] # None /\ receiver'[fam].flows = mgr'.cached[fam]
            BY <1>10, <1>14, <2>2, <2>4, NotNone
        <3> QED  BY <3>1, <3>2 DEF FlowsAgree
    <2> QED
        BY <1>1, <1>2, <1>5, <1>11, <1>14, <1>15, <1>16, <1>17, <1>19, <2>2, <2>4, <2>5, <2>6 DEF n, ips
<1> QED  BY <1>18, <1>19

LEMMA Accepted ==
    ASSUME Started, stage # "boot"
    PROVE  Valid(Args) /\ Args.flows \in 1..MaxFlows
BY DEF Started, Refused, Valid, RangesValid

LEMMA ReplayShows ==
    ASSUME Started, SessionsShape, BootReplay
    PROVE  SessionsShape' /\ DOMAIN sessions \subseteq DOMAIN sessions' /\ UNCHANGED <<engine, receiver, mgr, pending>>
<1>1. ~Refused /\ UNCHANGED <<engine, receiver, mgr, pending>>
    BY DEF BootReplay, taskVars, mgrVars
<1>2. Cfg.flows \in 1..MaxFlows
    BY <1>1 DEF Refused, Valid, RangesValid, Cfg, ConfigFrom
<1> DEFINE s == IF profile.events = <<>> THEN SavedSession ELSE NewSession(Cfg.flows)
<1>3. SessionShape(s)
    <2> DEFINE n == NewSession(Cfg.flows)
               v == 1..Len(profile.path[profile.recorded])
    <2>1. SessionShape(n)  BY <1>2, NewSessionShape
    <2>2. SavedSession = [n EXCEPT !.sent = 1, !.seen = v]  BY DEF SavedSession
    <2> HIDE DEF n, v
    <2>3. SessionShape(SavedSession)  BY <2>1, <2>2 DEF SessionShape, Fields
    <2> QED  BY <2>1, <2>3 DEF n
<1>4. sessions' = Inserted(sessions, profile.recorded, s)
    BY DEF BootReplay
<1> HIDE DEF s
<1> QED  BY <1>1, <1>3, <1>4 DEF SessionsShape, Inserted

\* A target that is added gets the flows of its family, and fixes them if it is
\* the family's first.
LEMMA InsertsFlows ==
    ASSUME FlowsInductive, MgrInserts
    PROVE  /\ mgr'.ip \notin DOMAIN sessions /\ DOMAIN sessions' = DOMAIN sessions \cup {mgr'.ip}
           /\ SessionsShape' /\ \A ip \in DOMAIN sessions : sessions'[ip] = sessions[ip]
           /\ mgr'.cached \in [Families -> FlowsAre] /\ FlowsAgree'
           /\ UNCHANGED <<engine, receiver, pending>>
<1>1. mgr.pc = "resolving" /\ UNCHANGED <<engine, receiver, pending>>
    BY DEF MgrInserts, MgrUnchanged
<1>2. PICK ip, works, flows :
        /\ ip \notin DOMAIN sessions
        /\ flows = CachedFlows(mgr.cached[Family(ip)], Cfg, works)
        /\ mgr' = [mgr EXCEPT !.pc = "inserted", !.ip = ip, !.cached[Family(ip)] = flows]
        /\ sessions' = Inserted(sessions, ip, NewSession(flows))
    BY DEF MgrInserts
<1>3. /\ MgrRecord(mgr) /\ mgr.cached \in [Families -> FlowsAre] /\ mgr.served \in SUBSET Families
      /\ FlowsAgree /\ SessionsShape /\ stage # "boot"
    BY <1>1 DEF FlowsInductive, FlowsInv, Shapes, MgrShape, MgrRecord, Started, NothingYet
<1> DEFINE fam == Family(ip)
           cached == [mgr.cached EXCEPT ![fam] = flows]
<1>4. fam \in Families  BY FamilyType
<1>5. flows \in 1..MaxFlows
    <2>1. mgr.cached[fam] \in {None} \cup 1..MaxFlows  BY <1>3, <1>4 DEF FlowsAre
    <2>2. Args.flows \in 1..MaxFlows  BY <1>3, Accepted DEF FlowsInductive
    <2> QED  BY <1>2, <2>1, <2>2, EffectiveType DEF Cfg
<1>6. mgr' = [mgr EXCEPT !.pc = "inserted", !.ip = ip, !.cached = cached]
    BY <1>2, <1>3 DEF MgrRecord, MgrFields
<1>7. /\ cached \in [Families -> FlowsAre] /\ cached[fam] = flows
      /\ \A g \in Families : g # fam => cached[g] = mgr.cached[g]
    BY <1>3, <1>4, <1>5 DEF FlowsAre
<1>8. mgr.cached[fam] # None => flows = mgr.cached[fam]
    BY <1>2 DEF CachedFlows
<1> HIDE DEF cached, fam
<1>9. mgr'.cached = cached /\ mgr'.ip = ip /\ mgr'.served = mgr.served
    BY <1>3, <1>6 DEF MgrRecord, MgrFields
<1>10. SessionShape(NewSession(flows)) /\ NewSession(flows).flows = flows
    BY <1>5, NewSessionShape
<1>11. /\ DOMAIN sessions' = DOMAIN sessions \cup {ip} /\ sessions'[ip] = NewSession(flows)
       /\ \A addr \in DOMAIN sessions : sessions'[addr] = sessions[addr]
    BY <1>2 DEF Inserted
<1>12. SessionsShape'
    BY <1>3, <1>10, <1>11 DEF SessionsShape
\* What was cached for a family stays.
<1>13. ASSUME NEW g \in Families, mgr.cached[g] # None PROVE cached[g] = mgr.cached[g]
    BY <1>7, <1>8, <1>13
<1>14. ASSUME NEW addr \in DOMAIN sessions' PROVE sessions'[addr].flows = mgr'.cached[Family(addr)]
    <2>1. CASE addr = ip  BY <1>7, <1>9, <1>10, <1>11, <2>1 DEF fam
    <2>2. CASE addr # ip
        <3>1. addr \in DOMAIN sessions /\ sessions'[addr].flows = mgr.cached[Family(addr)]
            BY <1>3, <1>11, <1>14, <2>2 DEF FlowsAgree
        <3>2. mgr.cached[Family(addr)] # None
            BY <1>3, <3>1, NotNone DEF FlowsAgree, SessionsShape, SessionShape
        <3> QED  BY <1>9, <1>13, <3>1, <3>2, FamilyType
    <2> QED  BY <2>1, <2>2
<1>15. ASSUME NEW g \in mgr'.served
       PROVE  receiver'[g] # None /\ mgr'.cached[g] # None /\ receiver'[g].flows = mgr'.cached[g]
    <2>1. g \in Families /\ receiver[g] # None /\ mgr.cached[g] # None /\ receiver[g].flows = mgr.cached[g]
        BY <1>3, <1>9 DEF FlowsAgree
    <2> QED  BY <1>1, <1>9, <1>13, <2>1
<1> QED  BY <1>1, <1>2, <1>7, <1>9, <1>11, <1>12, <1>14, <1>15 DEF FlowsAgree

LEMMA SpawnsTasks ==
    ASSUME FlowsInductive, MgrSpawns
    PROVE  /\ mgr.ip \in DOMAIN sessions /\ mgr.ip \notin DOMAIN engine
           /\ UNCHANGED <<sessions, pending, emitted, stage>> /\ mgr'.pc = "idle" /\ mgr.pc = "inserted"
           /\ DOMAIN engine' = DOMAIN engine \cup {mgr.ip} /\ EnginesShape'
           /\ engine'[mgr.ip] = NewEngine("manager")
           /\ \A ip \in DOMAIN engine : engine'[ip] = engine[ip]
           /\ ReceiversShape'
           /\ \A fam \in mgr.served : receiver'[fam] = receiver[fam]
           /\ \A fam \in Families : fam # Family(mgr.ip) => receiver'[fam] = receiver[fam]
           /\ Family(mgr.ip) \notin mgr.served =>
                receiver'[Family(mgr.ip)] = NewReceiver(mgr.cached[Family(mgr.ip)], "manager")
           /\ FlowsAgree' /\ Heard'
<1> DEFINE ip == mgr.ip
           fam == Family(ip)
           r == NewReceiver(mgr.cached[fam], "manager")
<1>1. /\ mgr.pc = "inserted" /\ UNCHANGED <<sessions, pending, emitted, stage>>
      /\ engine' = Inserted(engine, ip, NewEngine("manager"))
      /\ receiver' = IF fam \notin mgr.served THEN [receiver EXCEPT ![fam] = r] ELSE receiver
    BY DEF MgrSpawns, MgrUnchanged, mainVars
<1>2. /\ MgrShape /\ EnginesShape /\ ReceiversShape /\ SessionsShape /\ Heard /\ FlowsAgree
      /\ DOMAIN engine \subseteq DOMAIN sessions
      /\ ip \in DOMAIN sessions /\ ip \notin DOMAIN engine /\ fam \in Families
    BY <1>1, FamilyType DEF FlowsInductive, FlowsInv, Shapes
<1>3. mgr.served \in SUBSET Families /\ sessions[ip].flows = mgr.cached[fam] /\ mgr.cached[fam] \in 1..MaxFlows
    BY <1>2 DEF MgrShape, FlowsAgree, SessionsShape, SessionShape
<1>4. mgr'.pc = "idle" /\ UNCHANGED mgr.cached /\ mgr'.served = mgr.served \cup {fam}
    <2>1. MgrStep /\ ~MgrInserts /\ ~MgrTake /\ ~MgrCloses /\ ~MgrDeclines /\ ~MgrJoins
        BY <1>1 DEF MgrStep, MgrInserts, MgrTake, MgrCloses, MgrDeclines, MgrJoins
    <2> QED  BY <1>2, <2>1, MgrChanges
<1>5. NewEngine("manager") \in EngineRecord
    BY DEF NewEngine, EngineRecord, Owners
<1>6. r \in ReceiverRecord /\ r.flows = mgr.cached[fam] /\ r # None
    <2>1. r \in ReceiverRecord /\ r.flows = mgr.cached[fam]
        BY <1>3 DEF NewReceiver, ReceiverRecord, Owners
    <2> HIDE DEF r
    <2> QED  BY <2>1, NotNone
<1> HIDE DEF ip, fam, r
<1>7. /\ DOMAIN engine' = DOMAIN engine \cup {ip} /\ engine'[ip] = NewEngine("manager")
      /\ \A addr \in DOMAIN engine : engine'[addr] = engine[addr]
    BY <1>1, <1>2 DEF Inserted
<1>8. EnginesShape'
    BY <1>2, <1>5, <1>7 DEF EnginesShape
<1>9. /\ ReceiversShape' /\ \A g \in mgr.served : receiver'[g] = receiver[g]
      /\ \A g \in Families : g # fam => receiver'[g] = receiver[g]
      /\ fam \notin mgr.served => receiver'[fam] = r
    <2>1. CASE fam \in mgr.served  BY <1>1, <1>2, <2>1 DEF ReceiversShape
    <2>2. CASE fam \notin mgr.served
        <3>1. receiver' = [receiver EXCEPT ![fam] = r]  BY <1>1, <2>2
        <3> QED  BY <1>2, <1>3, <1>6, <2>2, <3>1 DEF ReceiversShape
    <2> QED  BY <2>1, <2>2
\* The families served before are heard as before; the new one by its receiver.
<1>10. receiver'[fam] # None /\ mgr.cached[fam] # None /\ receiver'[fam].flows = mgr.cached[fam]
    <2>1. CASE fam \in mgr.served  BY <1>2, <1>9, <2>1 DEF FlowsAgree
    <2>2. CASE fam \notin mgr.served  BY <1>3, <1>6, <1>9, <2>2, NotNone
    <2> QED  BY <2>1, <2>2
<1>11. FlowsAgree'
    <2>1. \A addr \in DOMAIN sessions' : sessions'[addr].flows = mgr'.cached[Family(addr)]
        BY <1>1, <1>2, <1>4 DEF FlowsAgree
    <2>2. ASSUME NEW g \in mgr'.served
          PROVE  receiver'[g] # None /\ mgr'.cached[g] # None /\ receiver'[g].flows = mgr'.cached[g]
        <3>1. CASE g \in mgr.served  BY <1>2, <1>4, <1>9, <3>1 DEF FlowsAgree
        <3>2. CASE g = fam  BY <1>4, <1>10, <3>2
        <3> QED  BY <1>4, <3>1, <3>2
    <2> QED  BY <2>1, <2>2 DEF FlowsAgree
<1>12. Heard'
    <2>1. ASSUME NEW addr \in DOMAIN engine'
          PROVE  receiver'[Family(addr)] # None /\ receiver'[Family(addr)].flows = sessions'[addr].flows
        <3>1. addr \in DOMAIN sessions /\ sessions'[addr].flows = mgr.cached[Family(addr)]
            BY <1>1, <1>2, <1>7 DEF FlowsAgree
        <3>2. CASE Family(addr) = fam  BY <1>10, <3>1, <3>2
        <3>3. CASE Family(addr) # fam
            <4>1. addr \in DOMAIN engine  BY <1>7, <3>3 DEF fam
            <4>2. receiver'[Family(addr)] = receiver[Family(addr)]  BY <1>9, <3>3, FamilyType
            <4> QED  BY <1>1, <1>2, <4>1, <4>2 DEF Heard
        <3> QED  BY <3>2, <3>3
    <2> QED  BY <2>1 DEF Heard
<1> QED  BY <1>1, <1>2, <1>4, <1>7, <1>8, <1>9, <1>11, <1>12 DEF ip, fam, r

\* A probe becomes pending for a target that has an engine.
LEMMA PendingFrame ==
    ASSUME PendingShape, EnginesShape, Next
    PROVE  pending' \subseteq (DOMAIN engine) \X Nat \X Int
<1> USE DEF lifecycleVars
<1>1. CASE UNCHANGED pending  BY <1>1 DEF PendingShape
<1>2. CASE LifecycleStep /\ UNCHANGED <<tuiVars, enrichVars>>
    <2>1. CASE MainStep  BY <1>1, <2>1, MainFrame
    <2>2. CASE Signal  BY <1>1, <2>2 DEF Signal
    <2>3. CASE MgrStep  BY <1>1, <2>3, MgrFrame
    <2>4. CASE \E ip \in DOMAIN engine : EngineStep(ip)
        <3>1. PICK ip \in DOMAIN engine : EngineStep(ip)  BY <2>4
        <3>2. CASE Round(ip)
            <4> DEFINE n == engine[ip].rounds + 1
            <4>1. n \in Nat  BY DEF EnginesShape, EngineRecord
            <4>2. pending' = pending \cup {<<ip, n, ttl>> : ttl \in 1..Len(profile.path[ip])}
                BY <3>2 DEF Round
            <4> HIDE DEF n
            <4> QED  BY <4>1, <4>2 DEF PendingShape
        <3> QED  BY <1>1, <3>1, <3>2, EngineFrame
    <2>5. CASE \E fam \in Families : ReceiverStep(fam)
        <3>1. PICK fam \in Families : ReceiverStep(fam)  BY <2>5
        <3>2. pending' \subseteq pending
            BY <3>1, ReceiverFrame DEF ReceiverFails, Answered, TimedOut, Flush
        <3> QED  BY <3>2 DEF PendingShape
    <2>6. CASE \E k \in DOMAIN worker : WorkerEnds(k)  BY <1>1, <2>6 DEF WorkerEnds
    <2> QED  BY <1>2, <2>1, <2>2, <2>3, <2>4, <2>5, <2>6 DEF LifecycleStep
<1>3. CASE TuiStep /\ UNCHANGED enrichVars  BY <1>1, <1>3, TuiFrame
<1>4. CASE EnrichStep /\ UNCHANGED tuiVars  BY <1>1, <1>4, EnrichFrame
<1>5. CASE RefreshKey  BY <1>1, <1>5 DEF RefreshKey
<1>6. CASE Ended  BY <1>1, <1>6 DEF Ended, vars
<1> QED  BY <1>2, <1>3, <1>4, <1>5, <1>6 DEF Next

LEMMA StartsFlowing == ProgramInit => FlowsInductive
<1> SUFFICES ASSUME ProgramInit PROVE FlowsInductive
    OBVIOUS
<1>1. Started  BY StartsWithNothing
<1>2. NothingYet  BY DEF ProgramInit, Init, EnrichInit, NothingYet
<1>3. DOMAIN sessions = {} /\ DOMAIN engine = {} /\ pending = {}
    BY <1>2 DEF NothingYet
<1>4. ReceiversShape  BY <1>2 DEF NothingYet, ReceiversShape
<1>5. MgrShape
    <2>1. mgr = [field \in MgrFields |-> mgr[field]]  BY <1>2 DEF NothingYet, MgrFields
    <2>2. mgr.cached = [fam \in Families |-> None] /\ mgr.served = {} /\ mgr.added = <<>> /\ mgr.spawned = <<>>
        BY <1>2 DEF NothingYet
    <2>3. mgr.cached \in [Families -> FlowsAre]  BY <2>2 DEF FlowsAre
    <2>4. mgr.added \in Seq(DOMAIN engine) /\ mgr.spawned \in Seq(Families)
        <3>1. \A S : <<>> \in Seq(S)  OBVIOUS
        <3> QED  BY <2>2, <3>1
    <2>5. mgr.served \in SUBSET Families  BY <2>2
    <2> QED  BY <2>1, <2>3, <2>4, <2>5 DEF MgrShape
<1>6. Shapes
    BY <1>3, <1>4, <1>5 DEF Shapes, SessionsShape, PendingShape, EnginesShape
<1>7. FlowsInv
    BY <1>2, <1>3 DEF FlowsInv, Heard, NothingYet
<1> QED  BY <1>1, <1>6, <1>7 DEF FlowsInductive

\* A step in which no target and no task comes to be.
LEMMA QuietFlows ==
    ASSUME FlowsInductive, SessionsFollow, EnginesMove, ReceiversMove, MgrRecord(mgr'),
           pending' \subseteq (DOMAIN engine) \X Nat \X Int,
           MgrKeeps, mgr.pc = "off" => mgr'.pc = "off",
           mgr'.pc = "inserted" => mgr.pc = "inserted" /\ mgr'.ip = mgr.ip
    PROVE  Shapes' /\ FlowsInv'
<1>1. /\ SessionsShape /\ EnginesShape /\ ReceiversShape /\ MgrShape /\ Heard
      /\ DOMAIN engine \subseteq DOMAIN sessions
      /\ mgr.pc # "off" => FlowsAgree
      /\ mgr.pc = "inserted" => mgr.ip \in DOMAIN sessions /\ mgr.ip \notin DOMAIN engine
    BY DEF FlowsInductive, FlowsInv, Shapes
<1>2. /\ DOMAIN sessions' = DOMAIN sessions /\ DOMAIN engine' = DOMAIN engine
      /\ \A ip \in DOMAIN sessions : SessionShape(sessions'[ip]) /\ sessions'[ip].flows = sessions[ip].flows
    BY DEF SessionsFollow, Follows, EnginesMove
<1>3. \A fam \in Families : receiver[fam] # None =>
        receiver'[fam] # None /\ receiver'[fam].flows = receiver[fam].flows
    BY DEF ReceiversMove, ReceiverMoves
<1>4. SessionsShape' /\ EnginesShape' /\ ReceiversShape' /\ PendingShape'
    BY <1>2 DEF SessionsShape, EnginesShape, ReceiversShape, PendingShape, EnginesMove, EngineMoves, ReceiversMove
<1>5. MgrShape'
    BY <1>1, <1>2 DEF MgrShape, MgrRecord, MgrKeeps
<1>6. Shapes'
    BY <1>1, <1>2, <1>4, <1>5 DEF Shapes
<1>7. Heard'
    BY <1>1, <1>2, <1>3, FamilyType DEF Heard
<1>8. ASSUME mgr'.pc # "off" PROVE FlowsAgree'
    <2>1. FlowsAgree /\ mgr.served \in SUBSET Families  BY <1>1, <1>8 DEF MgrShape
    <2> QED  BY <1>2, <1>3, <2>1 DEF FlowsAgree, MgrKeeps
<1> QED  BY <1>1, <1>2, <1>6, <1>7, <1>8 DEF FlowsInv

LEMMA FlowsKept ==
    ASSUME FlowsInductive, Next
    PROVE  FlowsInductive'
<1>1. /\ Started /\ SessionsShape /\ PendingShape /\ EnginesShape /\ ReceiversShape /\ MgrShape /\ Shapes
      /\ DOMAIN engine \subseteq DOMAIN sessions /\ Started' /\ MgrRecord(mgr)
    BY StartedKept DEF FlowsInductive, Shapes, MgrShape, MgrRecord
<1>2. pending' \subseteq (DOMAIN engine) \X Nat \X Int
    BY <1>1, PendingFrame
<1>3. CASE BootTracing
    <2>1. /\ pending' = {} /\ NothingYet
          /\ DOMAIN engine' = DOMAIN sessions'
          /\ \A ip \in DOMAIN engine' : engine'[ip] = NewEngine("main") /\ SessionShape(sessions'[ip])
          /\ ReceiversShape' /\ Heard'
        BY <1>1, <1>3, TracingStarts DEF ReceiversShape
    <2>2. SessionsShape' /\ PendingShape'  BY <2>1 DEF SessionsShape, PendingShape
    <2>3. NewEngine("main") \in EngineRecord  BY DEF NewEngine, EngineRecord, Owners
    <2>4. EnginesShape'  BY <2>1, <2>3 DEF EnginesShape
    <2>5. CASE mgr' = mgr
        <3>1. mgr.pc = "off" /\ mgr.added = <<>>  BY <2>1 DEF NothingYet
        <3>2. MgrShape'  BY <1>1, <2>5, <3>1 DEF MgrShape
        <3> QED  BY <1>1, <2>1, <2>2, <2>4, <2>5, <3>1, <3>2 DEF FlowsInductive, Shapes, FlowsInv
    <2>6. CASE mgr' # mgr
        <3>1. /\ MgrRecord(mgr') /\ mgr'.pc = "idle" /\ mgr'.added = <<>> /\ mgr'.spawned = <<>>
              /\ mgr'.cached \in [Families -> FlowsAre] /\ mgr'.served \in SUBSET Families
              /\ FlowsAgree'
            BY <1>1, <1>3, <2>6, TracingStarts
        <3>2. MgrShape'  BY <3>1 DEF MgrShape, MgrRecord
        <3> QED  BY <1>1, <2>1, <2>2, <2>4, <3>1, <3>2 DEF FlowsInductive, Shapes, FlowsInv
    <2> QED  BY <2>5, <2>6
<1>4. CASE BootReplay
    <2>1. /\ SessionsShape' /\ DOMAIN sessions \subseteq DOMAIN sessions' /\ UNCHANGED <<engine, receiver, mgr, pending>>
        BY <1>1, <1>4, ReplayShows
    <2>2. NothingYet  BY <1>1, <1>4 DEF BootReplay, Started
    <2>3. DOMAIN engine = {} /\ mgr.pc = "off"  BY <2>2 DEF NothingYet
    <2>4. Shapes'
        BY <1>1, <2>1 DEF Shapes, PendingShape, EnginesShape, ReceiversShape, MgrShape
    <2>5. FlowsInv'  BY <2>1, <2>3 DEF FlowsInv, Heard
    <2> QED  BY <1>1, <2>4, <2>5 DEF FlowsInductive
<1>5. CASE MgrInserts
    <2>1. /\ mgr'.ip \notin DOMAIN sessions /\ DOMAIN sessions' = DOMAIN sessions \cup {mgr'.ip}
          /\ SessionsShape' /\ \A ip \in DOMAIN sessions : sessions'[ip] = sessions[ip]
          /\ mgr'.cached \in [Families -> FlowsAre] /\ FlowsAgree'
          /\ UNCHANGED <<engine, receiver, pending>>
        BY <1>5, InsertsFlows
    <2>2. MgrStep /\ ~MgrSpawns /\ ~MgrTake /\ ~MgrCloses /\ ~MgrDeclines /\ ~MgrJoins
        <3>1. mgr.pc = "resolving" /\ sessions' # sessions  BY <1>5, <2>1 DEF MgrInserts
        <3> QED  BY <1>5, <3>1 DEF MgrStep, MgrSpawns, MgrTake, MgrCloses, MgrDeclines, MgrJoins
    <2>3. MgrRecord(mgr') /\ mgr'.pc = "inserted" /\ UNCHANGED <<mgr.served, mgr.added, mgr.spawned>>
        BY <1>1, <2>2, MgrChanges
    <2>4. MgrShape'  BY <1>1, <2>1, <2>3 DEF MgrShape, MgrRecord
    <2>5. Shapes'
        BY <1>1, <2>1, <2>4 DEF Shapes, PendingShape, EnginesShape, ReceiversShape
    <2>6. Heard'
        BY <1>1, <2>1 DEF Heard, FlowsInductive, FlowsInv
    <2> QED  BY <1>1, <2>1, <2>5, <2>6 DEF FlowsInductive, FlowsInv
<1>6. CASE MgrSpawns
    <2>1. /\ mgr.ip \in DOMAIN sessions /\ UNCHANGED <<sessions, pending>> /\ mgr'.pc = "idle"
          /\ DOMAIN engine' = DOMAIN engine \cup {mgr.ip} /\ EnginesShape' /\ ReceiversShape'
          /\ FlowsAgree' /\ Heard' /\ mgr.pc = "inserted"
        BY <1>6, SpawnsTasks
    <2>2. MgrStep /\ ~MgrInserts /\ ~MgrTake /\ ~MgrCloses /\ ~MgrDeclines /\ ~MgrJoins
        BY <1>6, <2>1 DEF MgrStep, MgrInserts, MgrTake, MgrCloses, MgrDeclines, MgrJoins
    <2>3. /\ MgrRecord(mgr') /\ UNCHANGED mgr.cached
          /\ mgr'.served = mgr.served \cup {Family(mgr.ip)} /\ mgr'.added = Append(mgr.added, mgr.ip)
          /\ mgr'.spawned = IF Family(mgr.ip) \notin mgr.served THEN Append(mgr.spawned, Family(mgr.ip))
                            ELSE mgr.spawned
        BY <1>1, <2>2, MgrChanges
    <2>4. mgr'.added \in Seq(DOMAIN engine')
        <3>1. mgr.added \in Seq(DOMAIN engine')
            <4>1. mgr.added \in Seq(DOMAIN engine) /\ DOMAIN engine \subseteq DOMAIN engine'
                BY <1>1, <2>1 DEF MgrShape
            <4> QED  BY <4>1
        <3>2. mgr.ip \in DOMAIN engine'  BY <2>1
        <3> QED  BY <2>3, <3>1, <3>2
    <2>5. mgr'.spawned \in Seq(Families) /\ mgr'.served \in SUBSET Families
        BY <1>1, <2>3, FamilyType DEF MgrShape
    <2>6. MgrShape'
        BY <1>1, <2>3, <2>4, <2>5 DEF MgrShape, MgrRecord
    <2>7. SessionsShape' /\ PendingShape' /\ DOMAIN engine' \subseteq DOMAIN sessions'
        BY <1>1, <2>1 DEF SessionsShape, PendingShape
    <2> QED  BY <1>1, <2>1, <2>6, <2>7 DEF FlowsInductive, Shapes, FlowsInv
<1>7. CASE ~BootTracing /\ ~BootReplay /\ ~MgrInserts /\ ~MgrSpawns
    <2>1. SessionsFollow
        BY <1>1, <1>7, SessionsFrame
    <2>2. EnginesMove /\ ReceiversMove
        BY <1>1, <1>7, TasksFrame
    <2>3. /\ MgrRecord(mgr') /\ MgrKeeps
          /\ mgr.pc = "off" => mgr'.pc = "off"
          /\ mgr'.pc = "inserted" => mgr.pc = "inserted" /\ mgr'.ip = mgr.ip
        <3>1. CASE UNCHANGED mgr  BY <1>1, <3>1 DEF MgrKeeps, MgrRecord
        <3>2. CASE MgrStep
            <4>1. mgr.pc # "off"  BY <3>2, MgrFrame
            <4> QED  BY <1>1, <1>7, <3>2, <4>1, MgrChanges
        <3> QED  BY <1>7, <3>1, <3>2, MgrSteps
    <2>4. Shapes' /\ FlowsInv'
        BY <1>2, <2>1, <2>2, <2>3, QuietFlows
    <2> QED  BY <1>1, <2>4 DEF FlowsInductive
<1> QED  BY <1>3, <1>4, <1>5, <1>6, <1>7

LEMMA FlowsStay ==
    ASSUME FlowsInductive, [Next]_vars
    PROVE  FlowsInductive'
<1>1. CASE Next  BY <1>1, FlowsKept
<1>2. CASE UNCHANGED vars
    BY <1>2 DEF vars, lifecycleVars, mainVars, taskVars, mgrVars, enrichVars, FlowsInductive, Started, NothingYet,
        Refused, Args, StartTargets, Shapes, SessionsShape, PendingShape, EnginesShape, ReceiversShape,
        MgrShape, FlowsInv, Heard, FlowsAgree
<1> QED  BY <1>1, <1>2

\* An engine always has a receiver of its family, which tells as many flows
\* apart as the session counts, also for targets added while tracing
\* (config_for_target_effective_flows, spawn_receivers, run_target_manager).
THEOREM EnginesAreHeard == Spec => []Heard
<1>1. FlowsInductive => Heard
    BY DEF FlowsInductive, FlowsInv
<1> QED  BY <1>1, StartsFlowing, FlowsStay, PTL DEF Spec
-----------------------------------------------------------------------------
(* How a run ends.                                                          *)

\* A program that has exited takes no step.
LEMMA ExitIsFinal ==
    ASSUME Next, ~Running
    PROVE  UNCHANGED vars
<1>1. CASE LifecycleStep /\ UNCHANGED <<tuiVars, enrichVars>>
    <2>1. CASE MainStep  BY <2>1, MainFrame
    <2>2. CASE Signal  BY <2>2 DEF Signal
    <2>3. CASE MgrStep  BY <2>3, MgrFrame
    <2>4. CASE \E ip \in DOMAIN engine : EngineStep(ip)  BY <2>4, EngineFrame
    <2>5. CASE \E fam \in Families : ReceiverStep(fam)  BY <2>5, ReceiverFrame DEF ReceiverRuns
    <2>6. CASE \E k \in DOMAIN worker : WorkerEnds(k)  BY <2>6 DEF WorkerEnds
    <2> QED  BY <1>1, <2>1, <2>2, <2>3, <2>4, <2>5, <2>6 DEF LifecycleStep
<1>2. CASE TuiStep /\ UNCHANGED enrichVars  BY <1>2, TuiFrame DEF Shows
<1>3. CASE EnrichStep /\ UNCHANGED tuiVars  BY <1>3, EnrichFrame
<1>4. CASE RefreshKey  BY <1>4 DEF RefreshKey, Pressed, Shows
<1>5. CASE Ended  BY <1>5 DEF Ended
<1> QED  BY <1>1, <1>2, <1>3, <1>4, <1>5 DEF Next

OwnEngines == [i \in 1..Len(StartTargets) |-> engine[StartTargets[i]]]

\* The stages of the main task, and the ways it leaves.
StageSteps ==
    \/ UNCHANGED stage
    \/ stage \in {"tui", "loop"} /\ stage' = "engines"
    \/ stage = "engines" /\ AllDone(OwnEngines) /\ stage' \in {"settle", "receivers"}
    \/ stage = "settle" /\ stage' = "receivers"
    \/ /\ stage = "receivers" /\ AllDone(OwnReceivers)
       /\ stage' = IF RunMode = "interactive" THEN "manager" ELSE "workers"
    \/ stage = "manager" /\ mgr.pc = "done" /\ stage' = "workers"
ExitSteps ==
    \/ exit' # "ok"
    \/ RunMode = "replay"
    \/ Finish

LEMMA StageFrame ==
    ASSUME Next, stage # "boot", Running
    PROVE  StageSteps /\ ExitSteps
<1> USE DEF mainVars, GoTo, Leave, StageSteps, ExitSteps, Running
<1>1. CASE UNCHANGED <<stage, exit>>
    BY <1>1, NoneAssumption DEF Exits
<1>2. CASE LifecycleStep /\ UNCHANGED <<tuiVars, enrichVars>>
    <2>1. CASE MainStep
        <3>1. CASE AwaitEngines  BY <3>1, NoneAssumption DEF AwaitEngines, Await, OwnEngines, Exits
        <3>2. CASE AwaitReceivers  BY <3>2, NoneAssumption DEF AwaitReceivers, Await, Exits
        <3>3. CASE AwaitManager
            <4>1. AllDone(<<mgr>>) => mgr.pc = "done"
                <5>1. Len(<<mgr>>) = 1 /\ <<mgr>>[1] = mgr /\ 1 \in 1..1  OBVIOUS
                <5> QED  BY <5>1 DEF AllDone
            <4> QED  BY <3>3, <4>1, NoneAssumption DEF AwaitManager, Await, Exits
        <3>4. CASE Settle  BY <3>4, NoneAssumption DEF Settle, Exits
        <3>5. CASE Emit  BY <1>1, <3>5 DEF Emit
        <3>6. CASE LoopEnds  BY <3>6, NoneAssumption DEF LoopEnds, Exits
        <3>7. CASE Finish  BY <3>7 DEF Finish
        <3> QED  BY <2>1, <3>1, <3>2, <3>3, <3>4, <3>5, <3>6, <3>7 DEF MainStep, BootFails, BootPrint, BootReplay, BootTracing
    <2>2. CASE Signal  BY <2>2, NoneAssumption DEF Signal, Exits
    <2>3. CASE MgrStep  BY <1>1, <2>3, MgrFrame
    <2>4. CASE \E ip \in DOMAIN engine : EngineStep(ip)  BY <1>1, <2>4, EngineFrame
    <2>5. CASE \E fam \in Families : ReceiverStep(fam)  BY <1>1, <2>5, ReceiverFrame
    <2>6. CASE \E k \in DOMAIN worker : WorkerEnds(k)  BY <1>1, <2>6 DEF WorkerEnds
    <2> QED  BY <1>2, <2>1, <2>2, <2>3, <2>4, <2>5, <2>6 DEF LifecycleStep
<1>3. CASE TuiStep /\ UNCHANGED enrichVars
    BY <1>1, <1>3, TuiFrame, NoneAssumption DEF Shows, Exits
<1>4. CASE EnrichStep /\ UNCHANGED tuiVars  BY <1>1, <1>4, EnrichFrame
<1>5. CASE RefreshKey  BY <1>1, <1>5 DEF RefreshKey, lifecycleVars
<1>6. CASE Ended  BY <1>6 DEF Ended
<1> QED  BY <1>2, <1>3, <1>4, <1>5, <1>6 DEF Next

LEMMA ModesTracing ==
    /\ ~ReplayOrDiff(Args) => RunMode \in {"batch", "stream", "interactive"}
    /\ RunMode = "replay" => ReplayOrDiff(Args)
BY DEF RunMode, Mode, ReplayOrDiff

OwnEnginesDone == \A i \in 1..Len(StartTargets) : engine[StartTargets[i]].pc = "done"
OwnReceiversDone ==
    \A fam \in Families : receiver[fam] # None /\ receiver[fam].owner = "main" => receiver[fam].pc = "done"
MgrTasksDone ==
    /\ \A i \in 1..Len(mgr.added) : engine[mgr.added[i]].pc = "done"
    /\ \A i \in 1..Len(mgr.spawned) : receiver[mgr.spawned[i]] # None => receiver[mgr.spawned[i]].pc = "done"

\* Every task is one the main task waits for or one the manager waits for; each
\* has ended by the time its owner goes on.
TasksOwned ==
    /\ StartTargets \in Seq(DOMAIN engine)
    /\ \A ip \in DOMAIN engine :
        \/ \E i \in 1..Len(StartTargets) : StartTargets[i] = ip
        \/ \E i \in 1..Len(mgr.added) : mgr.added[i] = ip
    /\ \A fam \in Families : receiver[fam] # None =>
        receiver[fam].owner = "main" \/ \E i \in 1..Len(mgr.spawned) : mgr.spawned[i] = fam
    /\ mgr.pc = "off" => mgr.added = <<>> /\ mgr.spawned = <<>>
    /\ RunMode # "interactive" => mgr.pc = "off" /\ stage # "tui"

TasksJoined ==
    /\ stage \in {"settle", "receivers", "manager", "workers"} => OwnEnginesDone
    /\ stage \in {"manager", "workers"} => OwnReceiversDone
    /\ stage = "workers" => mgr.pc \in {"off", "done"}
    /\ mgr.pc = "done" => MgrTasksDone

LEMMA OwnReceiversAreDone ==
    ASSUME AllDone(OwnReceivers)
    PROVE  OwnReceiversDone
<1>1. OwnReceiver("v4").pc = "done" /\ OwnReceiver("v6").pc = "done"
    <2> DEFINE a == OwnReceiver("v4")
               b == OwnReceiver("v6")
    <2>1. OwnReceivers = <<a, b>>  BY DEF OwnReceivers
    <2> HIDE DEF a, b
    <2>2. Len(<<a, b>>) = 2 /\ <<a, b>>[1] = a /\ <<a, b>>[2] = b /\ 1 \in 1..2 /\ 2 \in 1..2  OBVIOUS
    <2>3. a.pc = "done" /\ b.pc = "done"  BY <2>1, <2>2 DEF AllDone
    <2> QED  BY <2>3 DEF a, b
<1> QED  BY <1>1 DEF OwnReceiver, OwnReceiversDone, Families

TasksInv == Tracing => TasksOwned /\ TasksJoined

\* An engine that is done stays so when others come to be.
LEMMA EnginesStayDone ==
    ASSUME FlowsInductive, Next, stage # "boot"
    PROVE  /\ DOMAIN engine \subseteq DOMAIN engine'
           /\ \A ip \in DOMAIN engine : engine[ip].pc = "done" => engine'[ip].pc = "done"
<1>1. CASE MgrSpawns
    <2>1. /\ DOMAIN engine' = DOMAIN engine \cup {mgr.ip}
          /\ \A ip \in DOMAIN engine : engine'[ip] = engine[ip]
        BY <1>1, SpawnsTasks
    <2> QED  BY <2>1
<1>2. CASE EnginesMove  BY <1>2 DEF EnginesMove, EngineMoves
<1>3. EnginesShape /\ ReceiversShape /\ ~BootTracing
    BY DEF FlowsInductive, Shapes, BootTracing
<1> QED  BY <1>1, <1>2, <1>3, TasksFrame

LEMMA TasksStart ==
    ASSUME FlowsInductive, Next, stage = "boot", Tracing'
    PROVE  /\ BootTracing /\ UNCHANGED enrichVars /\ TasksOwned' /\ TasksJoined'
<1>1. profile' = profile /\ stage' # "boot" /\ ~ReplayOrDiff(Args)
    BY OnlyBootSteps DEF FlowsInductive, Tracing, Args
<1>2. BootTracing /\ UNCHANGED enrichVars
    <2>1. BootStep /\ UNCHANGED enrichVars  BY <1>1, OnlyBootSteps DEF FlowsInductive
    <2>2. ~BootFails /\ ~BootPrint  BY <1>1 DEF BootFails, BootPrint, Leave
    <2>3. ~BootReplay  BY <1>1, ModesTracing DEF BootReplay
    <2> QED  BY <2>1, <2>2, <2>3 DEF BootStep
<1>3. StartTargets' = StartTargets /\ RunMode' = RunMode
    BY <1>1 DEF StartTargets, RunMode, Args
<1>4. stage' = FirstStage /\ FirstStage \in {"engines", "loop", "tui"}
    BY <1>2 DEF BootTracing, GoTo, FirstStage
<1>5. /\ NothingYet
      /\ DOMAIN engine' = {StartTargets[i] : i \in 1..Len(StartTargets)}
      /\ StartTargets \in Seq(DOMAIN engine')
      /\ \A fam \in Families : receiver'[fam] # None => receiver'[fam].owner = "main"
      /\ \/ RunMode # "interactive" /\ mgr' = mgr
         \/ RunMode = "interactive" /\ mgr'.pc = "idle"
    BY <1>2, TracingStarts DEF FlowsInductive
<1>6. mgr.pc = "off" /\ mgr.added = <<>> /\ mgr.spawned = <<>>
    BY <1>5 DEF NothingYet
<1>7. RunMode # "interactive" => FirstStage # "tui"
    BY <1>1, ModesTracing DEF FirstStage
<1>8. TasksOwned'
    BY <1>3, <1>4, <1>5, <1>6, <1>7 DEF TasksOwned
<1>9. TasksJoined'
    <2>1. stage' \notin {"settle", "receivers", "manager", "workers"}  BY <1>4
    <2>2. mgr'.pc # "done"  BY <1>5, <1>6
    <2> QED  BY <2>1, <2>2 DEF TasksJoined
<1> QED  BY <1>2, <1>8, <1>9

LEMMA TasksStayOwned ==
    ASSUME FlowsInductive, TasksInv, Next, Tracing, Running
    PROVE  TasksOwned'
<1>1. /\ TasksOwned /\ stage # "boot" /\ profile' = profile /\ EnginesShape /\ ReceiversShape /\ MgrShape
      /\ ~BootTracing
    BY StagesMove DEF FlowsInductive, Shapes, TasksInv, Tracing, BootTracing
<1>2. StartTargets' = StartTargets /\ RunMode' = RunMode
    BY <1>1 DEF StartTargets, RunMode, Args
<1>3. DOMAIN engine \subseteq DOMAIN engine'  BY <1>1, EnginesStayDone
<1>4. StartTargets \in Seq(DOMAIN engine')
    <2>1. StartTargets \in Seq(DOMAIN engine)  BY <1>1 DEF TasksOwned
    <2> QED  BY <1>3, <2>1
<1>5. RunMode # "interactive" => mgr'.pc = "off" /\ stage' # "tui"
    <2> SUFFICES ASSUME RunMode # "interactive" PROVE mgr'.pc = "off" /\ stage' # "tui"
        OBVIOUS
    <2>1. mgr.pc = "off" /\ stage # "tui"  BY <1>1 DEF TasksOwned
    <2>2. ~MgrStep  BY <2>1, MgrFrame
    <2>3. mgr' = mgr  BY <1>1, <2>2, MgrSteps
    <2>4. stage' # "tui"  BY <1>1, <2>1, StageFrame DEF StageSteps
    <2> QED  BY <2>1, <2>3, <2>4
<1>6. CASE MgrSpawns
    <2>1. /\ mgr.ip \notin DOMAIN engine /\ mgr'.pc = "idle" /\ mgr.pc = "inserted"
          /\ DOMAIN engine' = DOMAIN engine \cup {mgr.ip}
          /\ \A fam \in mgr.served : receiver'[fam] = receiver[fam]
          /\ \A fam \in Families : fam # Family(mgr.ip) => receiver'[fam] = receiver[fam]
        BY <1>6, SpawnsTasks
    <2>2. MgrStep /\ ~MgrInserts /\ ~MgrTake /\ ~MgrCloses /\ ~MgrDeclines /\ ~MgrJoins
        BY <1>6, <2>1 DEF MgrStep, MgrInserts, MgrTake, MgrCloses, MgrDeclines, MgrJoins
    <2>3. /\ mgr'.added = Append(mgr.added, mgr.ip)
          /\ mgr'.spawned = IF Family(mgr.ip) \notin mgr.served THEN Append(mgr.spawned, Family(mgr.ip))
                            ELSE mgr.spawned
        BY <1>1, <2>2, MgrChanges
    <2>4. mgr.added \in Seq(DOMAIN engine) /\ mgr.spawned \in Seq(Families)  BY <1>1 DEF MgrShape
    <2>5. /\ \A i \in 1..Len(mgr.added) : i \in 1..Len(mgr'.added) /\ mgr'.added[i] = mgr.added[i]
          /\ \E i \in 1..Len(mgr'.added) : mgr'.added[i] = mgr.ip
        <3>1. mgr.ip \in DOMAIN engine \cup {mgr.ip} /\ mgr.added \in Seq(DOMAIN engine \cup {mgr.ip})
            BY <2>4
        <3>2. /\ Len(mgr'.added) = Len(mgr.added) + 1 /\ mgr'.added[Len(mgr.added) + 1] = mgr.ip
              /\ \A i \in 1..Len(mgr.added) : mgr'.added[i] = mgr.added[i]
            BY <2>3, <3>1, AppendProperties
        <3>3. Len(mgr.added) \in Nat  BY <2>4
        <3> QED  BY <3>2, <3>3
    <2>6. /\ \A i \in 1..Len(mgr.spawned) : i \in 1..Len(mgr'.spawned) /\ mgr'.spawned[i] = mgr.spawned[i]
          /\ Family(mgr.ip) \notin mgr.served => \E i \in 1..Len(mgr'.spawned) : mgr'.spawned[i] = Family(mgr.ip)
        <3>1. CASE Family(mgr.ip) \in mgr.served  BY <2>3, <3>1
        <3>2. CASE Family(mgr.ip) \notin mgr.served
            <4>1. /\ Len(mgr'.spawned) = Len(mgr.spawned) + 1 /\ mgr'.spawned[Len(mgr.spawned) + 1] = Family(mgr.ip)
                  /\ \A i \in 1..Len(mgr.spawned) : mgr'.spawned[i] = mgr.spawned[i]
                BY <2>3, <2>4, <3>2, FamilyType, AppendProperties
            <4>2. Len(mgr.spawned) \in Nat  BY <2>4
            <4> QED  BY <4>1, <4>2
        <3> QED  BY <3>1, <3>2
    <2>7. ASSUME NEW ip \in DOMAIN engine'
          PROVE  \/ \E i \in 1..Len(StartTargets) : StartTargets[i] = ip
                 \/ \E i \in 1..Len(mgr'.added) : mgr'.added[i] = ip
        BY <1>1, <2>1, <2>5 DEF TasksOwned
    <2>8. ASSUME NEW fam \in Families, receiver'[fam] # None
          PROVE  receiver'[fam].owner = "main" \/ \E i \in 1..Len(mgr'.spawned) : mgr'.spawned[i] = fam
        <3>1. CASE fam = Family(mgr.ip) /\ fam \notin mgr.served  BY <2>6, <3>1
        <3>2. CASE ~(fam = Family(mgr.ip) /\ fam \notin mgr.served)
            <4>1. receiver'[fam] = receiver[fam]  BY <2>1, <3>2
            <4> QED  BY <1>1, <2>6, <2>8, <4>1 DEF TasksOwned
        <3> QED  BY <3>1, <3>2
    <2> QED  BY <1>2, <1>4, <1>5, <2>1, <2>7, <2>8 DEF TasksOwned
<1>7. CASE ~MgrSpawns
    <2>1. EnginesMove /\ ReceiversMove  BY <1>1, <1>7, TasksFrame
    <2>2. UNCHANGED <<mgr.added, mgr.spawned>> /\ (mgr'.pc = "off" => mgr.pc = "off")
        <3>1. CASE UNCHANGED mgr  BY <3>1
        <3>2. CASE MgrStep
            <4>1. mgr'.pc # "off" /\ UNCHANGED <<mgr.added, mgr.spawned>>
                BY <1>1, <1>7, <3>2, MgrChanges DEF MgrKeeps
            <4> QED  BY <4>1
        <3> QED  BY <1>1, <3>1, <3>2, MgrSteps
    <2>3. \A fam \in Families : receiver'[fam] # None =>
            receiver[fam] # None /\ receiver'[fam].owner = receiver[fam].owner
        BY <2>1 DEF ReceiversMove, ReceiverMoves
    <2>4. DOMAIN engine' = DOMAIN engine  BY <2>1 DEF EnginesMove
    <2>5. ASSUME NEW ip \in DOMAIN engine'
          PROVE  \/ \E i \in 1..Len(StartTargets) : StartTargets[i] = ip
                 \/ \E i \in 1..Len(mgr'.added) : mgr'.added[i] = ip
        BY <1>1, <2>2, <2>4 DEF TasksOwned
    <2>6. ASSUME NEW fam \in Families, receiver'[fam] # None
          PROVE  receiver'[fam].owner = "main" \/ \E i \in 1..Len(mgr'.spawned) : mgr'.spawned[i] = fam
        BY <1>1, <2>2, <2>3, <2>6 DEF TasksOwned
    <2>7. StartTargets' \in Seq(DOMAIN engine')  BY <1>1, <1>2, <2>4 DEF TasksOwned
    <2>8. mgr'.pc = "off" => mgr'.added = <<>> /\ mgr'.spawned = <<>>  BY <1>1, <2>2 DEF TasksOwned
    <2> QED  BY <1>2, <1>4, <1>5, <2>5, <2>6, <2>7, <2>8 DEF TasksOwned
<1> QED  BY <1>6, <1>7

LEMMA TasksStayJoined ==
    ASSUME FlowsInductive, TasksInv, Next, Tracing, Running
    PROVE  TasksJoined'
<1>1. /\ TasksOwned /\ TasksJoined /\ stage # "boot" /\ profile' = profile
      /\ EnginesShape /\ ReceiversShape /\ MgrShape /\ ~BootTracing
    BY StagesMove DEF FlowsInductive, Shapes, TasksInv, Tracing, BootTracing
<1>2. StartTargets' = StartTargets /\ RunMode' = RunMode
    BY <1>1 DEF StartTargets, RunMode, Args
<1>3. StageSteps  BY <1>1, StageFrame
<1>4. OwnEnginesDone => OwnEnginesDone'
    <2>1. StartTargets \in Seq(DOMAIN engine)  BY <1>1 DEF TasksOwned
    <2>2. \A i \in 1..Len(StartTargets) : StartTargets[i] \in DOMAIN engine  BY <2>1
    <2> QED  BY <1>1, <1>2, <2>2, EnginesStayDone DEF OwnEnginesDone
<1>5. AllDone(OwnEngines) => OwnEnginesDone
    <2>1. StartTargets \in Seq(DOMAIN engine)  BY <1>1 DEF TasksOwned
    <2>2. Len(StartTargets) \in Nat  BY <2>1
    <2>3. Len(OwnEngines) = Len(StartTargets)  BY <2>2 DEF OwnEngines
    <2> QED  BY <2>3 DEF AllDone, OwnEngines, OwnEnginesDone
<1>6. OwnReceiversDone => OwnReceiversDone'
    <2>1. CASE MgrSpawns
        <3>1. /\ \A fam \in mgr.served : receiver'[fam] = receiver[fam]
              /\ \A fam \in Families : fam # Family(mgr.ip) => receiver'[fam] = receiver[fam]
              /\ Family(mgr.ip) \notin mgr.served =>
                    receiver'[Family(mgr.ip)] = NewReceiver(mgr.cached[Family(mgr.ip)], "manager")
            BY <2>1, SpawnsTasks
        <3>2. \A flows : NewReceiver(flows, "manager").owner # "main"  BY DEF NewReceiver
        <3> QED  BY <3>1, <3>2 DEF OwnReceiversDone
    <2>2. CASE ReceiversMove  BY <2>2 DEF ReceiversMove, ReceiverMoves, OwnReceiversDone
    <2> QED  BY <1>1, <2>1, <2>2, TasksFrame
\* The manager is done only when it has joined its tasks.
<1>7. ASSUME mgr'.pc = "done" PROVE MgrTasksDone'
    <2>1. ~MgrSpawns  BY <1>7, SpawnsTasks
    <2>2. EnginesMove /\ ReceiversMove  BY <1>1, <2>1, TasksFrame
    <2>3. UNCHANGED <<mgr.added, mgr.spawned>> /\ MgrTasksDone
        <3>1. CASE UNCHANGED mgr  BY <1>1, <1>7, <3>1 DEF TasksJoined
        <3>2. CASE MgrStep
            <4>1. UNCHANGED <<mgr.added, mgr.spawned>> /\ (MgrTake \/ MgrCloses \/ MgrDeclines \/ MgrJoins)
                BY <1>1, <1>7, <2>1, <3>2, MgrChanges DEF MgrKeeps
            <4>2. MgrRecord(mgr)  BY <1>1 DEF MgrShape, MgrRecord
            <4>3. MgrJoins
                <5>1. MgrTake => mgr'.pc = "resolving"  BY <4>2 DEF MgrTake, MgrRecord, MgrFields
                <5>2. MgrCloses => mgr'.pc = "joining"  BY <4>2 DEF MgrCloses, MgrRecord, MgrFields
                <5>3. MgrDeclines => mgr'.pc = "idle"
                    <6>1. MgrDeclines => \E ip : mgr' = [mgr EXCEPT !.pc = "idle", !.ip = ip]  BY DEF MgrDeclines
                    <6> QED  BY <4>2, <6>1 DEF MgrRecord, MgrFields
                <5> QED  BY <1>7, <4>1, <5>1, <5>2, <5>3
            <4> DEFINE engines == [i \in 1..Len(mgr.added) |-> engine[mgr.added[i]]]
                       receivers == [i \in 1..Len(mgr.spawned) |-> receiver[mgr.spawned[i]]]
            <4>4. AllDone(engines) /\ AllDone(receivers)
                <5>1. mgr' # [mgr EXCEPT !.pc = "failed"]  BY <1>7, <4>2 DEF MgrRecord, MgrFields
                <5> QED  BY <4>3, <5>1 DEF MgrJoins
            <4>5. Len(engines) = Len(mgr.added) /\ Len(receivers) = Len(mgr.spawned)
                <5>1. Len(mgr.added) \in Nat /\ Len(mgr.spawned) \in Nat  BY <1>1 DEF MgrShape
                <5> QED  BY <5>1
            <4>6. /\ \A i \in 1..Len(mgr.added) : engine[mgr.added[i]].pc = "done"
                  /\ \A i \in 1..Len(mgr.spawned) : receiver[mgr.spawned[i]].pc = "done"
                BY <4>4, <4>5 DEF AllDone
            <4> QED  BY <4>1, <4>6 DEF MgrTasksDone
        <3> QED  BY <1>1, <3>1, <3>2, MgrSteps
    <2>4. \A i \in 1..Len(mgr.added) : mgr.added[i] \in DOMAIN engine
        BY <1>1 DEF MgrShape
    <2>5. \A i \in 1..Len(mgr.spawned) : mgr.spawned[i] \in Families
        BY <1>1 DEF MgrShape
    <2>6. \A i \in 1..Len(mgr.added) : engine'[mgr.added[i]].pc = "done"
        BY <2>2, <2>3, <2>4 DEF MgrTasksDone, EnginesMove, EngineMoves
    <2>7. \A i \in 1..Len(mgr.spawned) : receiver'[mgr.spawned[i]] # None => receiver'[mgr.spawned[i]].pc = "done"
        BY <2>2, <2>3, <2>5 DEF MgrTasksDone, ReceiversMove, ReceiverMoves
    <2> QED  BY <2>3, <2>6, <2>7 DEF MgrTasksDone
<1>8. stage' \in {"settle", "receivers", "manager", "workers"} => OwnEnginesDone'
    BY <1>1, <1>3, <1>4, <1>5 DEF StageSteps, TasksJoined
<1>9. stage' \in {"manager", "workers"} => OwnReceiversDone'
    BY <1>1, <1>3, <1>6, OwnReceiversAreDone DEF StageSteps, TasksJoined
<1>10. stage' = "workers" => mgr'.pc \in {"off", "done"}
    <2> SUFFICES ASSUME stage' = "workers" PROVE mgr'.pc \in {"off", "done"}
        OBVIOUS
    <2>1. mgr.pc \in {"off", "done"}
        BY <1>1, <1>3 DEF StageSteps, TasksJoined, TasksOwned
    <2>2. ~MgrStep  BY <2>1, MgrFrame
    <2> QED  BY <1>1, <2>1, <2>2, MgrSteps
<1> QED  BY <1>7, <1>8, <1>9, <1>10 DEF TasksJoined

LEMMA TasksKept ==
    ASSUME FlowsInductive, TasksInv, Next
    PROVE  TasksInv'
<1> SUFFICES ASSUME Tracing' PROVE TasksOwned' /\ TasksJoined'
    BY DEF TasksInv
<1>1. CASE stage = "boot"  BY <1>1, TasksStart
<1>2. CASE stage # "boot" /\ Running
    <2>1. Tracing  BY <1>2, StagesMove DEF Tracing, Args
    <2> QED  BY <1>2, <2>1, TasksStayOwned, TasksStayJoined
<1>3. CASE ~Running
    <2>1. UNCHANGED vars  BY <1>3, ExitIsFinal
    <2> QED
        BY <2>1 DEF vars, lifecycleVars, mainVars, taskVars, mgrVars, TasksInv, Tracing, Args, StartTargets, RunMode,
            TasksOwned, TasksJoined, OwnEnginesDone, OwnReceiversDone, MgrTasksDone
<1> QED  BY <1>1, <1>2, <1>3

\* A lookup belongs to a worker that is busy with its batch.
LookupFields == {"kind", "addr", "pc", "result"}
LookupOf(l) ==
    l = [field \in LookupFields |-> l[field]] /\ l.kind \in DOMAIN worker /\ worker[l.kind] = "busy"
LookupsInv == \A l \in lookups : LookupOf(l)

\* A step of a lookup changes the lookup alone, and not what it is for.
LEMMA OneLookup ==
    ASSUME LookupsInv, NEW l \in lookups, LookupStep(l)
    PROVE  UNCHANGED worker /\ \E pc, result : Become(l, [l EXCEPT !.pc = pc, !.result = result])
<1> USE DEF lifecycleVars, taskVars
<1>1. ASSUME NEW pc PROVE [l EXCEPT !.pc = pc] = [l EXCEPT !.pc = pc, !.result = l.result]
    <2>1. l = [field \in LookupFields |-> l[field]]  BY DEF LookupsInv, LookupOf
    <2> QED  BY <2>1 DEF LookupFields
<1>2. (\E pc : Become(l, [l EXCEPT !.pc = pc])) => \E pc, result : Become(l, [l EXCEPT !.pc = pc, !.result = result])
    BY <1>1
<1>3. CASE Check(l)
    <2> DEFINE known == Live(Entries(l.kind, l.addr))
    <2>1. \/ Become(l, [l EXCEPT !.pc = "done", !.result = known[1].result])
          \/ Become(l, [l EXCEPT !.pc = IF l.kind = "ix" THEN "load" ELSE "ask"])
        BY <1>3, Zenon DEF Check
    <2>2. UNCHANGED worker  BY <1>3 DEF Check
    <2> HIDE DEF known
    <2> QED  BY <1>2, <2>1, <2>2
<1>4. CASE Ask(l)  BY <1>2, <1>4 DEF Ask
<1>5. CASE Match(l)  BY <1>5 DEF Match
<1>6. CASE Keep(l)  BY <1>2, <1>6 DEF Keep
<1>7. CASE Load(l)  BY <1>2, <1>7 DEF Load
<1>8. CASE Enter(l)  BY <1>2, <1>8 DEF Enter
<1>9. CASE LoadData(l)  BY <1>2, <1>9 DEF LoadData
<1> QED  BY <1>3, <1>4, <1>5, <1>6, <1>7, <1>8, <1>9 DEF LookupStep

LEMMA LookupsKept ==
    ASSUME Started, LookupsInv, Next
    PROVE  LookupsInv'
<1> USE DEF taskVars, lifecycleVars, enrichVars
<1>1. CASE UNCHANGED <<worker, lookups>>
    BY <1>1 DEF LookupsInv, LookupOf
<1>2. CASE LifecycleStep /\ UNCHANGED <<tuiVars, enrichVars>>
    <2>1. CASE BootTracing
        <3>1. lookups = {}  BY <2>1 DEF BootTracing, Started, NothingYet
        <3> QED  BY <1>2, <3>1 DEF LookupsInv
    <2>2. CASE MainStep /\ ~BootTracing  BY <1>1, <1>2, <2>2, MainFrame
    <2>3. CASE Signal  BY <1>1, <1>2, <2>3 DEF Signal
    <2>4. CASE MgrStep  BY <1>1, <1>2, <2>4, MgrFrame
    <2>5. CASE \E ip \in DOMAIN engine : EngineStep(ip)  BY <1>1, <1>2, <2>5, EngineFrame
    <2>6. CASE \E fam \in Families : ReceiverStep(fam)  BY <1>1, <1>2, <2>6, ReceiverFrame
    <2>7. CASE \E k \in DOMAIN worker : WorkerEnds(k)
        <3>1. PICK k \in DOMAIN worker : worker[k] = "idle" /\ worker' = [worker EXCEPT ![k] = "ended"]
            BY <2>7 DEF WorkerEnds
        <3> QED  BY <1>2, <3>1 DEF LookupsInv, LookupOf
    <2> QED  BY <1>2, <2>1, <2>2, <2>3, <2>4, <2>5, <2>6, <2>7 DEF LifecycleStep
<1>3. CASE TuiStep /\ UNCHANGED enrichVars  BY <1>1, <1>3, TuiFrame
<1>4. CASE EnrichStep /\ UNCHANGED tuiVars
    <2>1. CASE UNCHANGED worker /\ lookups' = lookups  BY <1>1, <2>1
    <2>2. CASE \E l \in lookups : LookupStep(l)
        <3>1. PICK l \in lookups : LookupStep(l)  BY <2>2
        <3>2. PICK pc, result : Become(l, [l EXCEPT !.pc = pc, !.result = result])  BY <3>1, OneLookup
        <3>3. UNCHANGED worker  BY <3>1, OneLookup
        <3> DEFINE m == [l EXCEPT !.pc = pc, !.result = result]
        <3>4. LookupOf(l)  BY DEF LookupsInv
        <3>5. m = [field \in LookupFields |-> m[field]] /\ m.kind = l.kind
            BY <3>4 DEF LookupOf, LookupFields
        <3>6. lookups' = (lookups \ {l}) \cup {m}  BY <3>2 DEF Become
        <3> HIDE DEF m
        <3>7. LookupOf(m)'  BY <3>3, <3>4, <3>5 DEF LookupOf
        <3>8. \A n \in lookups : LookupOf(n)'  BY <3>3 DEF LookupsInv, LookupOf
        <3> QED  BY <3>6, <3>7, <3>8 DEF LookupsInv
    <2>3. CASE \E k \in DOMAIN worker : StartBatch(k)
        <3>1. PICK k \in DOMAIN worker : StartBatch(k)  BY <2>3
        <3> DEFINE new == {[kind |-> k, addr |-> a, pc |-> "check", result |-> None] : a \in FirstSeen(k)}
        <3>2. /\ worker' = [worker EXCEPT ![k] = "busy"] /\ lookups' = lookups \cup new
            BY <3>1 DEF StartBatch
        <3>3. \A l \in new : l = [field \in LookupFields |-> l[field]] /\ l.kind = k
            BY DEF LookupFields
        <3> HIDE DEF new
        <3>4. k \in DOMAIN worker' /\ worker'[k] = "busy"  BY <3>2
        <3>5. \A l \in new : LookupOf(l)'  BY <3>3, <3>4 DEF LookupOf
        <3>6. \A l \in lookups : LookupOf(l)'  BY <3>2 DEF LookupsInv, LookupOf
        <3> QED  BY <3>2, <3>5, <3>6 DEF LookupsInv
    <2>4. CASE \E k \in DOMAIN worker : FinishBatch(k)
        <3>1. PICK k \in DOMAIN worker : FinishBatch(k)  BY <2>4
        <3>2. /\ worker' = [worker EXCEPT ![k] = "idle"] /\ lookups' = lookups \ {l \in lookups : l.kind = k}
            BY <3>1 DEF FinishBatch
        <3> QED  BY <3>2 DEF LookupsInv, LookupOf
    <2> QED  BY <1>4, <2>1, <2>2, <2>3, <2>4, EnrichFrame
<1>5. CASE RefreshKey  BY <1>1, <1>5 DEF RefreshKey
<1>6. CASE Ended  BY <1>1, <1>6 DEF Ended, vars
<1> QED  BY <1>2, <1>3, <1>4, <1>5, <1>6 DEF Next

\* What is recorded of a stream is what was written and what is still in the log.
StreamInv ==
    (Tracing /\ Args.streamJson) =>
        /\ DOMAIN emitted = DOMAIN sessions
        /\ \A ip \in DOMAIN sessions :
            emitted[ip] \in Seq(Events) /\ sessions[ip].recorded = emitted[ip] \o sessions[ip].log

\* A program that reported success has joined its workers, and has emptied the
\* logs of a stream.
ExitInv ==
    (exit = "ok" /\ Tracing) =>
        /\ stage = "workers"
        /\ \A k \in DOMAIN worker : worker[k] = "ended"
        /\ Args.streamJson => \A ip \in DOMAIN sessions : sessions[ip].log = <<>>

LEMMA StreamMode ==
    ASSUME profile \in Profiles, Args.streamJson
    PROVE  RunMode = "stream" /\ ~ReplayOrDiff(Args)
<1>1. Parsed(Args)  BY RunsAssumption DEF Args
<1>2. ~IsBatchMode(Args) /\ ~ReplayOrDiff(Args) /\ IsHeadless(Args)
    BY <1>1 DEF Parsed, IsHeadless
<1> QED  BY <1>2 DEF RunMode, Mode, ReplayOrDiff

LEMMA WrittenAndLeft ==
    ASSUME NEW w \in Seq(Events), NEW l \in Seq(Events), NEW e \in Events
    PROVE  /\ w \o Append(l, e) = Append(w \o l, e)
           /\ w \o l \in Seq(Events) /\ (w \o l) \o <<>> = w \o l
<1> DEFINE E == Events
<1>1. w \in Seq(E) /\ l \in Seq(E) /\ e \in E  OBVIOUS
<1> HIDE DEF E
<1>2. <<e>> \in Seq(E) /\ w \o l \in Seq(E)  BY <1>1
<1>3. Append(l, e) = l \o <<e>> /\ Append(w \o l, e) = (w \o l) \o <<e>>
    BY <1>1, <1>2, AppendIsConcat
<1>4. (w \o l) \o <<e>> = w \o (l \o <<e>>)  BY <1>1, <1>2, ConcatAssociative
<1>5. (w \o l) \o <<>> = w \o l  BY <1>2, ConcatEmptySeq
<1> QED  BY <1>2, <1>3, <1>4, <1>5 DEF E

LEMMA StreamKept ==
    ASSUME FlowsInductive, TasksInv, StreamInv, Next
    PROVE  StreamInv'
<1> SUFFICES ASSUME Tracing', Args'.streamJson
             PROVE  /\ DOMAIN emitted' = DOMAIN sessions'
                    /\ \A ip \in DOMAIN sessions' :
                        emitted'[ip] \in Seq(Events) /\ sessions'[ip].recorded = emitted'[ip] \o sessions'[ip].log
    BY DEF StreamInv
<1>1. <<>> \in Seq(Events) /\ <<>> \o <<>> = <<>>  OBVIOUS
<1>2. CASE stage = "boot"
    <2>1. /\ DOMAIN engine' = DOMAIN sessions' /\ DOMAIN emitted' = DOMAIN sessions'
          /\ \A ip \in DOMAIN engine' :
                emitted'[ip] = <<>> /\ sessions'[ip].log = <<>> /\ sessions'[ip].recorded = <<>>
        BY <1>2, TasksStart, TracingStarts DEF FlowsInductive
    <2> QED  BY <1>1, <2>1
<1>3. CASE stage # "boot"
    <2>1. profile' = profile /\ Args' = Args  BY <1>3, StagesMove DEF Args
    <2>2. Tracing /\ Args.streamJson  BY <1>3, <2>1 DEF Tracing
    <2>3. RunMode = "stream"  BY <2>2, StreamMode DEF FlowsInductive, Started
    <2>4. mgr.pc = "off" /\ stage # "tui"  BY <2>2, <2>3 DEF TasksInv, TasksOwned
    <2>5. /\ DOMAIN emitted = DOMAIN sessions
          /\ \A ip \in DOMAIN sessions :
                emitted[ip] \in Seq(Events) /\ sessions[ip].recorded = emitted[ip] \o sessions[ip].log
        BY <2>2 DEF StreamInv
    <2>6. \A ip \in DOMAIN sessions : sessions[ip].log \in Seq(Events)
        BY DEF FlowsInductive, Shapes, SessionsShape, SessionShape
    <2>7. CASE SessionsFollow /\ SessionsLog /\ UNCHANGED emitted
        <3>1. DOMAIN sessions' = DOMAIN sessions  BY <2>7 DEF SessionsFollow
        <3>2. ASSUME NEW ip \in DOMAIN sessions
              PROVE  sessions'[ip].recorded = emitted[ip] \o sessions'[ip].log
            <4>1. Logs(sessions[ip], sessions'[ip])  BY <2>7 DEF SessionsLog
            <4>2. CASE sessions'[ip].log = sessions[ip].log /\ sessions'[ip].recorded = sessions[ip].recorded
                BY <2>5, <4>2
            <4>3. ASSUME NEW e \in Events, sessions'[ip].log = Append(sessions[ip].log, e),
                         sessions'[ip].recorded = Append(sessions[ip].recorded, e)
                  PROVE  sessions'[ip].recorded = emitted[ip] \o sessions'[ip].log
                <5>1. emitted[ip] \in Seq(Events) /\ sessions[ip].log \in Seq(Events)  BY <2>5, <2>6
                <5>2. emitted[ip] \o Append(sessions[ip].log, e) = Append(emitted[ip] \o sessions[ip].log, e)
                    BY <5>1, WrittenAndLeft
                <5>3. sessions[ip].recorded = emitted[ip] \o sessions[ip].log  BY <2>5
                <5> QED  BY <4>3, <5>2, <5>3, Zenon
            <4> QED  BY <4>1, <4>2, <4>3 DEF Logs
        <3> QED  BY <2>5, <2>7, <3>1, <3>2
    <2>8. CASE SessionsFollow /\ SessionsDrained
        <3>1. DOMAIN sessions' = DOMAIN sessions /\ DOMAIN emitted' = DOMAIN emitted
            BY <2>8 DEF SessionsFollow, SessionsDrained
        <3>2. ASSUME NEW ip \in DOMAIN sessions
              PROVE  emitted'[ip] \in Seq(Events) /\ sessions'[ip].recorded = emitted'[ip] \o sessions'[ip].log
            <4>1. /\ sessions'[ip].log = <<>> /\ sessions'[ip].recorded = sessions[ip].recorded
                  /\ emitted'[ip] = emitted[ip] \o sessions[ip].log
                BY <2>5, <2>8 DEF SessionsDrained
            <4>2. emitted[ip] \o sessions[ip].log \in Seq(Events)  BY <2>5, <2>6
            <4>3. (emitted[ip] \o sessions[ip].log) \o <<>> = emitted[ip] \o sessions[ip].log
                BY <4>2, ConcatEmptySeq
            <4> QED  BY <2>5, <4>1, <4>2, <4>3
        <3> QED  BY <2>5, <3>1, <3>2
    <2>9. ~Shows /\ ~BootReplay /\ ~BootTracing /\ ~MgrInserts
        BY <1>3, <2>4 DEF Shows, BootReplay, BootTracing, MgrInserts
    <2> QED  BY <2>7, <2>8, <2>9, SessionsFrame DEF FlowsInductive, Shapes
<1> QED  BY <1>2, <1>3

LEMMA ExitKept ==
    ASSUME FlowsInductive, TasksInv, ExitInv, Next
    PROVE  ExitInv'
<1> SUFFICES ASSUME exit' = "ok", Tracing'
             PROVE  /\ stage' = "workers"
                    /\ \A k \in DOMAIN worker' : worker'[k] = "ended"
                    /\ Args'.streamJson => \A ip \in DOMAIN sessions' : sessions'[ip].log = <<>>
    BY DEF ExitInv
<1>1. CASE ~Running
    <2>1. UNCHANGED <<stage, worker, sessions, exit, profile>>
        BY <1>1, ExitIsFinal DEF vars, lifecycleVars, mainVars, taskVars
    <2> QED  BY <2>1 DEF ExitInv, Tracing, Args
<1>2. CASE Running /\ stage = "boot"
    <2>1. BootTracing  BY <1>2, TasksStart
    <2>2. exit' = exit  BY <2>1 DEF BootTracing, GoTo
    <2> QED  BY <1>2, <2>2, NoneAssumption DEF Running, Exits
<1>3. CASE Running /\ stage # "boot"
    <2>1. profile' = profile /\ Args' = Args /\ RunMode' = RunMode  BY <1>3, StagesMove DEF Args, RunMode
    <2>2. ~ReplayOrDiff(Args)  BY <2>1 DEF Tracing
    <2>3. Finish  BY <1>3, <2>2, StageFrame, ModesTracing DEF ExitSteps
    <2>4. stage' = "workers" /\ UNCHANGED worker /\ \A k \in DOMAIN worker : worker[k] = "ended"
        BY <2>3 DEF Finish, Leave, taskVars
    <2>5. ASSUME Args.streamJson, NEW ip \in DOMAIN sessions' PROVE sessions'[ip].log = <<>>
        <3>1. Drain  BY <2>3, <2>5 DEF Finish, FinalDrain
        <3>2. SessionsDrained /\ SessionsFollow  BY <3>1, DrainFollows DEF FlowsInductive, Shapes
        <3> QED  BY <2>5, <3>2 DEF SessionsDrained, SessionsFollow
    <2> QED  BY <2>1, <2>4, <2>5
<1> QED  BY <1>1, <1>2, <1>3

EndInductive == FlowsInductive /\ TasksInv /\ LookupsInv /\ StreamInv /\ ExitInv

\* The program reports success only when it has left nothing running: every
\* engine, receiver and worker has ended, those of added targets too, and no
\* lookup is open; and a stream only when it has written all that was recorded,
\* once and in order (run_interactive_mode, run_batch_mode, run_streaming_mode,
\* run_target_manager).
THEOREM ExitLeavesNothing == Spec => []CleanExit
<1>1. ProgramInit => EndInductive
    <2> SUFFICES ASSUME ProgramInit PROVE EndInductive
        OBVIOUS
    <2>1. stage = "boot" /\ lookups = {}  BY DEF ProgramInit, Init, EnrichInit
    <2> QED  BY <2>1, StartsFlowing DEF EndInductive, TasksInv, LookupsInv, StreamInv, ExitInv, Tracing
<1>2. EndInductive /\ [Next]_vars => EndInductive'
    <2>1. CASE Next
        BY <2>1, FlowsKept, TasksKept, LookupsKept, StreamKept, ExitKept DEF EndInductive, FlowsInductive
    <2>2. CASE UNCHANGED vars
        <3> USE DEF vars, lifecycleVars, mainVars, taskVars, mgrVars, enrichVars, Tracing, Args
        <3>1. FlowsInductive => FlowsInductive'  BY <2>2, FlowsStay
        <3>2. TasksInv => TasksInv'
            BY <2>2 DEF TasksInv, TasksOwned, TasksJoined, OwnEnginesDone, OwnReceiversDone, MgrTasksDone,
                StartTargets, RunMode
        <3>3. LookupsInv => LookupsInv'  BY <2>2 DEF LookupsInv, LookupOf
        <3>4. StreamInv => StreamInv'  BY <2>2 DEF StreamInv
        <3>5. ExitInv => ExitInv'  BY <2>2 DEF ExitInv
        <3> QED  BY <3>1, <3>2, <3>3, <3>4, <3>5 DEF EndInductive
    <2> QED  BY <2>1, <2>2
<1>3. EndInductive => CleanExit
    <2> SUFFICES ASSUME EndInductive, exit = "ok", Tracing
                 PROVE  /\ \A ip \in DOMAIN engine : engine[ip].pc = "done"
                        /\ \A fam \in Families : receiver[fam] # None => receiver[fam].pc = "done"
                        /\ mgr.pc \in {"off", "done"} /\ lookups = {}
                        /\ Args.streamJson => \A ip \in DOMAIN sessions : emitted[ip] = sessions[ip].recorded
        BY DEF CleanExit
    <2>1. /\ TasksOwned /\ TasksJoined /\ stage = "workers" /\ \A k \in DOMAIN worker : worker[k] = "ended"
          /\ Args.streamJson => \A ip \in DOMAIN sessions : sessions[ip].log = <<>>
        BY DEF EndInductive, TasksInv, ExitInv
    <2>2. OwnEnginesDone /\ OwnReceiversDone /\ mgr.pc \in {"off", "done"} /\ (mgr.pc = "done" => MgrTasksDone)
        BY <2>1 DEF TasksJoined
    <2>3. mgr.pc = "off" => mgr.added = <<>> /\ mgr.spawned = <<>>  BY <2>1 DEF TasksOwned
    <2>4. Len(<<>>) = 0 /\ 1..0 = {}  OBVIOUS
    <2>5. ASSUME NEW ip \in DOMAIN engine PROVE engine[ip].pc = "done"
        <3>1. CASE \E i \in 1..Len(StartTargets) : StartTargets[i] = ip  BY <2>2, <3>1 DEF OwnEnginesDone
        <3>2. CASE \E i \in 1..Len(mgr.added) : mgr.added[i] = ip
            <4>1. mgr.pc # "off"  BY <2>3, <2>4, <3>2
            <4> QED  BY <2>2, <3>2, <4>1 DEF MgrTasksDone
        <3> QED  BY <2>1, <3>1, <3>2 DEF TasksOwned
    <2>6. ASSUME NEW fam \in Families, receiver[fam] # None PROVE receiver[fam].pc = "done"
        <3>1. CASE receiver[fam].owner = "main"  BY <2>2, <2>6, <3>1 DEF OwnReceiversDone
        <3>2. CASE \E i \in 1..Len(mgr.spawned) : mgr.spawned[i] = fam
            <4>1. mgr.pc # "off"  BY <2>3, <2>4, <3>2
            <4> QED  BY <2>2, <2>6, <3>2, <4>1 DEF MgrTasksDone
        <3> QED  BY <2>1, <2>6, <3>1, <3>2 DEF TasksOwned
    <2>7. lookups = {}  BY <2>1 DEF EndInductive, LookupsInv, LookupOf
    <2>8. ASSUME Args.streamJson, NEW ip \in DOMAIN sessions PROVE emitted[ip] = sessions[ip].recorded
        <3>1. emitted[ip] \in Seq(Events) /\ sessions[ip].recorded = emitted[ip] \o <<>>
            BY <2>1, <2>8 DEF EndInductive, StreamInv
        <3> QED  BY <3>1, ConcatEmptySeq
    <2> QED  BY <2>2, <2>5, <2>6, <2>7, <2>8
<1> QED  BY <1>1, <1>2, <1>3, PTL DEF Spec
=============================================================================
