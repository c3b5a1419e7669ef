------------------------------ MODULE Lifecycle ------------------------------
(***************************************************************************)
(* The tasks of a run and how they end: one engine per target, one         *)
(* receiver per address family, the workers, the manager that adds targets *)
(* while the interface runs, and the main task, which starts them, waits   *)
(* for what its mode waits for, and joins them in order.                   *)
(*                                                                         *)
(* All share one cancellation token.  Each action is what a task does      *)
(* between two points where it waits or releases a lock.  ProbeTracking    *)
(* models the inside of a round, of a batch of responses and of a cleanup; *)
(* here a probe is pending, then answered, timed out or flushed.           *)
(***************************************************************************)
EXTENDS Startup

CONSTANT
    Profiles    \* what a run is given: arguments, network, user, and bounds

Owners == {"main", "manager"}
EngineRecord == [pc : {"start", "run", "done", "failed"}, rounds : Nat, owner : Owners, works : SUBSET {"icmp", "udp"}]
ReceiverRecord == [pc : {"run", "done", "failed"}, flows : 1..MaxFlows, owner : Owners]
Exits == {"ok", "error", "130"}

\* None is no number, no record and no exit.
ASSUME NoneAssumption ==
    None \notin Int /\ None \notin ReceiverRecord /\ None \notin Exits

\* A run is started with arguments the parser let through, the resolver answers
\* for every host named with addresses, to each of which there is a path, and a
\* recording is a sequence of events with their times.
ASSUME RunsAssumption ==
    \A p \in Profiles :
        /\ Parsed(p.args)
        /\ p.args.targets \in Seq(DOMAIN p.dns)
        /\ \A host \in DOMAIN p.dns : p.dns[host] \in Seq(DOMAIN p.path)
        /\ p.adds \subseteq DOMAIN p.dns /\ p.recorded \in DOMAIN p.path
        /\ \A ip \in DOMAIN p.path : p.path[ip] \in Seq(ToSet(p.path[ip])) /\ p.path[ip] # <<>>
        /\ p.events \in Seq(ToSet(p.events)) /\ \A e \in ToSet(p.events) : e.at \in Nat

VARIABLES
    profile,
    stage,      \* what the main task does
    exit,       \* how the program ended: "ok", "error", "130", or None
    cancelled,  \* the token
    signals,    \* the signals received
    sessions,   \* the session map, from addresses
    pending,    \* the shared map, as the set of its probes
    engine,     \* the engines, from addresses
    receiver,   \* the receiver of each family, or None
    worker,     \* the workers of the run
    mgr,        \* the target manager
    queue,      \* the requests on their way to it
    replies,    \* its answers on their way back
    emitted     \* what --stream-json has written, per target

mainVars == <<stage, exit, cancelled, signals>>
taskVars == <<engine, receiver, worker>>
mgrVars  == <<mgr, queue, replies>>
lifecycleVars == <<profile, mainVars, sessions, pending, taskVars, mgrVars, emitted>>
-----------------------------------------------------------------------------
Args == profile.args
RunMode == Mode(Args)
Cfg == ConfigFrom(Args)
StartTargets == IF ReplayOrDiff(Args) THEN <<profile.recorded>> ELSE InitialTargets(Args, profile.dns)

\* A session, with the probes answered so far as seen, the enrichment of
\* their responders as labels, and the undrained event log; beyond tells whether
\* hops beyond the destination were probed.  recorded is a history variable: the log
\* with nothing drained.
NewSession(flows) ==
    [paused |-> FALSE, flows |-> flows, sent |-> 0, beyond |-> FALSE, seen |-> {}, labels |-> {},
     log |-> <<>>, recorded |-> <<>>, gen |-> 0]

\* Releasing the write guard makes the session a new generation.  Mutant: it
\* does not.
WrittenUnseen(s) == s
Written(s) == [s EXCEPT !.gen = @ + 1]

\* A round ends at the destination if that is known, else at max_ttl.
DestKnown(ip) == \E ttl \in sessions[ip].seen : profile.path[ip][ttl] = ip
Sent(s, known) == [s EXCEPT !.sent = @ + 1, !.beyond = @ \/ ~known]
Seen(s, ttl) == [s EXCEPT !.seen = @ \cup {ttl}]
Record(s, event) == [s EXCEPT !.log = Append(@, event), !.recorded = Append(@, event)]

NewEngine(owner) == [pc |-> "start", rounds |-> 0, owner |-> owner, works |-> {}]
NewReceiver(flows, owner) == [pc |-> "run", flows |-> flows, owner |-> owner]

\* A map with one more entry, or another value for one it has.
Inserted(map, key, value) == [k \in DOMAIN map \cup {key} |-> IF k = key THEN value ELSE map[k]]

\* The flows of the sessions made at startup: a family is asked for its
\* capability once, when its first target comes up.
StartFlows(ips, works) ==
    FoldLeft(LAMBDA acc, ip :
                LET f == CachedFlows(acc.cached[Family(ip)], Cfg, works[ip])
                IN  [cached |-> [acc.cached EXCEPT ![Family(ip)] = f], flowsOf |-> Inserted(acc.flowsOf, ip, f)],
             [cached |-> [fam \in Families |-> None], flowsOf |-> <<>>], ips)

Init ==
    /\ profile \in Profiles
    /\ stage = "boot" /\ exit = None /\ cancelled = FALSE /\ signals = 0
    /\ sessions = <<>> /\ pending = {} /\ engine = <<>>
    /\ receiver = [fam \in Families |-> None]
    /\ worker = [k \in profile.workers |-> "off"]
    /\ mgr = [pc |-> "off", req |-> None, ip |-> None, cached |-> [fam \in Families |-> None],
              served |-> {}, added |-> <<>>, spawned |-> <<>>]
    /\ queue = <<>> /\ replies = {} /\ emitted = <<>>
-----------------------------------------------------------------------------
(* The main task. *)

Running == exit = None
Leave(code) == exit' = code /\ UNCHANGED <<stage, cancelled, signals>>
GoTo(next) == stage' = next /\ UNCHANGED <<exit, cancelled, signals>>

\* Arguments refused, targets that do not resolve, no address to send from;
\* or a file, a socket or a permission that cannot be had.
Refused ==
    \/ ~Valid(Args)
    \/ ~ReplayOrDiff(Args) /\ (StartTargets = None \/ ~FamiliesServed(Args, StartTargets))

BootFails ==
    /\ stage = "boot" /\ Running
    /\ Refused \/ profile.faults
    /\ Leave("error")
    /\ UNCHANGED <<profile, sessions, pending, taskVars, mgrVars, emitted>>

\* The saved session is printed, or compared with another.
BootPrint ==
    /\ stage = "boot" /\ Running /\ ~Refused
    /\ RunMode \in {"print", "diff"}
    /\ Leave("ok")
    /\ UNCHANGED <<profile, sessions, pending, taskVars, mgrVars, emitted>>

\* Without events, or without --animate, the saved session itself is shown.
SavedSession ==
    [NewSession(Cfg.flows) EXCEPT !.sent = 1, !.seen = 1..Len(profile.path[profile.recorded])]

BootReplay ==
    /\ stage = "boot" /\ Running /\ ~Refused
    /\ RunMode = "replay"
    /\ GoTo("tui")
    /\ sessions' = Inserted(sessions, profile.recorded,
                            IF profile.events = <<>> THEN SavedSession ELSE NewSession(Cfg.flows))
    /\ UNCHANGED <<profile, pending, taskVars, mgrVars, emitted>>

FirstStage == IF RunMode = "batch" THEN "engines" ELSE IF RunMode = "stream" THEN "loop" ELSE "tui"

\* A receiver takes its flow count from the first session of its family.
BootTracing ==
    /\ stage = "boot" /\ Running /\ ~Refused
    /\ ~ReplayOrDiff(Args)
    /\ GoTo(FirstStage)
    /\ LET ips == StartTargets
       IN  \E works \in [ToSet(ips) -> BOOLEAN] :
            LET start == StartFlows(ips, works)
                Flows(fam) == start.flowsOf[FirstOf(ips, fam)]
            IN  /\ sessions' = [ip \in ToSet(ips) |-> NewSession(start.flowsOf[ip])]
                /\ engine' = [ip \in ToSet(ips) |-> NewEngine("main")]
                /\ receiver' = [fam \in Families |->
                                    IF fam \in FamiliesOf(ips) THEN NewReceiver(Flows(fam), "main") ELSE None]
                /\ mgr' = IF RunMode # "interactive" THEN mgr
                          ELSE [mgr EXCEPT !.pc = "idle", !.served = FamiliesOf(ips),
                                    !.cached = [fam \in Families |-> IF fam \in FamiliesOf(ips) THEN Flows(fam) ELSE None]]
                /\ emitted' = [ip \in ToSet(ips) |-> <<>>]
    /\ worker' = [k \in profile.workers |-> "idle"]
    /\ UNCHANGED <<profile, pending, queue, replies>>

\* Tasks awaited one after the other; the first that failed ends the program.
AllDone(tasks) == \A i \in 1..Len(tasks) : tasks[i].pc = "done"
Broken(tasks) ==
    \E i \in 1..Len(tasks) : tasks[i].pc = "failed" /\ \A j \in 1..(i - 1) : tasks[j].pc = "done"

Await(at, tasks, next) ==
    /\ stage = at /\ Running
    /\ \/ AllDone(tasks) /\ GoTo(next)
       \/ Broken(tasks) /\ Leave("error")
    /\ UNCHANGED <<profile, sessions, pending, taskVars, mgrVars, emitted>>

\* Those started with the program, v4 first; there is nothing to wait for if a
\* family has none.
OwnReceiver(fam) ==
    IF receiver[fam] # None /\ receiver[fam].owner = "main" THEN receiver[fam] ELSE [pc |-> "done"]
OwnReceivers == <<OwnReceiver("v4"), OwnReceiver("v6")>>

AwaitEngines ==
    Await("engines", [i \in 1..Len(StartTargets) |-> engine[StartTargets[i]]],
          IF RunMode = "batch" THEN "settle" ELSE "receivers")
AwaitReceivers ==
    Await("receivers", OwnReceivers, IF RunMode = "interactive" THEN "manager" ELSE "workers")
AwaitManager == Await("manager", <<mgr>>, "workers")

\* The time given to the last answers; then all are told to stop.
Settle ==
    /\ stage = "settle" /\ Running
    /\ stage' = "receivers" /\ cancelled' = TRUE
    /\ UNCHANGED <<profile, exit, signals, sessions, pending, taskVars, mgrVars, emitted>>

\* Each session's log is taken, and written in the order it was recorded.
Drain ==
    /\ sessions' = [ip \in DOMAIN sessions |->
                        IF sessions[ip].log = <<>> THEN sessions[ip]
                        ELSE Written([sessions[ip] EXCEPT !.log = <<>>])]
    /\ emitted' = [ip \in DOMAIN emitted |-> emitted[ip] \o sessions[ip].log]

Emit ==
    /\ stage = "loop" /\ Running /\ Args.streamJson
    /\ \E ip \in DOMAIN sessions : sessions[ip].log # <<>>
    /\ Drain
    /\ UNCHANGED <<profile, mainVars, pending, taskVars, mgrVars>>

LoopEnds ==
    /\ stage = "loop" /\ Running /\ cancelled
    /\ GoTo("engines")
    /\ UNCHANGED <<profile, sessions, pending, taskVars, mgrVars, emitted>>

\* Mutant: the last events are left in the log.
DrainSkipped == UNCHANGED <<sessions, emitted>>

\* What was recorded since the loop ended.
FinalDrain == IF Args.streamJson THEN Drain ELSE UNCHANGED <<sessions, emitted>>

Finish ==
    /\ stage = "workers" /\ Running
    /\ \A k \in DOMAIN worker : worker[k] = "ended"
    /\ FinalDrain
    /\ Leave("ok")
    /\ UNCHANGED <<profile, pending, taskVars, mgrVars>>

\* Ctrl+C or SIGTERM; the second ends the process where it is.
Signal ==
    /\ stage # "boot" /\ Running
    /\ signals < profile.signals
    /\ signals' = signals + 1
    /\ cancelled' = TRUE
    /\ exit' = IF cancelled THEN "130" ELSE None
    /\ UNCHANGED <<profile, stage, sessions, pending, taskVars, mgrVars, emitted>>

MainStep ==
    \/ BootFails \/ BootPrint \/ BootReplay \/ BootTracing
    \/ AwaitEngines \/ AwaitReceivers \/ AwaitManager \/ Settle
    \/ Emit \/ LoopEnds \/ Finish
-----------------------------------------------------------------------------
(* The engine of a target. *)

EngineUnchanged == UNCHANGED <<profile, stage, exit, signals, receiver, worker, mgrVars, emitted>>

\* The sockets: what auto can create is found out by every engine for itself.
EngineStart(ip) ==
    /\ engine[ip].pc = "start" /\ Running
    /\ \/ \E works \in IF Cfg.protocol = "auto" THEN {{"icmp"}, {"udp"}, {}} ELSE {{}} :
            engine' = [engine EXCEPT ![ip].pc = "run", ![ip].works = works]
       \/ profile.faults /\ engine' = [engine EXCEPT ![ip].pc = "failed"]
    /\ EngineUnchanged /\ UNCHANGED <<cancelled, sessions, pending>>

\* A tick that is due may be served although the token is cancelled.  Probes beyond
\* the destination are not followed: they only make their hops probed.  The
\* number of rounds without --count is bounded by the profile.
Round(ip) ==
    /\ engine[ip].pc = "run" /\ Running
    /\ ~sessions[ip].paused
    /\ engine[ip].rounds < IF Cfg.count # None THEN Cfg.count ELSE profile.rounds
    /\ engine' = [engine EXCEPT ![ip].rounds = @ + 1]
    /\ pending' = pending \cup {<<ip, engine[ip].rounds + 1, ttl>> : ttl \in 1..Len(profile.path[ip])}
    /\ sessions' = [sessions EXCEPT ![ip] = Written(Sent(@, DestKnown(ip)))]
    /\ EngineUnchanged /\ UNCHANGED cancelled

\* The round limit ends the whole program, not this engine alone.
CountReached(ip) ==
    /\ engine[ip].pc = "run" /\ Running
    /\ ~sessions[ip].paused
    /\ Cfg.count # None /\ engine[ip].rounds >= Cfg.count
    /\ engine' = [engine EXCEPT ![ip].pc = "done"]
    /\ cancelled' = TRUE
    /\ EngineUnchanged /\ UNCHANGED <<sessions, pending>>

EngineCancelled(ip) ==
    /\ engine[ip].pc = "run" /\ Running
    /\ cancelled
    /\ engine' = [engine EXCEPT ![ip].pc = "done"]
    /\ EngineUnchanged /\ UNCHANGED <<cancelled, sessions, pending>>

EngineStep(ip) == EngineStart(ip) \/ Round(ip) \/ CountReached(ip) \/ EngineCancelled(ip)
-----------------------------------------------------------------------------
(* The receiver of a family: the answers of its family; the timeouts and    *)
(* the flush of every family.                                               *)

ReceiverRuns(fam) == Running /\ receiver[fam] # None /\ receiver[fam].pc = "run"
ReceiverUnchanged == UNCHANGED <<profile, mainVars, engine, worker, mgrVars, emitted>>

Answered(fam) ==
    /\ ReceiverRuns(fam)
    /\ \E p \in pending :
        /\ Family(p[1]) = fam
        /\ pending' = pending \ {p}
        /\ sessions' = [sessions EXCEPT ![p[1]] =
                            Written(Record(Seen(@, p[3]), <<"reply", p[2], p[3]>>))]
    /\ ReceiverUnchanged /\ UNCHANGED receiver

TimedOut(fam) ==
    /\ ReceiverRuns(fam) /\ ~cancelled
    /\ \E p \in pending :
        /\ pending' = pending \ {p}
        /\ sessions' = [sessions EXCEPT ![p[1]] = Written(Record(@, <<"timeout", p[2], p[3]>>))]
    /\ ReceiverUnchanged /\ UNCHANGED receiver

\* No socket, or too many errors in a row.
ReceiverFails(fam) ==
    /\ ReceiverRuns(fam) /\ profile.faults
    /\ receiver' = [receiver EXCEPT ![fam].pc = "failed"]
    /\ ReceiverUnchanged /\ UNCHANGED <<sessions, pending>>

\* Mutant: the flush waits for the probes of the family alone.
ReceiverEndsWhenIdle(fam) == \A p \in pending : Family(p[1]) # fam
ReceiverEnds(fam) == TRUE

\* The flush is not in the event log.
Flush(fam) ==
    /\ ReceiverRuns(fam) /\ cancelled
    /\ ReceiverEnds(fam)
    /\ pending' = {}
    /\ sessions' = [ip \in DOMAIN sessions |->
                        IF \E p \in pending : p[1] = ip THEN Written(sessions[ip]) ELSE sessions[ip]]
    /\ receiver' = [receiver EXCEPT ![fam].pc = "done"]
    /\ ReceiverUnchanged

ReceiverStep(fam) == Answered(fam) \/ TimedOut(fam) \/ ReceiverFails(fam) \/ Flush(fam)

WorkerEnds(k) ==
    /\ worker[k] = "idle" /\ Running /\ cancelled
    /\ worker' = [worker EXCEPT ![k] = "ended"]
    /\ UNCHANGED <<profile, mainVars, sessions, pending, engine, receiver, mgrVars, emitted>>
-----------------------------------------------------------------------------
(* The target manager. *)

MgrUnchanged == UNCHANGED <<profile, mainVars, pending, worker, emitted>>
\* Mutant: a request that is refused gets no answer.
RepliedToOthers(result) ==
    replies' = replies \cup (IF result = "error" THEN {} ELSE {[id |-> mgr.req.id, result |-> result, ip |-> mgr.ip']})
Replied(result) == replies' = replies \cup {[id |-> mgr.req.id, result |-> result, ip |-> mgr.ip']}

MgrTake ==
    /\ mgr.pc = "idle" /\ Running /\ queue # <<>>
    /\ mgr' = [mgr EXCEPT !.pc = "resolving", !.req = Head(queue)]
    /\ queue' = Tail(queue)
    /\ MgrUnchanged /\ UNCHANGED <<replies, sessions, engine, receiver>>

\* Cancelled, or the interface is gone.  Requests not taken are dropped.
MgrCloses ==
    /\ mgr.pc = "idle" /\ Running
    /\ cancelled \/ (stage # "tui" /\ queue = <<>>)
    /\ mgr' = [mgr EXCEPT !.pc = "joining"]
    /\ queue' = <<>>
    /\ replies' = replies \cup {[id |-> queue[i].id, result |-> "closed", ip |-> None] : i \in 1..Len(queue)}
    /\ MgrUnchanged /\ UNCHANGED <<sessions, engine, receiver>>

\* The host resolves to nothing new or nothing that can be traced.
MgrDeclines ==
    /\ mgr.pc = "resolving" /\ Running
    /\ LET ip == ResolveTarget(mgr.req.host, Args.force, profile.dns)
           known == ip # None /\ ip \in DOMAIN sessions
       IN  /\ ip = None \/ known \/ ~FamilyServed(Cfg, ip)
           /\ mgr' = [mgr EXCEPT !.pc = "idle", !.ip = IF known THEN ip ELSE None]
           /\ Replied(IF known THEN "existed" ELSE "error")
    /\ MgrUnchanged /\ UNCHANGED <<queue, sessions, engine, receiver>>

MgrInserts ==
    /\ mgr.pc = "resolving" /\ Running
    /\ LET ip == ResolveTarget(mgr.req.host, Args.force, profile.dns)
       IN  /\ ip # None /\ ip \notin DOMAIN sessions /\ FamilyServed(Cfg, ip)
           /\ \E works \in BOOLEAN :
                LET flows == CachedFlows(mgr.cached[Family(ip)], Cfg, works)
                IN  /\ mgr' = [mgr EXCEPT !.pc = "inserted", !.ip = ip, !.cached[Family(ip)] = flows]
                    /\ sessions' = Inserted(sessions, ip, NewSession(flows))
    /\ MgrUnchanged /\ UNCHANGED <<queue, replies, engine, receiver>>

\* A receiver if the family has none, then the engine.
MgrSpawns ==
    /\ mgr.pc = "inserted" /\ Running
    /\ LET ip  == mgr.ip
           fam == Family(ip)
           new == fam \notin mgr.served
       IN  /\ receiver' = IF new THEN [receiver EXCEPT ![fam] = NewReceiver(mgr.cached[fam], "manager")] ELSE receiver
           /\ engine' = Inserted(engine, ip, NewEngine("manager"))
           /\ mgr' = [mgr EXCEPT !.pc = "idle", !.served = @ \cup {fam}, !.added = Append(@, ip),
                                 !.spawned = IF new THEN Append(@, fam) ELSE @]
    /\ Replied("added")
    /\ MgrUnchanged /\ UNCHANGED <<queue, sessions>>

\* Its own engines, then its own receivers.
MgrJoins ==
    /\ mgr.pc = "joining" /\ Running
    /\ LET engines   == [i \in 1..Len(mgr.added) |-> engine[mgr.added[i]]]
           receivers == [i \in 1..Len(mgr.spawned) |-> receiver[mgr.spawned[i]]]
       IN  \/ /\ AllDone(engines) /\ AllDone(receivers)
              /\ mgr' = [mgr EXCEPT !.pc = "done"]
           \/ /\ Broken(engines) \/ (AllDone(engines) /\ Broken(receivers))
              /\ mgr' = [mgr EXCEPT !.pc = "failed"]
    /\ MgrUnchanged /\ UNCHANGED <<queue, replies, sessions, engine, receiver>>

MgrStep == MgrTake \/ MgrCloses \/ MgrDeclines \/ MgrInserts \/ MgrSpawns \/ MgrJoins
-----------------------------------------------------------------------------
LifecycleStep ==
    \/ MainStep \/ Signal \/ MgrStep
    \/ \E ip \in DOMAIN engine : EngineStep(ip)
    \/ \E fam \in Families : ReceiverStep(fam)
    \/ \E k \in DOMAIN worker : WorkerEnds(k)
=============================================================================
