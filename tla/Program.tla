-------------------------------- MODULE Program --------------------------------
(***************************************************************************)
(* The whole program: the tasks of a run (Lifecycle), the interface (Tui)  *)
(* and the lookups (Enrichment), over the sessions they share.             *)
(***************************************************************************)
EXTENDS Tui, Enrichment

vars == <<lifecycleVars, tuiVars, enrichVars>>

ProgramInit == Init /\ TuiInit /\ EnrichInit

\* Ctrl+R in the settings, on the PeeringDB section.
RefreshKey ==
    /\ Pressed("refresh") /\ ui.overlay = "settings"
    /\ ui.settings.section = 2 /\ IxEnabled
    /\ BeginRefresh
    /\ ui' = Pressing(ui)
    /\ UNCHANGED <<rp, look, drawn, prefs, lifecycleVars, cache, lookups, faults>>

Ended == ~Running /\ UNCHANGED vars

Next ==
    \/ LifecycleStep /\ UNCHANGED <<tuiVars, enrichVars>>
    \/ TuiStep /\ UNCHANGED enrichVars
    \/ EnrichStep /\ UNCHANGED tuiVars
    \/ RefreshKey
    \/ Ended

\* Every task is scheduled, a lookup returns, a timeout and an hour pass.  Nobody
\* has to press a key, to send a signal or to answer a probe.  The tasks take few
\* steps once nobody presses a key, so fairness to any of them is fairness to
\* each.
Tasks ==
    /\ \/ MainStep \/ MgrStep
       \/ \E ip \in DOMAIN engine : EngineStep(ip)
       \/ \E fam \in Families : TimedOut(fam) \/ Flush(fam)
    /\ UNCHANGED <<tuiVars, enrichVars>>
Frames == (Frame \/ Render) /\ UNCHANGED enrichVars
Closes == cancelled /\ Close /\ UNCHANGED enrichVars
Lookups(k) ==
    /\ StartBatch(k) \/ FinishBatch(k) \/ (\E l \in lookups : l.kind = k /\ LookupStep(l))
    /\ UNCHANGED tuiVars
Hours(k) == Age(k) /\ UNCHANGED tuiVars
Ends == (\E k \in DOMAIN worker : WorkerEnds(k)) /\ UNCHANGED <<tuiVars, enrichVars>>

\* A worker that is back at its select finds the token cancelled at once, and
\* its next tick a second away: it cannot miss the token for ever.
Fairness ==
    /\ WF_vars(Tasks) /\ WF_vars(Frames) /\ WF_vars(Closes)
    /\ WF_vars(RefreshStep /\ UNCHANGED tuiVars)
    /\ WF_vars(\E k \in DOMAIN worker : Lookups(k))
    /\ WF_vars(\E k \in DOMAIN worker : Hours(k))
    /\ SF_vars(Ends)

Spec == ProgramInit /\ [][Next]_vars /\ Fairness
-----------------------------------------------------------------------------
(* Properties. *)

Tracing == stage # "boot" /\ ~ReplayOrDiff(Args)

\* Every index of the interface is that of something that exists, whatever the
\* keys, resets and new targets; the hop selected is one of the session's, and may
\* be none that is displayed.  No cache is above its cap
\* (prune_cache); a lookup belongs to a batch of its worker.
TypeOK ==
    /\ stage \in {"boot", "engines", "settle", "loop", "tui", "receivers", "manager", "workers"}
    /\ exit \in {None, "ok", "error", "130"} /\ cancelled \in BOOLEAN
    /\ DOMAIN engine \subseteq DOMAIN sessions
    /\ \A p \in pending : p[1] \in DOMAIN engine /\ p[2] <= engine[p[1]].rounds
    /\ Shows => /\ ui.selected < Len(ui.targets) \/ (ui.targets = <<>> /\ ui.selected = 0)
                /\ ui.hop # None => ui.hop < IF rp # None THEN 1 ELSE HopLimit(Target(ui))
                /\ ui.overlay = "list" => ui.listIndex < Len(ui.targets)
                /\ ui.theme < NumThemes /\ ui.settings.section < Sections
    /\ \A k \in DOMAIN cache : Len(cache[k]) <= Cap
    /\ \A l \in lookups : worker[l.kind] = "busy"

\* No port of a probe overflows sixteen bits, for arguments that were accepted
\* and whatever auto chose, and none is 0 that was not asked for (Args::validate;
\* run_udp, run_tcp, run_auto).
PortsFit ==
    \A ip \in DOMAIN engine : engine[ip].pc = "run" =>
        \A port \in DestinationPorts(Cfg, engine[ip].works) \cup SourcePorts(Cfg, engine[ip].works) :
            port \in 0..MaxPort /\ (port = 0 => 0 \in {Args.srcPort, Args.port})

\* The program reports success only when it has left nothing running, and a
\* stream only when it has written all that was recorded, once and in order.
CleanExit ==
    (exit = "ok" /\ Tracing) =>
        /\ \A ip \in DOMAIN engine : engine[ip].pc = "done"
        /\ \A fam \in Families : receiver[fam] # None => receiver[fam].pc = "done"
        /\ mgr.pc \in {"off", "done"} /\ lookups = {}
        /\ Args.streamJson => \A ip \in DOMAIN sessions : emitted[ip] = sessions[ip].recorded

\* An engine has a receiver of its family, which tells as many flows apart as
\* the session counts; also for targets added while tracing
\* (config_for_target_effective_flows, spawn_receivers, run_target_manager).
Heard ==
    \A ip \in DOMAIN engine :
        /\ receiver[Family(ip)] # None
        /\ receiver[Family(ip)].flows = sessions[ip].flows

\* A run that was cancelled ends, and so does one without an interface that
\* has a number of rounds.
CancelExits ==
    (cancelled \/ (Tracing /\ RunMode \in {"batch", "stream"} /\ Cfg.count # None)) ~> ~Running

\* A replay shows the recorded events up to its index, each once and in the
\* order of time, however often it was paused, sought and sped up; one that is
\* finished has played them all (seek_replay_to, run_app).
ReplayIsPrefix ==
    rp # None =>
        /\ rp.shown = SubSeq(rp.events, rp.from + 1, rp.index)
        /\ \A i \in 1..(Len(rp.events) - 1) : rp.events[i].at <= rp.events[i + 1].at
        /\ rp.finished => rp.index = Len(rp.events)

\* Skipping the drawing of an unchanged fingerprint never leaves an outdated
\* screen, although the receivers and workers write between the reading of the
\* generation and the snapshot (render_fingerprint, run_app, draw_ui).
ScreenFresh == (Shows /\ drawn # None /\ drawn.fp = Fingerprint) => drawn.screen = Screen

\* The exchange of an address is that of the longest prefix that holds it, the
\* first listed if it is listed twice (PrefixTrie).
Holds(e, addr) ==
    /\ e.fam = Family(addr)
    /\ SubSeq(e.bits, 1, e.len) = SubSeq(Bits[addr], 1, e.len)
Best(entries, addr) ==
    LET held == {i \in 1..Len(entries) : Holds(entries[i], addr)}
    IN  IF held = {} THEN None
        ELSE entries[CHOOSE i \in held : \A j \in held :
                entries[j].len < entries[i].len \/ (entries[j].len = entries[i].len /\ i <= j)].info
LongestMatch ==
    stage = "boot" => \A addr \in DOMAIN Bits :
        ExchangeOf(Table(profile.published), addr) = Best(profile.published, addr)

\* A refresh ends, whether the API answers or not, and gives up the flag that keeps
\* a second one from starting (refresh_cache, refresh_cache_inner).
RefreshSettles == ix.refresh # "none" ~> (ix.refresh = "none" \/ ~Running)

\* The responders that have a label get it, all of them and after failures that
\* were cached, as long as those that have none leave room in a batch: the first
\* addresses without a label are asked for again and again (run_*_worker).
Unnamed(addr, k) ==
    \E ip \in DOMAIN sessions : \E ttl \in sessions[ip].seen :
        profile.path[ip][ttl] = addr /\ \A l \in sessions[ip].labels : l[1] # k \/ l[2] # addr
Nameless == {addr \in UNION {ToSet(profile.path[ip]) : ip \in DOMAIN sessions} : profile.answers[addr] = None}
Waiting ==
    /\ Running /\ ~cancelled
    /\ Cardinality(Nameless) < Batch
    /\ \E k \in DOMAIN worker \ {"ix", "ratelimit"}, addr \in DOMAIN Bits :
            profile.answers[addr] # None /\ Unnamed(addr, k)
Labelled == Waiting ~> ~Waiting

\* A host asked for is added, found or refused, as long as the interface is
\* open (run_target_manager, poll_add_target_result).
AddAnswered == ui.input.resolving ~> (~ui.input.resolving \/ ~Shows)

\* The answers to the last probes are awaited before anything is discarded
\* (run_batch_mode: "Wait for final responses and enrichment to settle").
AnswersAwaited ==
    (RunMode = "batch" /\ signals = 0 /\ stage \in {"engines", "settle"}) =>
        \A fam \in Families : receiver[fam] # None => receiver[fam].pc # "done"
=============================================================================
