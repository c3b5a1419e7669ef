# Verification of ttl

ttl is a traceroute/mtr-style tool in Rust: engines send probes with growing
TTLs to one or several targets, receivers match the ICMP responses with the
probes, and the results end up in per-target sessions that a terminal
interface, a report or a stream shows. This directory holds TLA+ models of it,
TLC configurations that check them on small instances, and proofs, checked by
TLAPS, that hold for every value of the constants. Paths below are relative to
the crate's `src/`.

## Components

| Component | State | Operations | Correct when |
|---|---|---|---|
| Probe engine `trace/engine.rs` (`ProbeEngine`, a tokio task per target) | TTL, flow, `seq: u8`, `rounds_completed`, PMTUD `seq` | tick: pause check, round limit, per probe insert → send → count; PMTUD probe; IPv6 polling | a probe is registered before it is sent, and counted exactly when it left |
| Pending map `trace/pending.rs` (shared, `RwLock`) | `(ProbeId, flow, target, is_pmtud)` → `PendingProbe` | insert, remove, retain, drain | a probe is completed once; keys are not reused while in use |
| Receiver `trace/receiver.rs` (a thread per IP family) | batch, error streak | drain ≤ 100 packets, match, apply, clean up, flush at shutdown | each response goes to its probe; every probe ends as answer or timeout |
| Session counters `state/session.rs` (`Session`, `Hop`) | sent, received, timeouts per hop and flow, `dest_ttl`, `paused` | record_*, `reset_stats`, pause | counters add up; `dest_ttl` is not too small |
| Path MTU search (`PmtudState`) | bounds, size, counts, phase, result | start, success, failure, Frag Needed, clamp, reset | result fits the path, is close to it, and is reached |
| Hop statistics and detectors (`Hop`) | responders, flap history, NAT, asymmetry, TTL manipulation | `record_response_detecting_flaps*`, the `is_*`/`has_*` verdicts | verdicts follow from what was received |
| Rate-limit analysis `state/ratelimit.rs` | verdict per hop | periodic pass over the session | verdict matches the counters, does not flicker |
| Response correlation `probe/correlate.rs` | none | bytes → `ParsedResponse` | finds the quoted probe |
| Packets and sockets `probe/{icmp,udp,tcp,rawip,socket,interface}.rs` | sockets | build, send, receive | platform glue |
| Enrichment `lookup/{rdns,asn,geo,ix,mod}.rs` | bounded caches, IX prefix table | workers fill sessions; IX refresh | every address is looked up, no stale table outlives a refresh |
| Replay player `tui/app.rs` (`ReplayState`), `Session::apply_replay_event` | position, speed, paused | play, pause, seek, speed | a replayed session equals the recorded one |
| Lifecycle `main.rs` | `CancellationToken`, join handles | interactive, batch, streaming, replay; target manager; signals | everything stops; nothing in flight is lost |
| Terminal interface `tui/` | selection, dialogs | draw, keys | presentation |
| Export and metrics `export/`, `metrics.rs` | none / counters of the exporter | format a session | presentation |
| Configuration `cli.rs`, `config.rs`, `prefs.rs`, `update.rs` | files | parse, validate | — |

They interact by shared state, not by messages: `SessionMap`
(`RwLock<HashMap<IpAddr, SessionLock>>`), the session inside each
`SessionLock`, the `PendingMap`, and one `CancellationToken`. An engine writes
the pending map and its own session; a receiver reads and writes the map and
any session; the interface pauses, resets and reads sessions; workers fill in
names. No code holds the pending map's lock and a session's together, so each
hand-over from one to the other is a window in which another task can run, and
the models have a state for every such window.

Hard behaviours: an engine between insert, send and count while a receiver
answers, expires or flushes the same entry; responses that come late, twice,
or that NAT made ambiguous; sequence numbers of 8 bits; statistics reset with
probes in flight; a search steered by three threads with stale answers; a
shutdown whose parts notice the cancellation at different times. The complete
list is under `hazards` in `PROJECT.json`, each with the properties that watch
it, or a note that says why none does.

## Modules

| Module | Models |
|---|---|
| `ProbeTracking` | engines, pending map, receivers, counters, pause/reset/cancel |
| `ProbeLedger`, `ProbeRefinement` | what probe tracking promises, and that it implements it |
| `ProbeTrackingProofs` | theorems about `ProbeTracking`, and that it implements the ledger |
| `PmtudSearch` | the MTU search of one target with the engine, receiver and network around it |
| `PmtudSearchProofs` | theorems about it |
| `Wire` | packets built, quoted, rewritten and parsed |
| `HopStats` | the statistics of a hop and its detectors, as operators on records |
| `RateLimit` | the rate-limit analysis |
| `SessionStats` | one session fed by packets: `Wire`, `HopStats`, `RateLimit` and the event log, with its replay |
| `Startup` | arguments, run mode, targets, families, flows, ports; no state |
| `Lifecycle` | the tasks of a run, how they start, end and are joined, in every mode |
| `Player` | the replay player, as operators on its state |
| `Tui` | the interface over `Lifecycle` and `Player` |
| `Enrichment` | the four lookup workers, their caches, the exchange table, over `Lifecycle` |
| `Program` | `Tui` and `Enrichment` together: the whole program |
| `FoldTheory` | what a proof needs of the folds of the community modules |
| `SessionHopProofs`, `SessionStatsProofs`, `SessionReplayProofs` | lemmas about a hop; theorems about a session; theorems about its log |
| `ProgramProofs`, `DisplayProofs` | theorems about the tasks of `Program`; about what it shows |
| `MCProbeTracking`, `MCPmtudSearch`, `MCSessionStats`, `MCProgram` | the instances for TLC |

Two views of a probe are kept apart. `ProbeTracking` has every interleaving of
the critical sections of many probes; `SessionStats` has one probe at a time and
all that a response does to a session. `Program` knows only that a probe is
pending, answered, timed out or flushed, and has the tasks around it.

### ProbeTracking

One action per critical section. `eng[t].pc` says where the loop of target
`t`'s engine is: `wait` (in `select!`), `insert` (about to register the current
probe), `send`, `record` (sent, not counted), `stopped`. The loop body is that
of `run_icmp_hdrincl` with the flow loop of `run_udp`; with `NumFlows = 1` the
two are the same. `rcv[r].pc` is the receiver's: `drain`, `apply` (the batch),
`expire`/`flush` (entries taken from the map that are to be recorded as
timeouts), `done`, `dead` (gave up after `MAX_CONSECUTIVE_ERRORS`).

`pending` is the set of the map's entries. An entry carries, beyond its key, a
number `id` that stands for `sent_at`; `SameKey` ignores it, so that an
insertion overwrites as `HashMap::insert` does. `net` holds responses under
way; one may be delivered several times, in any order, or never. A response
names the probe it answers, but `Lookup` and `Candidates` see only what the
code sees: TTL, sequence number, target and flow hint, or no hint when a NAT
rewrote the port, in which case only a unique candidate is taken. When nothing
is found under the response's target the code tries every session; so does
`Candidates`.

`Cancel` covers the TUI's quit key, signals and the end of the settle window.
`drift` is history: how far a reset, an overwritten entry, or a failed send
moved the balance of the counters. It is read by no action.

Time is abstracted: a cleanup may find any set of entries older than the
timeout that is closed under "sent earlier by the same engine". This
over-approximates the code, where `cli.rs` rejects a timeout of 256 intervals
or more; the wrap of `seq` while entries are pending is therefore included, and
`SeqMod = 2` makes it happen early. (`KNOWN_ISSUES.md` records that rate
limiting can stretch rounds, so the check on the command line bounds rounds
only approximately.)

`BatchSpec` is the program without a user: no pause, reset or external cancel.

`ProbeLedger` says what all this is for, without engines, receivers, locks or
packets: an outstanding probe is answered or times out, once, and is counted at
its own hop and flow. `ProbeRefinement` maps it: a probe is outstanding from the
insertion of its entry, through the receiver that took it, until the counter
moves; `CountsOnce` is the ledger's specification under that map.

### PmtudSearch

The engine at the end of a round (`CheckReady`, `GetSize`, `InsertProbe`,
`SendOk`/`SendTooBig`/`SendFailed`, `Clamp`): five lock acquisitions, between
which answers, timeouts and a reset may change the search. The search state
`pmtud` is the struct `PmtudState`, and its methods are operators of the same
names from a state to a state. An entry taken from the map waits in `taken`
until it is applied (`ApplyOutcome`), in any order, which includes the
receiver's batches and the engine's own IPv6 polling. `Judged` is the rule of
the receiver: only an outcome for the size now searched for counts, and any
answer but Frag Needed is a success (`trace/receiver.rs:448`), whoever sent it.
An answer is an echo reply, a Frag Needed, or another ICMP error, in whose quote
the receiver sees no PMTUD marker, so that it looks for a normal entry first
(`ToldPmtud`).

The path is a sequence of link MTUs (`links`), fixed during a run. A probe that
is too large gets Frag Needed from the first link that cannot carry it, with
that link's MTU, with none, or with a value from `BogusMtus`, or gets nothing.
`hostMtu` is what the host refuses with EMSGSIZE: the first link's MTU or, if
`HostLearns`, one reported earlier. A probe that fits may get an error instead of
its reply; where the path `rejects` probes (chosen once from `Rejects`), so may
one that does not fit, from a router before the link that is too narrow.

`Spec` has PMTUD probes only; `MixedSpec` adds the engine's normal probes to
the target's distance.

### Wire, HopStats, RateLimit, SessionStats

A probe's header is a sequence of 16-bit words, so that a router that quotes n
bytes keeps the first n / 2 words; checksums are computed over those words. IP
headers and extensions are records of the fields the parsers read. `ParseV4`,
`ParseV4Dgram` and `ParseV6Dgram` follow the three parsers in use, with the
kernel rewriting an identifier, a NAT rewriting a port, extension headers in a
quoted packet, and messages of another process.

`HopStats` translates `Hop` and the detectors it holds; thresholds on ratios are
cross-multiplied. Where the code takes the maximum over a `HashMap` the result
is a set. `RateLimit` is `analyze_rate_limiting`.

In `SessionStats` a profile is a configuration and a script: for each probe, the
set of things the network may do to it. `Receive` is everything the receiver
does for one packet, `PollEcho` what the engine does where it reads echo replies
itself (IPv6 on Linux, `profile.polls`: `poll_ipv6_echo_reply`, which logs no
event), `Expire` and `Flush` for a timeout, `AnalyzeTick` the worker's pass,
`Reset` the user. `live.events` is the recorded log, and
`Replay(live.events, ...)` the session that a replay makes of it.

### Startup, Lifecycle, Player, Tui, Enrichment, Program

`Startup` translates `Args::validate`, the choice of the mode, the resolution of
targets and the ports of a round. `Lifecycle.stage` is the place of the main
task: `boot`, then `engines`, `settle`, `loop` or `tui` by mode, then
`receivers`, `manager`, `workers`, until `exit` has a value. Each engine,
receiver and worker has a `pc`; the manager's is in `mgr`. `profile.faults` lets
any task fail.

The session is what the tasks and the interface need of it: `gen` (the
generation of `SessionWriteGuard`), `recorded` (the events of a stream),
`paused`, `sent`, whether hops `beyond` the destination were probed, and the hops
`seen` with their `labels`. Probes beyond the destination are not followed.

`Tui` has three steps in a turn of `run_app`'s loop: `Frame` (poll, play the
replay on), `Look` (read the session's generation and compare the fingerprint)
and `Draw` (take a snapshot and draw it); the tasks write sessions between any
two of them, as they may where the code has released the session's lock
(`tui/app.rs:794`). `Fingerprint` names the fields that the drawing is decided by,
`Screen` what a drawing shows of the session, the player and every view. There is
one action per kind of key, in the view that is open. A key is pressed at most `keysLeft` times, from the set the profile
gives. `Player` is used by it, with the clock as `Pass`.

`Enrichment` has one shape of worker for the four in the code: a batch of
unlabelled addresses, one lookup record per address with its own `pc` (cache
check, for exchanges the load of the table, the question, the cache insertion
with pruning), and the write of the results to the sessions. Addresses are bit
sequences; the tries are the code's, node by node. The hash map's order
(`MapOrder`) is a constant.

## Runs

| Run | Question | Bounds |
|---|---|---|
| `TrackingUser` | do the counters balance under resets, pauses and wraps? | 1 target, 1 TTL, 3 rounds, `SeqMod` 2, batch 2, 2 errors |
| `TrackingPair` | do targets that share a map and a receiver stay apart? | 2 targets at distance 1 and 2, 2 TTLs, 1 round each, batch 1 |
| `TrackingExit` | does everything end, and every probe with it? | 1 target, 2 flows behind a NAT, 1 round, cancel at any time |
| `PmtudSearch` | is the MTU search right, and does it end? | sizes 1280 to 1312, paths of one bottleneck, with rejections and without, 2 lost probes, 2 open, 1 reset |
| `SessionStats` | do counters, detectors, parsing, log and verdict agree after any history? | scripts of up to 30 probes, 3 hops, 2 flows, 3 responders; recent window 24, 2 route changes kept, 6 negative checks |
| `Program` | does every mode run as it should, and end? | 5 addresses of 3 and 4 bits, 2 or 3 targets, 1 or 2 rounds, up to a few keys; caches of 1 entry, batches of 2 addresses out of 3, one of them nameless, 3 themes |
| `TrackingCross` | may a reply be credited to another target? (yes) | as `TrackingPair` |
| `TrackingFlush` | may a probe stay pending after shutdown? (yes) | 2 families, 1 TTL, 1 round |
| `FlowHintWrap` | does a port tell its flow, for every accepted range? (no) | base 65534, 2 flows |
| `SettleWindow` | are the last answers awaited in batch mode? (no) | batch profiles without faults |
| `PmtudCollision` | may a PMTUD reply take a normal probe's entry? (yes) | IPv6 polling, largest size 1301, 2 normal probes, nothing lost |
| `PmtudBottlenecks` | is a reported MTU the path's MTU? (no, with two bottlenecks) | one path, nothing lost |

Why the bounds suffice. Three rounds with two sequence numbers wrap once and
leave a round on each side of the wrap; a batch of 2 has a case between empty
and full, a batch of 1 makes every packet a full batch. Two targets and two
TTLs are the least for which entries of one target can be mistaken for
another's at a wrong distance. Two errors give a streak that can be broken.
The MTU search takes two or three halvings from 1280..1312 to within 8 bytes, with
1301 and 1280 so placed that the search ends in the middle and at the edge;
`MaxOpen` 2 lets one probe's answer arrive while the next is searched for; two
lost probes are what it takes for one wrong step of the search. `MaxOpen`,
`MaxLost`, `MaxResets`, `MaxNormal` are bounds of the model and not of the
code; `CheckReady` also waits until the answer that last used its sequence
number is gone (in the code: 256 rounds).

`SessionStats` keeps the code's thresholds and shortens only its capped
histories: the recent window (the detectors look at its last 24 and at 20), the
list of route changes, which 2 entries already overflow, and the saturating
count of negative checks, whose last threshold is 5. A threshold that needs many
probes is reached by a script that branches only after it. `Program` has caches
of one entry so that every insertion evicts, and batches of two for a path of
three responders, one of them without a name, so that the limit of a batch leaves
one out while another place is taken for nothing. The runs reach 3.7 million
(`PmtudSearch`), 27,855 (`SessionStats`) and 252,283 (`Program`) distinct states.

Deadlock checking is off where the model simply stops; `Program` has an explicit
`Ended` and is checked.

What the passing runs show, property by property:

- `Conservation`: answered + timed out + in flight = sent + the one probe in
  the engine's hands + drift, per hop and flow, at every instant. Received may
  exceed sent, but only by the probe in hand.
- `OnePlace`: an entry taken from the map is answered or timed out, not both.
- `OwnEntryFirst`: a response takes the entry of its own probe if
  that is there. In the one combination of several targets, several flows and
  a lost hint it does not hold: a response that is ambiguous under its own
  target is tried under the others and may take one there.
- `DestSound`: although replies can be credited to the wrong target,
  `dest_ttl` never falls below the real distance, since only a reply from the
  session's own target moves it.
- `DeadHoldsNothing`: the error that ends a receiver finds its batch empty.
- `CountsOnce`: the ledger is implemented, step by step, with resets, wraps,
  failed sends and dying receivers in between.
- `Settles`, `Terminates`: liveness of the cleanup and of the shutdown.
- `NeverAbovePath`, `NeverFarBelow`, `ProbesInside`, `BoundsCloseIn`,
  `Discovers`: safety, precision, shape and termination of the MTU search. They
  hold although answers are stale, sends are refused, or the search is reset.
  `NeverAbovePath` and `Discovers` are about paths that reject no probe: an error
  from a router before the narrow link confirms a size that never arrived, and
  rejections that take turns with silence confirm nothing for ever. The others
  hold on all paths. All of them are about `Spec`, where the map holds PMTUD
  entries only: a reply that takes an entry of the other kind is
  `PmtudCollision`'s.
- `FlowAccounting`, `FlapTracksPrimary`, `RouteChangesChain`, `EcmpSettled`,
  `ManipEvidence`: what a hop shows agrees with itself and with the evidence, in
  every order of answers.
- `ReplayRebuilds`, `ReplayReaches`: a replay gives the live session's hops up to
  three things, each counted by a history variable: late replies, which the
  replay counts and the live session only logs (`late`), and the final flush
  (`flushed`) and the echoes that the engine polled (`polled`), which the live
  session counts and no event records. Where a hop had none of them the two are
  the same. The replay finds the destination no farther away, unless MTU probes
  or a polled echo at that distance, which are not logged, found it.
- `OwnProbeFound`, `ExtensionsRead`, `FlowHintKept`: a response is recognised
  exactly when enough of the probe comes back. Eight quoted bytes are enough for
  ICMP and TCP; UDP needs fourteen, so that a router that quotes eight (RFC 792)
  is not seen with UDP probes.
- `NoFlicker`, `VerdictSettles`: the rate-limit verdict is not withdrawn by the
  analysis after one that matched, and ends up as the counters say.
- `PortsFit`, `Heard`: accepted arguments give ports of 16 bits, and every
  engine, of targets added later too, has a receiver that counts its flows.
- `CleanExit`, `CancelExits`, `AddAnswered`: nothing is left running, nothing
  recorded is missing from a stream, and every run that is cancelled or counted
  ends.
- `ReplayIsPrefix`: the player shows the events up to its index, once each.
- `ScreenFresh`: a frame that is not drawn would have shown what the last one
  does. It depends on the generation being read before the snapshot is taken
  (its mutant `RenderOlder` swaps them, with a write in between) and on the
  fingerprint naming all that is shown (`FingerprintSansList` forgets a field).
- `LongestMatch`, `RefreshSettles`: the trie, and a refresh that ends.
- `Labelled`: whoever has a name gets it, as long as the addresses that have none
  are fewer than a batch (`Nameless`); with as many of them as a batch has places
  it may fail.
- `PortsFit` and the parser agree for the ranges that end below 65536
  (`FlowHintKept` here has the base 50000; the last range that the command line
  accepts is `FlowHintWrap`'s).

The six violation runs are the findings of `PROJECT.json`: each refutes a
sentence of the code's own comments or change log.

## Fairness

`ProbeTracking`: a round that has begun goes on (`WF` of its steps: every await
in it ends by itself). `select!` picks at random among ready branches, so an
engine whose token is cancelled does not prefer its tick for ever (`SF` of
`EngineCancelled`). A receiver thread runs (`WF`); its socket has a read
timeout, so `EndDrain` is always possible. An entry does not stay younger than
the timeout for ever (`SF` of a cleanup that finds it). Nothing is assumed of
the network, of ticks, or of cancellation.

`PmtudSearch`: rounds go on, and a probe is sent or refused in the end, since
`MaxLost` bounds the failed sends; timeouts happen, answers that are under way
arrive, and outcomes are applied. `PollEcho` needs `SF`: it is possible only
between rounds. Losses are finite in number (`MaxLost`): if every
answer were lost the search would take every size for too large and end far
below the path's MTU, and if every send failed it would not end.

`SessionStats`: the analysis worker ticks (`WF`); nothing else is assumed.

`Program`: the tasks, the frames of the interface, the closing of a cancelled
interface, the refresh, the lookups and the passing of an hour each make progress
(`WF`); a worker that is back at its `select!` does not miss the token for ever
(`SF` of `Ends`). Timeouts and the flush happen; answers, keys and signals need
not.

## Theorems

The proofs hold for every value of the constants that satisfies the modules'
assumptions. Besides ranges of the constants (a TTL is a `u8`, for instance, so
`MaxTtl` is at most 255) these are: a script and a recording
are sequences of what the module calls probes and events, and its target is an
address (`ProfilesAssumption`); arguments are those
the parser lets through, the resolver knows the hosts that are named or typed
and answers with addresses, and the path to an address has at least one hop
(`RunsAssumption`); a theme that is saved or asked for is one
of those there are, because `Theme::by_name` and the settings know no other
(`ThemesAssumption`); a listed prefix is no longer than an address and the cap of
the caches is a number (`TablesAssumption`); and `None` is none of the values it
stands beside (`NoneAssumption`, `ResponsesAssumption`). TLC evaluates all of
them on the runs. `ProfilesAssumption`
also says that the user resets no later than before the last probe, where the
program is certain to run.

### ProbeTrackingProofs

Any finite set of targets and receivers, any distances, TTLs, flows, sequence
modulus, batch size, and any number of rounds.

- `IInv == TypeOK /\ Numbered /\ Fresh /\ OnePlace /\ Conservation` is
  inductive. `OnePlace` alone is not: an insertion could reuse the identity of
  a probe a receiver still holds. `Fresh` (an engine's numbers exceed all those
  in use) excludes it, and `Numbered` says that an engine about to withdraw a
  probe has one. `Conservation` needs `OnePlace`, because moving an entry
  changes `InFlight` by one only if it was not already at its destination. The
  step has a lemma per action, on the cardinalities of the per-hop sets.
  Theorems `TypeCorrect`, `OneCompletion`, `CountersBalance`.
- `KeysUnique`: inductive by itself; only an insertion adds to the map, and it
  removes what has its key.
- `DestinationSound`: strengthened with what is under way: every reply in
  `net` and in a batch that is an echo has a TTL of at least its target's
  distance.
- `NothingLostInDeadReceiver`: strengthened with "an error streak means an
  empty batch while draining" and "`expired` belongs to `expire` and `flush`".
- `OwnEntryTaken`: from `KeysUnique` and "a known hint is the probe's flow",
  for ICMP, no NAT, or one target (`OneWayToTell`).
- `TrackingImplementsLedger`: every initial state maps to an initial state of
  the ledger, and under `IInv` every step to a step of it or a stutter: an
  insertion issues a probe and forgets the one it overwrites, a failed send
  withdraws, an answer or a timeout counts where it is applied, a reset clears, and
  taking an entry from the map is a stutter. `HeldEntryOwn` is needed for the
  withdrawal: the entry that is removed is the one the engine inserted.

### PmtudSearchProofs

- `IInv == TypeOK /\ SearchOK(pmtud) /\ SizeOK`: a running search has not
  converged, so its midpoint lies strictly above the lower bound, and no size
  under- or overflows a u16. `TypeCorrect`, `SearchInside`.
- `NoPromiseAbovePath`: for paths with one bottleneck (`SingleBottleneck`) that
  reject no probe (`~rejects`).
  `SafeInv` adds that all entries are PMTUD entries with distinct live sequence
  numbers (`OnlyPmtud`, `FreshSeq`), that an answer under way or taken that is
  a reply or an error belongs to a size that fits and a Frag Needed carries the
  bottleneck's MTU or a bogus one no smaller than `Hi` (`Truthful`), and that
  the lower bound and the result fit (`SafeSearch`). Both conditions are needed:
  `PmtudBottlenecks` violates the property without the first, and without the
  second the run `PmtudSearch` would (`NeverAbovePath` has it as a hypothesis).
- `ResultNotFarBelow`: on any path. While nothing was lost, an entry whose size
  fits has its answer under way or is being sent, so that no timeout, Frag
  Needed or refusal is of a size that fits (`FailuresTrue`), and the upper bound
  never passes below such a size (`UpperTrue`). Resets do not disturb it, since
  what they leave in flight is true too.
- `SearchClosesIn`: the bounds of one search close in, with one exception that
  the proof brought out and TLC confirmed: after a reset, a size that the
  old search left undecided may be refused by the host (EMSGSIZE) when the new search is already below
  it, and `clamp` then puts the upper bound back up. `CloseInv` says
  that before any reset every size in use is the one under test or already
  behind the bounds (`Settled`, `FirstSearch`).

### FoldTheory

Sums over hops, the replay of a log, the resolution of targets, sorting and the
building of a trie are folds of the community modules, defined by a `CHOOSE` of
a recursive function. That the function exists, and what it computes, is an
induction over the size of the set. The library's induction theorems take an
operator as a parameter, which the provers cannot instantiate; the induction is
done here by a least counterexample (`LeastNat`, from the library's theorem that
`<` is well-founded), with the operator folded a constant of the module.
A module that needs it writes `INSTANCE FoldTheory WITH Op <- ...`.
`Unfolds` is the recursion, `Appends` a step of a fold over a sequence, and
`Keeps` an invariant of such a fold.

### SessionHopProofs, SessionStatsProofs, SessionReplayProofs

Any addresses, flows, TTLs, caps and profiles.

- `SessionHopProofs` has a lemma for each operator on a hop and each part of
  `HopInv`: `Accounted`, `Followed`, `Chained` and `ManipInv`.
- `SessionInv` is the type of the session and `HopInv` of its hops.
  `CountersAddUp` is `Accounted`: received, responders and flows are three
  sums over the same responses, and the recent window is as full as it can be;
  it needs that a NAT check is made only of a counted response.
- `PrimaryIsTracked`: `Followed` is inductive because a response adds one and
  the primary moves as soon as another responder is `PrimaryChangeMargin` ahead;
  so the code's maximum over a hash map is unique when it is used.
- `ChangesAreChained` is not inductive as the run states it. `Chained` adds
  that the last change ends at the tracked primary and that no change was
  recorded before five responses, so that a change recorded later starts where the last one
  ended and has a greater sequence number, whether or not the oldest one was
  dropped.
- `SuspicionHasEvidence`: anomalies include the hops that did not decrement, and
  a verdict is given only while they count.
- `VerdictsDoNotFlicker`: an action property, from the type of the verdict.
- `AnswersNameTheirProbe` and `PortTellsFlow`: the words of a packet through
  building, NAT, rewriting, quotation at any length and the parsers. That
  no checksum or identifier is taken for another's needs arithmetic modulo
  `2^16`. `PortTellsFlow` has the hypothesis `PortsBelowEnd` (base plus flows is
  a 16-bit number), which is exactly what `FlowHintWrap` violates.
- `OwnProbesAreFound`: the other half, that an answer is recognised exactly when
  enough of the probe comes back (`Recognisable`). It needs that the checksum of
  a message that was built is valid (`SealedIsValid`, over the folding of
  carries, `Fold16`), so that the parser, which sums again, lets it through.
  Besides `PortsBelowEnd` it has the hypothesis `NatsKeepFlows`: a NAT that
  rewrites a port gives none of the range of the flows, unless it is the probe's
  own. With a NAT that gives the probe of one flow the port of another, the code
  attributes the answer to the other flow; no parser could do better.
  `AnswersNameTheirProbe` has neither hypothesis.
- `ExtensionsAreRead`: the objects of an extension are read by one fold
  (`ParseExtensions`), and `HasRead` is what every object keeps: roles are
  apart (`RolesApart`), the labels are a part of the stacks read so far
  (`LabelsRead`), and a bottom of stack is followed by a label only when there
  was a second object. It is `Keeps` of `FoldTheory` with that fold.
- `PinnedFlowsAreSettled`: from `Accounted`. Where every flow that was answered
  has one responder, the share of that responder is all of its responses, so
  that no flow is mixed; and the hop's responders are those of its flows, so that
  two of them that differ show as `PerFlow`.
- `LogRebuildsSession`, `LogReachesDestination`: `ReplayInv` relates the live
  session to the fold of its log, hop by hop (`Matches`): they are alike
  where no late reply, no polled echo and no flush came in between, and differ by
  their numbers where one did. That the two make the same step needs that a step
  depends on nothing but what is alike (`SameChange` and its like). Nothing is
  flushed before the script's end, so that a reset, which clears the log, finds
  nothing that it would not clear. `Reaches` says that the replay's destination is no
  farther, unless MTU probes or a polled echo at that distance, which are not
  logged, may have found it.

### ProgramProofs

Any profiles: arguments, targets, networks, faults, keys and signals.

- `PortsAlwaysFit`: from `Parsed` and what `Args::validate` refuses, for every
  protocol, and for what `auto` makes of it.
- `Started` says what a run that has not begun has (nothing), `Shapes` what the
  manager, engines and receivers look like, and that a session changes only by
  what is recorded in it. They are carried over every action once
  (`SessionsFrame`, `EnginesFrame`), and the theorems below use them.
- `EnginesAreHeard`: `FlowsInv` adds that what the manager has cached for a
  family (`mgr.cached`) is what that family's receiver was started with, and
  that a session has as many flows. Without the first part a target that is
  added later could be given a number of flows its receiver does not have.
- `ExitLeavesNothing`: `TasksOwned` says that every task is one that the main
  task or the manager waits for; `TasksJoined`, that these have ended when their
  owner goes on. `LookupsInv`: an ended worker has no lookups. `StreamInv`: what
  is recorded is what was emitted followed by the log. `ExitInv` puts them
  together at the exit.

### DisplayProofs

- `ReplayShowsPrefix`: `PlayerInv` says that the events are in the order of
  time (by the fold that sorts them), and that what is shown is the part from
  the last reset to the index. Every operation of the player keeps it, a seek
  to either side included.
- `ExchangeIsLongestMatch`: `TrieOf` describes the trie after the first `k`
  prefixes: its nodes are the beginnings of those listed, and a node has the
  info of the first prefix that ends there. The walk ends where no
  node goes on and returns the last info it saw (`WalkEnds`); so it is that of
  the longest prefix. For any list, repeated and nested prefixes included.
- `ScreenStaysFresh`: `ScreenFresh` is not inductive, because a screen drawn
  before some step may no longer be what the sessions show. What is inductive is
  `DrawnInv`. Its first case is `InStep`: the generation in the fingerprint that was
  drawn is no higher than the session's, and if it is the same then so is what is
  shown; likewise the player's index and the number of targets; and the views
  drawn are those that the fingerprint tells (`ViewOf`, `OverlayOf`, `BarOf`: what is
  shown of the interface is a function of the fingerprint). It rests on every
  write being a new generation (`SessionsAdvance`, over all the actions that write a
  session), but for a seek backwards, which makes the session anew from
  generation 1 (`SetsBack`). That a drawing brings it about, though the session may
  have been written since the generation was read, is `LookInv`: between `Look`
  and `Draw` the generation read stays at most the session's, and nothing else
  that the fingerprint tells changes. If the session was written in between, the
  fingerprint is already behind it, and the next `Look` draws again. The second
  case of `DrawnInv`, `Behind`: the player is paused at another index than the one
  drawn until the next frame, which draws. It is reached because when keys are
  handled all that was played has been drawn (`SeenInv`). A replay has one
  target, and no manager that could add another (`AloneInv`).

- `IndicesStayInRange` (`TypeOK` of `Program`): `RangesInv` has a part for each
  kind of state that is indexed or bounded.
  `FitInv`: the interface is as it was made until the arguments are known to be
  good, and fits from then on. That it fits (`UiFits`) says that the selected hop
  is one of the session of the selected target (displayed or not), for which every key, answer and
  reset that changes the selection must let go of the hop, and that an open
  detail view has a hop. It also says that a request is open only in its
  overlay: otherwise an answer could change the selection under the detail view
  (`AfterReply` closes nothing but the input). There is a lemma for each field
  that changes, one for the keys of each overlay, and one for the answers.
  `RequestsInv`: requests and answers carry numbers, and `None` is no number, so
  that an interface that waits for nothing takes no answer.
  `PathsInv`: every session is of an address with a path, however it was found.
  `CachesInv`: what is left of a cache after it was pruned is within the cap, by
  two folds over its entries (`Live`, `Others`).
  `RoundsInv`: a pending probe was sent in a round its engine has begun, with
  `Shapes` for the engines' types.

### Only model-checked

All liveness (`Settles`, `Terminates`, `Discovers`, `VerdictSettles`,
`CancelExits`, `AddAnswered`, `RefreshSettles`, `Labelled`): it is out of the
prover's reach. The violation runs are counterexamples and need no proof. Every
other property that a run checks is the statement of a theorem.

## What modelling brought to light

Beyond the findings the models have these behaviours of the code. The first four
depart from what a comment of the repository says, like the findings; each was
stated as a property and refuted by TLC, but has no run of its own here. For
the others no text was found that rules them out; a maintainer may want to know
of all.

- An ICMP error from a router before the narrow link counts as a success of the
  size it rejects (`trace/receiver.rs:449`), so that the lower bound may come to
  lie above the path's MTU; `state/session.rs:811` calls that
  bound "known to work". `NeverAbovePath` without `~rejects` is violated.
- A replay does not agree with the session it recorded where it should be
  "consistent with runtime event application" (`state/session.rs:1513`): late
  replies, which the live session only logs, count in it, and IPv6 echo replies
  polled by the engine on Linux (`trace/engine.rs:1455`) are not in the log.
  `ReplayRebuilds` without its history variables is violated either way. A replay
  also takes any response from the target for reaching it and never counts the
  sends of a flow, and MTU probes are not logged.
- A lookup that read the exchange table before a refresh may put its result into
  the cache after the refresh has cleared it, and it stays until it expires.
  `lookup/ix.rs:713` says "Clear IP cache so new lookups use fresh data". That
  every cached result is the table's after a refresh is violated.
- The keys move over all hops that were probed, so that in the first round the
  selection may be a hop beyond the destination, which is not displayed; a
  round that finds the destination, a reset or a seek back leaves a selected hop or an
  open detail view as it is, and the view shows nothing until the hop is probed
  again. `tui/app.rs:77` calls the selection "0-indexed into displayed hops". That it
  is one of those is violated.
- The MTU search need not end on a path that answers one size now with an error
  other than Frag Needed, now not at all: a success and a failure clear each
  other's count.
- Right or `]` on a replay that lasts 0 ms rewinds it to its start; a
  rebase truncates to milliseconds and moves the position back by less than one.
- A parsed TCP or UDP quotation carries nothing of the process: two instances
  that trace the same target with the same ports may answer each other.
- A successful refresh of the exchange table does not fill `load_once`: the next
  lookup loads again, from the file, which is the old one if it could not be
  saved. Lookups that wait for the cell retry without looking at the backoff.
- Ten addresses that never get a name, first in the map's order, keep every
  other from being looked up (`Labelled` is stated for fewer than a batch of them).
- `--theme` and `--wide` are saved as preferences when the interface closes.
- The target that reaches its number of rounds first ends the tracing of all.
- `--src-port 0` and a fixed `--port 0` are accepted. With source port 0 the
  first flow gets a port of the kernel's choice, and its hint is lost.
- After a target is added, the pause indicator is that of the one before.

## Not modelled

In `ProbeTracking`: the IPv6 polling's effect on normal entries (it is in
`PmtudSearch`, and in `SessionStats` with one probe at a time); sends delayed by rate limit and jitter. In `PmtudSearch`: probes
that expire before the target as a case of their own (their error is one of the
other ICMP errors); NetBSD's
DF error branch, which IPv4 no longer reaches since it is dispatched to the
hdrincl variant; the flush at shutdown as an outcome of the search (it does not
update it). A PMTUD probe that fails before insertion has the effect of
`SendFailed` with nothing to remove. In `HopStats`: RTT, jitter and percentiles,
which are pure arithmetic on floats. In `Wire`: the raw IPv6 parsers, which are
dead code (`probe/correlate.rs:449`, `462`, `569`, `842`), and the text of
interface names. In `Program`: the analysis worker only ends (its work is in
`SessionStats`); the tables' file formats and the DNS records; the diff's and the
report's text; the metrics server. In `Tui`: layout, cursors and scrolling, status messages, the state of the PeeringDB
cache in the settings and the rows of the target list (both are in the code's
fingerprint, the rows refreshed every thirty ticks), and the clock of a replay's
progress bar, which goes on while the screen is drawn. Probes beyond the
destination are counted (`beyond`) and get no answer.

As components: export, reports and metrics are pure functions of a snapshot;
the lab scripts are not part of the program.

## Plan

`ProbeTracking` with the IPv6 polling, and a timed variant for the bound of 256
intervals.
