--------------------------- MODULE ProbeTracking ---------------------------
(***************************************************************************)
(* The probe life cycle: engines (one task per target) put a pending entry *)
(* in the shared map, send, and count the probe as sent; receivers (one    *)
(* thread per IP family) match responses against the map, apply them to    *)
(* the sessions in a batch, and turn entries older than the timeout, and   *)
(* at shutdown all of them, into timeouts.                                 *)
(*                                                                         *)
(* The three locks of the code (session map, session, pending map) are     *)
(* held inside a step and never across two: every acquisition is one       *)
(* action.  PMTUD is off here (every key has is_pmtud = FALSE); module     *)
(* PmtudSearch models it.  Time is left out: an entry may be found older   *)
(* than the timeout at any cleanup, provided the entries its engine sent   *)
(* before it are found old as well.                                        *)
(***************************************************************************)
EXTENDS Integers, FiniteSets

CONSTANTS
    Targets,        \* the traced addresses, one engine and one session each
    Receivers,      \* the receiver threads, one per IP family in use
    Family,         \* the receiver of a target's family
    Dist,           \* the hop distance of a target, unknown to the program
    MaxTtl,         \* config.max_ttl
    NumFlows,       \* the effective flow count, 1 with ICMP
    Icmp,           \* TRUE: echo probes; FALSE: UDP or TCP probes
    NatPresent,     \* TRUE: a NAT on the path may rewrite source ports
    SeqMod,         \* ProbeId.seq is a u8: 256 values
    Count,          \* config.count, 0 for none
    DrainBatch,     \* MAX_DRAIN_BATCH
    MaxErrors,      \* MAX_CONSECUTIVE_ERRORS
    NoFlow          \* an unknown flow hint

ASSUME ConstantsAssumption ==
    /\ IsFiniteSet(Targets) /\ Targets # {}
    /\ IsFiniteSet(Receivers)
    /\ Family \in [Targets -> Receivers]
    /\ Dist \in [Targets -> Nat \ {0}]
    /\ MaxTtl \in Nat \ {0}
    /\ NumFlows \in Nat \ {0}
    /\ Icmp \in BOOLEAN /\ NatPresent \in BOOLEAN
    /\ SeqMod \in Nat \ {0}
    /\ Count \in Nat
    /\ DrainBatch \in Nat \ {0}
    /\ MaxErrors \in Nat \ {0, 1}
    /\ NoFlow \notin 0..(NumFlows - 1)

VARIABLES
    eng,        \* the engine of each target: control state and loop variables
    sess,       \* of each session: paused, dest_ttl (0 for none)
    sent, received, timeouts,   \* the counters of each hop and flow
    pending,    \* the shared map, as the set of its entries
    net,        \* responses on their way to a receiver
    rcv,        \* the receivers: control state, packets drained, error streak
    batch,      \* responses taken from the map and not yet applied
    expired,    \* entries taken from the map as timed out, not yet recorded
    cancelled,  \* the CancellationToken every task shares
    drift       \* history: the completions that no counted probe explains

engVars  == <<eng, sent>>
rcvVars  == <<rcv, batch, expired>>
vars == <<eng, sess, sent, received, timeouts, pending, net, rcv, batch,
          expired, cancelled, drift>>
-----------------------------------------------------------------------------
Ttls == 1..MaxTtl
Flows == 0..(NumFlows - 1)
Hops == Targets \X Ttls \X Flows

\* One insertion into the map.  id numbers the insertions of an engine: it
\* stands for sent_at and tells apart two probes that share a key.
Probe == [tgt : Targets, ttl : Ttls, flow : Flows, seq : 0..(SeqMod - 1), id : Nat]

Hop(p) == <<p.tgt, p.ttl, p.flow>>
SameKey(p, q) == Hop(p) = Hop(q) /\ p.seq = q.seq

\* A response quotes the probe it answers (an echo reply names its target by
\* its source address); the flow hint is lost when a NAT rewrote the port.
Reply == [probe : Probe, echo : BOOLEAN, hint : Flows \cup {NoFlow}]

\* The responses the network may give to a probe.
Answers(p) ==
    {[probe |-> p, echo |-> Icmp /\ p.ttl >= Dist[p.tgt], hint |-> h] :
        h \in IF NatPresent /\ ~Icmp THEN {p.flow, NoFlow} ELSE {p.flow}}

BatchEntry   == [rcv : Receivers, probe : Probe, reply : Reply]
ExpiredEntry == [rcv : Receivers, probe : Probe]

EngineState   == {"wait", "insert", "send", "record", "stopped"}
EngineRecord  ==
    [pc : EngineState, ttl : Ttls, flow : Flows, last : Ttls,
     seq : 0..(SeqMod - 1), rounds : Nat, nextId : Nat]
ReceiverState == {"drain", "apply", "expire", "flush", "done", "dead"}
ReceiverRecord == [pc : ReceiverState, count : 0..DrainBatch, errors : 0..MaxErrors]

\* What is between the map and the counters for a hop.
PendingAt(h) == {p \in pending : Hop(p) = h}
BatchAt(h)   == {e \in batch : Hop(e.probe) = h}
ExpiredAt(h) == {e \in expired : Hop(e.probe) = h}

\* The engine has inserted the entry of a probe it has not counted yet.
InHand(h) ==
    LET e == eng[h[1]]
    IN  IF e.pc \in {"send", "record"} /\ e.ttl = h[2] /\ e.flow = h[3] THEN 1 ELSE 0

InFlight(h) ==
    Cardinality(PendingAt(h)) + Cardinality(BatchAt(h)) + Cardinality(ExpiredAt(h))

Init ==
    /\ eng = [t \in Targets |->
                [pc |-> "wait", ttl |-> 1, flow |-> 0, last |-> MaxTtl,
                 seq |-> 0, rounds |-> 0, nextId |-> 0]]
    /\ sess = [t \in Targets |-> [paused |-> FALSE, dest |-> 0]]
    /\ sent = [h \in Hops |-> 0]
    /\ received = [h \in Hops |-> 0]
    /\ timeouts = [h \in Hops |-> 0]
    /\ pending = {} /\ net = {} /\ batch = {} /\ expired = {}
    /\ rcv = [r \in Receivers |-> [pc |-> "drain", count |-> 0, errors |-> 0]]
    /\ cancelled = FALSE
    /\ drift = [h \in Hops |-> 0]
-----------------------------------------------------------------------------
(* The engine of target t. *)

\* The select! picks among the ready branches: a tick that is due may be
\* served although the token is already cancelled.
StartRound(t) ==
    /\ eng[t].pc = "wait"
    /\ ~sess[t].paused
    /\ Count = 0 \/ eng[t].rounds < Count
    /\ eng' = [eng EXCEPT ![t].pc = "insert", ![t].ttl = 1, ![t].flow = 0,
                          ![t].last = IF sess[t].dest = 0 THEN MaxTtl ELSE sess[t].dest]
    /\ UNCHANGED <<sess, sent, received, timeouts, pending, net, rcvVars, cancelled, drift>>

\* The round limit: the token is shared, so every other task is told to stop.
CountReached(t) ==
    /\ eng[t].pc = "wait"
    /\ ~sess[t].paused
    /\ Count # 0 /\ eng[t].rounds >= Count
    /\ eng' = [eng EXCEPT ![t].pc = "stopped"]
    /\ cancelled' = TRUE
    /\ UNCHANGED <<sess, sent, received, timeouts, pending, net, rcvVars, drift>>

EngineCancelled(t) ==
    /\ eng[t].pc = "wait"
    /\ cancelled
    /\ eng' = [eng EXCEPT ![t].pc = "stopped"]
    /\ UNCHANGED <<sess, sent, received, timeouts, pending, net, rcvVars, cancelled, drift>>

\* Mutant: the sequence number does not wrap.
NextSeqUnwrapped(n) == n + 1

\* u8 wrapping_add.
NextSeq(n) == (n + 1) % SeqMod

\* The engine's record after it is through with the current probe: the inner
\* loop is over the TTLs, the outer one over the flows, then the round ends.
Advance(e) ==
    IF e.ttl < e.last THEN [e EXCEPT !.pc = "insert", !.ttl = @ + 1]
    ELSE IF e.flow + 1 \in Flows THEN [e EXCEPT !.pc = "insert", !.ttl = 1, !.flow = @ + 1]
    ELSE [e EXCEPT !.pc = "wait", !.seq = NextSeq(@), !.rounds = @ + 1]

\* The per-probe socket, or its TTL option, could not be set up.
SkipProbe(t) ==
    /\ eng[t].pc = "insert"
    /\ eng' = [eng EXCEPT ![t] = Advance(@)]
    /\ UNCHANGED <<sess, sent, received, timeouts, pending, net, rcvVars, cancelled, drift>>

CurrentProbe(t) ==
    [tgt |-> t, ttl |-> eng[t].ttl, flow |-> eng[t].flow, seq |-> eng[t].seq,
     id |-> eng[t].nextId]

SameKeyEntries(p) == {q \in pending : SameKey(q, p)}

\* HashMap::insert: an entry left over from SeqMod rounds ago is overwritten.
InsertPending(t) ==
    /\ eng[t].pc = "insert"
    /\ LET p == CurrentProbe(t)
       IN  /\ pending' = (pending \ SameKeyEntries(p)) \cup {p}
           /\ drift' = [drift EXCEPT ![Hop(p)] = @ - Cardinality(SameKeyEntries(p))]
    /\ eng' = [eng EXCEPT ![t].pc = "send", ![t].nextId = @ + 1]
    /\ UNCHANGED <<sess, sent, received, timeouts, net, rcvVars, cancelled>>

LastProbe(t) == [CurrentProbe(t) EXCEPT !.id = @ - 1]

\* The probe leaves; the network loses it, or answers it at once or later.
SendOk(t) ==
    /\ eng[t].pc = "send"
    /\ \/ UNCHANGED net
       \/ \E m \in Answers(LastProbe(t)) : net' = net \cup {m}
    /\ eng' = [eng EXCEPT ![t].pc = "record"]
    /\ UNCHANGED <<sess, sent, received, timeouts, pending, rcvVars, cancelled, drift>>

\* The send failed: the entry is removed, by key, and nothing is counted.  A
\* receiver that flushed the map in between already has it as a timeout.
SendFailed(t) ==
    /\ eng[t].pc = "send"
    /\ LET p == LastProbe(t)
       IN  /\ pending' = pending \ SameKeyEntries(p)
           /\ drift' = [drift EXCEPT ![Hop(p)] = @ + 1 - Cardinality(SameKeyEntries(p))]
    /\ eng' = [eng EXCEPT ![t] = Advance(@)]
    /\ UNCHANGED <<sess, sent, received, timeouts, net, rcvVars, cancelled>>

\* record_sent and record_flow_sent, under the session lock.
RecordSent(t) ==
    /\ eng[t].pc = "record"
    /\ sent' = [sent EXCEPT ![<<t, eng[t].ttl, eng[t].flow>>] = @ + 1]
    /\ eng' = [eng EXCEPT ![t] = Advance(@)]
    /\ UNCHANGED <<sess, received, timeouts, pending, net, rcvVars, cancelled, drift>>

EngineStep(t) ==
    \/ StartRound(t) \/ CountReached(t) \/ EngineCancelled(t)
    \/ SkipProbe(t) \/ InsertPending(t)
    \/ SendOk(t) \/ SendFailed(t) \/ RecordSent(t)
-----------------------------------------------------------------------------
(* The receiver r: drain the socket, apply the batch, expire old entries. *)

\* remove_pending_by_flow_hint: the entry, if any, that a response with this
\* hint takes when looked up under target t.  Without a hint only a unique
\* candidate will do.
Lookup(t, m) ==
    LET same == {p \in pending : p.tgt = t /\ p.ttl = m.probe.ttl /\ p.seq = m.probe.seq}
    IN  IF m.hint # NoFlow THEN {p \in same : p.flow = m.hint}
        ELSE IF Cardinality(same) = 1 THEN same ELSE {}

\* Mutant: the sessions are tried in any order.
CandidatesOfAny(m) == UNION {Lookup(t, m) : t \in Targets}

\* The entries a response may take: the one under its own target or, when
\* there is none, that of any session, in the map's iteration order.
Candidates(m) ==
    IF Lookup(m.probe.tgt, m) # {} THEN Lookup(m.probe.tgt, m)
    ELSE UNION {Lookup(t, m) : t \in Targets}

\* Mutant: a packet does not end the error streak.
AfterPacketErrorsKept(x) == [x EXCEPT !.count = @ + 1]

\* The counters of the drain loop after a packet.
AfterPacket(x) == [x EXCEPT !.count = @ + 1, !.errors = 0]

\* A packet is received.  The network may deliver it again later.
Receive(r) ==
    /\ rcv[r].pc = "drain"
    /\ rcv[r].count < DrainBatch
    /\ \E m \in net :
        /\ Family[m.probe.tgt] = r
        /\ net' \in {net, net \ {m}}
        /\ \/ /\ Candidates(m) = {}          \* a late reply: not counted
              /\ UNCHANGED <<pending, batch>>
           \/ \E p \in Candidates(m) :
                /\ pending' = pending \ {p}
                /\ batch' = batch \cup {[rcv |-> r, probe |-> p, reply |-> m]}
    /\ rcv' = [rcv EXCEPT ![r] = AfterPacket(@)]
    /\ UNCHANGED <<eng, sess, sent, received, timeouts, expired, cancelled, drift>>

\* The batch is full, or the socket stayed empty for the read timeout.
EndDrain(r) ==
    /\ rcv[r].pc = "drain"
    /\ rcv' = [rcv EXCEPT ![r].pc = "apply", ![r].errors = 0]
    /\ UNCHANGED <<eng, sess, sent, received, timeouts, pending, net, batch, expired,
                   cancelled, drift>>

\* A socket error ends the drain; too many in a row end the thread.
ReceiveError(r) ==
    /\ rcv[r].pc = "drain"
    /\ rcv[r].count < DrainBatch
    /\ rcv' = [rcv EXCEPT ![r].errors = @ + 1,
                          ![r].pc = IF rcv[r].errors + 1 >= MaxErrors THEN "dead" ELSE "apply"]
    /\ UNCHANGED <<eng, sess, sent, received, timeouts, pending, net, batch, expired,
                   cancelled, drift>>

\* Mutant: any echo reply tells the distance of the session it is credited to.
ReachedByAnyEcho(e) == e.reply.echo

\* The responder is the session's own target and answered an echo request.
Reached(e) == e.reply.echo /\ e.reply.probe.tgt = e.probe.tgt

\* One response of the batch, under the lock of its session.  Only an echo
\* reply of the target itself sets dest_ttl, to the smallest TTL seen.
ApplyResponse(r) ==
    /\ rcv[r].pc = "apply"
    /\ \E e \in batch :
        /\ e.rcv = r
        /\ batch' = batch \ {e}
        /\ received' = [received EXCEPT ![Hop(e.probe)] = @ + 1]
        /\ LET t == e.probe.tgt
               d == sess[t].dest
           IN  IF Reached(e) /\ (d = 0 \/ e.reply.probe.ttl < d)
               THEN sess' = [sess EXCEPT ![t].dest = e.reply.probe.ttl]
               ELSE UNCHANGED sess
    /\ UNCHANGED <<eng, sent, timeouts, pending, net, rcv, expired, cancelled, drift>>

BatchDone(r) == \A e \in batch : e.rcv # r

\* Mutants: the entries are dropped from the map and not recorded, or recorded
\* and left in the map.
TakeExpiredUnrecorded(r, S) == pending' = pending \ S /\ UNCHANGED expired
TakeExpiredKeptInMap(r, S) ==
    /\ expired' = expired \cup {[rcv |-> r, probe |-> p] : p \in S}
    /\ UNCHANGED pending

TakeExpired(r, S) ==
    /\ pending' = pending \ S
    /\ expired' = expired \cup {[rcv |-> r, probe |-> p] : p \in S}

\* Sets of entries that one reading of the clock may find older than the
\* timeout: with an entry, everything its engine sent before it.
Older(S) == \A p \in S, q \in pending : q.tgt = p.tgt /\ q.id < p.id => q \in S

\* Mutant: the cleanup is for idle loops, those that received nothing.
ExpireWhenIdle(r, S) ==
    /\ rcv[r].pc = "apply" /\ BatchDone(r)
    /\ ~cancelled
    /\ Older(S)
    /\ rcv[r].count # 0 => S = {}
    /\ TakeExpired(r, S)
    /\ rcv' = [rcv EXCEPT ![r].pc = "expire"]
    /\ UNCHANGED <<eng, sess, sent, received, timeouts, net, batch, cancelled, drift>>

Expire(r, S) ==
    /\ rcv[r].pc = "apply" /\ BatchDone(r)
    /\ ~cancelled
    /\ Older(S)
    /\ TakeExpired(r, S)
    /\ rcv' = [rcv EXCEPT ![r].pc = "expire"]
    /\ UNCHANGED <<eng, sess, sent, received, timeouts, net, batch, cancelled, drift>>

Cleanup(r) == \E S \in SUBSET pending : Expire(r, S)

\* Mutant: the loop goes on after the flush.
FlushPendingGoesOn(r) ==
    /\ rcv[r].pc = "apply" /\ BatchDone(r)
    /\ cancelled
    /\ TakeExpired(r, pending)
    /\ rcv' = [rcv EXCEPT ![r].pc = "expire"]
    /\ UNCHANGED <<eng, sess, sent, received, timeouts, net, batch, cancelled, drift>>

\* Cancelled: whatever is pending, for either family, becomes a timeout.
FlushPending(r) ==
    /\ rcv[r].pc = "apply" /\ BatchDone(r)
    /\ cancelled
    /\ TakeExpired(r, pending)
    /\ rcv' = [rcv EXCEPT ![r].pc = "flush"]
    /\ UNCHANGED <<eng, sess, sent, received, timeouts, net, batch, cancelled, drift>>

\* record_pending_timeouts, one entry, under the lock of its session.
RecordTimeout(r) ==
    /\ rcv[r].pc \in {"expire", "flush"}
    /\ \E e \in expired :
        /\ e.rcv = r
        /\ expired' = expired \ {e}
        /\ timeouts' = [timeouts EXCEPT ![Hop(e.probe)] = @ + 1]
    /\ UNCHANGED <<eng, sess, sent, received, pending, net, rcv, batch, cancelled, drift>>

\* The loop starts over, or the thread returns after the flush.
TimeoutsRecorded(r) ==
    /\ rcv[r].pc \in {"expire", "flush"}
    /\ \A e \in expired : e.rcv # r
    /\ rcv' = [rcv EXCEPT ![r].pc = IF @ = "flush" THEN "done" ELSE "drain", ![r].count = 0]
    /\ UNCHANGED <<eng, sess, sent, received, timeouts, pending, net, batch, expired,
                   cancelled, drift>>

ReceiverStep(r) ==
    \/ Receive(r) \/ EndDrain(r) \/ ReceiveError(r)
    \/ ApplyResponse(r) \/ Cleanup(r) \/ FlushPending(r)
    \/ RecordTimeout(r) \/ TimeoutsRecorded(r)
-----------------------------------------------------------------------------
(* The user. *)

TogglePause(t) ==
    /\ sess' = [sess EXCEPT ![t].paused = ~@]
    /\ UNCHANGED <<eng, sent, received, timeouts, pending, net, rcvVars, cancelled, drift>>

\* reset_stats clears the session and leaves the shared map alone: what is
\* still in flight will complete against counters that never counted it.
ResetStats(t) ==
    LET Clear(f) == [h \in Hops |-> IF h[1] = t THEN 0 ELSE f[h]]
    IN  /\ sent' = Clear(sent) /\ received' = Clear(received) /\ timeouts' = Clear(timeouts)
        /\ drift' = [h \in Hops |-> IF h[1] = t THEN InFlight(h) - InHand(h) ELSE drift[h]]
        /\ sess' = [sess EXCEPT ![t].dest = 0]
        /\ UNCHANGED <<eng, pending, net, rcvVars, cancelled>>

\* Quitting the TUI, Ctrl-C, SIGTERM, or the end of the settle window.
Cancel ==
    /\ cancelled' = TRUE
    /\ UNCHANGED <<eng, sess, sent, received, timeouts, pending, net, rcvVars, drift>>

UserStep == Cancel \/ \E t \in Targets : TogglePause(t) \/ ResetStats(t)

Stopped ==
    /\ \A t \in Targets : eng[t].pc = "stopped"
    /\ \A r \in Receivers : rcv[r].pc \in {"done", "dead"}

Next ==
    \/ \E t \in Targets : EngineStep(t)
    \/ \E r \in Receivers : ReceiverStep(r)
    \/ UserStep

Spec == Init /\ [][Next]_vars

\* A run without a terminal: nobody pauses, resets or interrupts it.
BatchNext ==
    \/ \E t \in Targets : EngineStep(t)
    \/ \E r \in Receivers : ReceiverStep(r)

BatchSpec == Init /\ [][BatchNext]_vars

(* Fairness.  A round that has begun goes on, since every await in it ends   *)
(* by itself; a tick need not come (the session may be paused).  The select! *)
(* of the engine loop does not pass over the cancelled branch for ever.  The *)
(* receiver thread keeps running, and an entry does not stay younger than    *)
(* the timeout: a loop that goes round again and again finds it expired.     *)
MidRound(t) == SkipProbe(t) \/ InsertPending(t) \/ SendOk(t) \/ SendFailed(t) \/ RecordSent(t)

Ids == 0..(Count * MaxTtl * NumFlows - 1)
IsPending(t, i) == \E p \in pending : p.tgt = t /\ p.id = i

FindOld(r, t, i) ==
    \E S \in SUBSET pending : (\E p \in S : p.tgt = t /\ p.id = i) /\ Expire(r, S)

Fairness ==
    /\ \A t \in Targets : WF_vars(MidRound(t)) /\ SF_vars(EngineCancelled(t))
    /\ \A r \in Receivers : WF_vars(ReceiverStep(r))
    /\ \A r \in Receivers, t \in Targets, i \in Ids : SF_vars(FindOld(r, t, i))

LiveSpec == Init /\ [][BatchNext \/ Cancel]_vars /\ Fairness
-----------------------------------------------------------------------------
TypeOK ==
    /\ eng \in [Targets -> EngineRecord]
    /\ sess \in [Targets -> [paused : BOOLEAN, dest : {0} \cup Ttls]]
    /\ sent \in [Hops -> Nat] /\ received \in [Hops -> Nat] /\ timeouts \in [Hops -> Nat]
    /\ pending \subseteq Probe /\ IsFiniteSet(pending)
    /\ net \subseteq Reply
    /\ rcv \in [Receivers -> ReceiverRecord]
    /\ batch \subseteq BatchEntry /\ IsFiniteSet(batch)
    /\ expired \subseteq ExpiredEntry /\ IsFiniteSet(expired)
    /\ cancelled \in BOOLEAN
    /\ drift \in [Hops -> Int]

\* Every probe is accounted for, at every hop and flow and at every instant:
\* what was answered, what timed out and what is in flight add up to what was
\* sent, the probe the engine holds between the map and the counter included.
\* Only a reset, a wrapped sequence number and a failed send whose entry a
\* receiver already took move the balance, by the amount drift records.
Conservation ==
    \A h \in Hops :
        received[h] + timeouts[h] + InFlight(h) = sent[h] + InHand(h) + drift[h]

\* A probe is in one place: taken from the map it is answered or timed out,
\* never both, and by one receiver only.
OnePlace ==
    /\ \A e \in batch : e.probe \notin pending
    /\ \A e \in expired : e.probe \notin pending
    /\ \A e \in batch, f \in expired : e.probe # f.probe
    /\ \A e, f \in batch : e.probe = f.probe => e = f
    /\ \A e, f \in expired : e.probe = f.probe => e = f

\* The map is keyed by target, TTL, flow and sequence number.
UniqueKeys == \A p, q \in pending : SameKey(p, q) => p = q

\* dest_ttl is never below the real distance of the target, whichever entry
\* an echo reply was matched with: engines never stop short of the target.
DestSound == \A t \in Targets : sess[t].dest # 0 => Dist[t] <= sess[t].dest

\* A receiver thread that gives up after too many socket errors takes no
\* response and no timeout with it.
DeadHoldsNothing ==
    \A r \in Receivers : rcv[r].pc = "dead" =>
        /\ \A e \in batch : e.rcv # r
        /\ \A e \in expired : e.rcv # r

\* A response is credited to the target whose probe it answers: sessions of
\* simultaneous targets have independent probe sequences (trace/pending.rs).
NoCrossTarget == \A e \in batch : e.probe.tgt = e.reply.probe.tgt

\* While the entry of the probe a response answers is still in the map, the
\* response takes that entry and no other: not that of another flow when the
\* hint is lost, not that of another target with the same sequence numbers,
\* not that of the probe sent SeqMod rounds before.  (Several targets and a
\* lost hint at once are too much: a response that is ambiguous under its own
\* target is tried on the others.)
OwnEntryFirst == [][
    \A e \in batch' \ batch :
        e.reply.probe \in pending => e.probe = e.reply.probe]_vars

ReceiversReturned == \A r \in Receivers : rcv[r].pc \in {"done", "dead"}

\* Once every engine and every receiver has returned, none of them after a
\* socket failure, no probe is left pending: the flush at shutdown has
\* turned all of them into timeouts.
FlushedAtExit == Stopped /\ (\A r \in Receivers : rcv[r].pc = "done") => pending = {}

\* No probe waits for ever: while a receiver runs, every entry of the map is
\* at some time answered, timed out, flushed, or withdrawn by its engine,
\* whether or not its engine makes progress.
Settles == \A t \in Targets, i \in Ids :
    IsPending(t, i) ~> (~IsPending(t, i) \/ ReceiversReturned)

\* Cancelling the token stops every engine and every receiver, so that the
\* joins at shutdown return.
Terminates == cancelled ~> Stopped
=============================================================================
