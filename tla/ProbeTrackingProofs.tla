------------------------ MODULE ProbeTrackingProofs ------------------------
(***************************************************************************)
(* What holds of ProbeTracking for every number of targets, receivers,     *)
(* hops, flows and rounds.  First the invariant IInv, which is inductive:  *)
(* type correctness, that a probe is in one place only, and that the       *)
(* counters and what is in flight balance.  Then, on top of it, unique     *)
(* keys, sound distances, receivers that fail with empty hands, that a     *)
(* response takes its own entry, and the refinement of ProbeLedger.        *)
(***************************************************************************)
EXTENDS ProbeRefinement, FiniteSetTheorems, TLAPS

USE ConstantsAssumption

\* Every entry was numbered by its engine before the engine's next number.
Fresh ==
    /\ \A p \in pending : p.id < eng[p.tgt].nextId
    /\ \A e \in batch : e.probe.id < eng[e.probe.tgt].nextId
    /\ \A e \in expired : e.probe.id < eng[e.probe.tgt].nextId

\* An engine that holds a probe has numbered it.
Numbered == \A t \in Targets : eng[t].pc \in {"send", "record"} => eng[t].nextId > 0

-----------------------------------------------------------------------------
(* Facts about the operators. *)

\* Tagging the entries taken by a receiver with its name changes neither
\* finiteness nor number.
LEMMA TaggedSet ==
    ASSUME NEW r, NEW S, IsFiniteSet(S)
    PROVE  /\ IsFiniteSet({[rcv |-> r, probe |-> p] : p \in S})
           /\ Cardinality({[rcv |-> r, probe |-> p] : p \in S}) = Cardinality(S)
<1> DEFINE T == {[rcv |-> r, probe |-> p] : p \in S}
           f == [p \in S |-> [rcv |-> r, probe |-> p]]
<1>1. f \in Bijection(S, T)
  <2>1. f \in [S -> T]
    OBVIOUS
  <2>2. \A x, y \in S : f[x] = f[y] => x = y
    OBVIOUS
  <2>3. \A y \in T : \E x \in S : f[x] = y
    OBVIOUS
  <2> QED BY <2>1, <2>2, <2>3 DEF Bijection, Injection, Surjection, IsInjective
<1>2. ExistsBijection(S, T)
  BY <1>1 DEF ExistsBijection
<1> QED BY <1>2, FS_Bijection

\* An engine that has registered its probe is about to send it.
LEMMA InsertedType ==
    ASSUME NEW e \in EngineRecord
    PROVE  LET f == [e EXCEPT !.pc = "send", !.nextId = e.nextId + 1]
           IN  f \in EngineRecord /\ f.pc = "send" /\ f.ttl = e.ttl /\ f.flow = e.flow
<1>1. "send" \in EngineState /\ e.nextId + 1 \in Nat
  BY DEF EngineRecord, EngineState
<1> QED BY <1>1 DEF EngineRecord

\* The engine's next position is a position again.
LEMMA AdvanceType ==
    ASSUME NEW e \in EngineRecord
    PROVE  /\ Advance(e) \in EngineRecord
           /\ Advance(e).pc \in {"insert", "wait"}
           /\ Advance(e).nextId = e.nextId
<1>1. NextSeq(e.seq) \in 0..(SeqMod - 1)
  <2>1. SeqMod \in Int /\ SeqMod > 0 /\ e.seq + 1 \in Int
    BY DEF EngineRecord
  <2> QED BY <2>1 DEF NextSeq
<1>2. CASE e.ttl < e.last
  <2>1. e.ttl + 1 \in Ttls
    BY <1>2 DEF EngineRecord, Ttls
  <2> QED BY <1>2, <2>1 DEF Advance, EngineRecord, EngineState
<1>3. CASE ~(e.ttl < e.last) /\ e.flow + 1 \in Flows
  <2>1. 1 \in Ttls
    BY DEF Ttls
  <2> QED BY <1>3, <2>1 DEF Advance, EngineRecord, EngineState
<1>4. CASE ~(e.ttl < e.last) /\ e.flow + 1 \notin Flows
  <2>1. Advance(e) = [e EXCEPT !.pc = "wait", !.seq = NextSeq(e.seq), !.rounds = e.rounds + 1]
    BY <1>4 DEF Advance
  <2>2. e.rounds + 1 \in Nat /\ "wait" \in EngineState
    BY DEF EngineRecord, EngineState
  <2> QED BY <2>1, <2>2, <1>1 DEF EngineRecord
<1> QED BY <1>2, <1>3, <1>4

\* What the engine inserts is a probe.
LEMMA CurrentProbeType ==
    ASSUME TypeOK, NEW t \in Targets
    PROVE  /\ CurrentProbe(t) \in Probe
           /\ Hop(CurrentProbe(t)) = <<t, eng[t].ttl, eng[t].flow>>
           /\ Hop(CurrentProbe(t)) \in Hops
           /\ eng[t].nextId > 0 => LastProbe(t) \in Probe
           /\ Hop(LastProbe(t)) = <<t, eng[t].ttl, eng[t].flow>>
<1>1. eng[t] \in EngineRecord
  BY DEF TypeOK
<1>2. eng[t].ttl \in Ttls /\ eng[t].flow \in Flows /\ eng[t].seq \in 0..(SeqMod - 1)
      /\ eng[t].nextId \in Nat
  BY <1>1 DEF EngineRecord
<1>3. CurrentProbe(t) \in Probe
  BY <1>2 DEF CurrentProbe, Probe
<1>4. LastProbe(t) = [tgt |-> t, ttl |-> eng[t].ttl, flow |-> eng[t].flow,
                      seq |-> eng[t].seq, id |-> eng[t].nextId - 1]
  BY DEF LastProbe, CurrentProbe
<1>5. eng[t].nextId > 0 => LastProbe(t) \in Probe
  BY <1>2, <1>4 DEF Probe
<1>6. /\ Hop(CurrentProbe(t)) = <<t, eng[t].ttl, eng[t].flow>>
      /\ Hop(LastProbe(t)) = <<t, eng[t].ttl, eng[t].flow>>
  BY <1>4 DEF Hop, CurrentProbe
<1>7. Hop(CurrentProbe(t)) \in Hops
  BY <1>2, <1>6 DEF Hops
<1> QED BY <1>3, <1>5, <1>6, <1>7

\* The network's answers are replies.
LEMMA AnswersType == ASSUME NEW p \in Probe PROVE Answers(p) \subseteq Reply
<1> DEFINE Echo == Icmp /\ p.ttl >= Dist[p.tgt]
           Answer(h) == [probe |-> p, echo |-> Echo, hint |-> h]
<1>1. p.flow \in Flows
  BY DEF Probe
<1>2. Echo \in BOOLEAN
  OBVIOUS
<1>3. Answers(p) \subseteq {Answer(h) : h \in {p.flow, NoFlow}}
  BY DEF Answers
<1> HIDE DEF Echo
<1>4. \A h \in {p.flow, NoFlow} : Answer(h) \in Reply
  BY <1>1, <1>2 DEF Reply
<1> QED BY <1>3, <1>4

LEMMA ZeroInRange == 0 \in 0..DrainBatch /\ 0 \in 0..MaxErrors
OBVIOUS

LEMMA HopType == \A p \in Probe : Hop(p) \in Hops
BY DEF Probe, Hop, Hops

LEMMA CandidatesPending == \A m : Candidates(m) \subseteq pending
BY DEF Candidates, Lookup

LEMMA HopTriple == \A h \in Hops : h = <<h[1], h[2], h[3]>> /\ h[1] \in Targets
BY DEF Hops

\* An entry taken from the map as expired.
LEMMA TakeExpiredType ==
    ASSUME TypeOK, NEW r \in Receivers, NEW S \in SUBSET pending, TakeExpired(r, S)
    PROVE  /\ pending' \subseteq Probe /\ IsFiniteSet(pending')
           /\ expired' \subseteq ExpiredEntry /\ IsFiniteSet(expired')
<1>1. IsFiniteSet(S)
  BY FS_Subset DEF TypeOK
<1>2. IsFiniteSet({[rcv |-> r, probe |-> p] : p \in S})
  BY <1>1, TaggedSet
<1>3. IsFiniteSet(pending') /\ IsFiniteSet(expired')
  BY <1>2, FS_Subset, FS_Union DEF TypeOK, TakeExpired
<1>4. pending' \subseteq Probe /\ expired' \subseteq ExpiredEntry
  BY DEF TypeOK, TakeExpired, ExpiredEntry
<1> QED BY <1>3, <1>4

-----------------------------------------------------------------------------
(* Type correctness. *)

LEMMA TypeInit == Init => TypeOK /\ Numbered
<1> SUFFICES ASSUME Init PROVE TypeOK /\ Numbered
  OBVIOUS
<1>1. 1 \in Ttls /\ MaxTtl \in Ttls /\ 0 \in Flows /\ 0 \in 0..(SeqMod - 1)
  BY DEF Ttls, Flows
<1>2. eng \in [Targets -> EngineRecord]
  BY <1>1 DEF Init, EngineRecord, EngineState
<1>3. IsFiniteSet({})
  BY FS_EmptySet
<1>4. rcv \in [Receivers -> ReceiverRecord]
  BY ZeroInRange DEF Init, ReceiverState, ReceiverRecord
<1>5. /\ sess \in [Targets -> [paused : BOOLEAN, dest : {0} \cup Ttls]]
      /\ sent \in [Hops -> Nat] /\ received \in [Hops -> Nat] /\ timeouts \in [Hops -> Nat]
  BY DEF Init
<1>7. drift \in [Hops -> Int]
  <2>1. drift = [h \in Hops |-> 0] /\ 0 \in Int
    BY DEF Init
  <2> QED BY <2>1
<1>8. cancelled \in BOOLEAN
  BY DEF Init
<1>6. Numbered
  BY DEF Init, Numbered
<1> QED BY <1>2, <1>3, <1>4, <1>5, <1>6, <1>7, <1>8 DEF TypeOK, Init

\* The engine's half of the step.
LEMMA TypeEngine ==
    ASSUME TypeOK, Numbered, NEW t \in Targets, EngineStep(t)
    PROVE  TypeOK' /\ Numbered'
<1>0. eng[t] \in EngineRecord /\ sess[t] \in [paused : BOOLEAN, dest : {0} \cup Ttls]
  BY DEF TypeOK
<1> USE <1>0
<1> DEFINE p == CurrentProbe(t)
           q == LastProbe(t)
<1>1. CASE StartRound(t)
  <2>1. 1 \in Ttls /\ MaxTtl \in Ttls /\ 0 \in Flows
    BY DEF Ttls, Flows
  <2>2. (IF sess[t].dest = 0 THEN MaxTtl ELSE sess[t].dest) \in Ttls
    BY <2>1
  <2>3. eng'[t] \in EngineRecord /\ eng'[t].pc = "insert"
    BY <1>1, <2>1, <2>2 DEF StartRound, TypeOK, EngineRecord, EngineState
  <2> QED BY <1>1, <2>3 DEF StartRound, TypeOK, Numbered, rcvVars
<1>2. CASE CountReached(t)
  <2>1. eng'[t] \in EngineRecord /\ eng'[t].pc = "stopped"
    BY <1>2 DEF CountReached, TypeOK, EngineRecord, EngineState
  <2> QED BY <1>2, <2>1 DEF CountReached, TypeOK, Numbered, rcvVars
<1>3. CASE EngineCancelled(t)
  <2>1. eng'[t] \in EngineRecord /\ eng'[t].pc = "stopped"
    BY <1>3 DEF EngineCancelled, TypeOK, EngineRecord, EngineState
  <2> QED BY <1>3, <2>1 DEF EngineCancelled, TypeOK, Numbered, rcvVars
<1>4. CASE SkipProbe(t)
  BY <1>4, AdvanceType DEF SkipProbe, TypeOK, Numbered, rcvVars
<1>5. CASE InsertPending(t)
  <2>1. eng'[t] \in EngineRecord /\ eng'[t].nextId > 0
    BY <1>5 DEF InsertPending, TypeOK, EngineRecord, EngineState
  <2>2. p \in Probe /\ Hop(p) \in Hops
    BY CurrentProbeType
  <2>3. IsFiniteSet(SameKeyEntries(p)) /\ IsFiniteSet(pending \ SameKeyEntries(p))
    BY FS_Subset DEF TypeOK, SameKeyEntries
  <2>4. pending' \subseteq Probe /\ IsFiniteSet(pending')
    BY <1>5, <2>2, <2>3, FS_AddElement, ZenonT(60) DEF InsertPending, TypeOK
  <2>5. drift' \in [Hops -> Int]
    <3>1. Cardinality(SameKeyEntries(p)) \in Nat
      BY <2>3, FS_CardinalityType
    <3>2. drift' = [drift EXCEPT ![Hop(p)] = @ - Cardinality(SameKeyEntries(p))]
      BY <1>5 DEF InsertPending
    <3> QED BY <3>1, <3>2, <2>2 DEF TypeOK
  <2> QED BY <1>5, <2>1, <2>4, <2>5 DEF InsertPending, TypeOK, Numbered, rcvVars
<1>6. CASE SendOk(t)
  <2>1. eng'[t] \in EngineRecord /\ eng'[t].nextId = eng[t].nextId
    BY <1>6 DEF SendOk, TypeOK, EngineRecord, EngineState
  <2>2. q \in Probe
    BY <1>6, CurrentProbeType DEF SendOk, Numbered
  <2>3. Answers(q) \subseteq Reply
    BY <2>2, AnswersType
  <2>4. net' \subseteq Reply
    BY <1>6, <2>3 DEF SendOk, TypeOK
  <2> QED BY <1>6, <2>1, <2>4 DEF SendOk, TypeOK, Numbered, rcvVars
<1>7. CASE SendFailed(t)
  <2>1. Hop(q) \in Hops
    BY CurrentProbeType
  <2>2. IsFiniteSet(SameKeyEntries(q)) /\ IsFiniteSet(pending \ SameKeyEntries(q))
    BY FS_Subset DEF TypeOK, SameKeyEntries
  <2>3. pending' \subseteq Probe /\ IsFiniteSet(pending')
    BY <1>7, <2>2 DEF SendFailed, TypeOK
  <2>4. drift' \in [Hops -> Int]
    <3>1. Cardinality(SameKeyEntries(q)) \in Nat
      BY <2>2, FS_CardinalityType
    <3>2. drift' = [drift EXCEPT ![Hop(q)] = @ + 1 - Cardinality(SameKeyEntries(q))]
      BY <1>7 DEF SendFailed
    <3> QED BY <3>1, <3>2, <2>1 DEF TypeOK
  <2> QED BY <1>7, <2>3, <2>4, AdvanceType DEF SendFailed, TypeOK, Numbered, rcvVars
<1>8. CASE RecordSent(t)
  <2>1. <<t, eng[t].ttl, eng[t].flow>> \in Hops
    BY CurrentProbeType
  <2>2. sent' \in [Hops -> Nat]
    BY <1>8, <2>1 DEF RecordSent, TypeOK
  <2> QED BY <1>8, <2>2, AdvanceType DEF RecordSent, TypeOK, Numbered, rcvVars
<1> QED BY <1>1, <1>2, <1>3, <1>4, <1>5, <1>6, <1>7, <1>8 DEF EngineStep

\* The receiver's half.
LEMMA TypeReceiver ==
    ASSUME TypeOK, Numbered, NEW r \in Receivers, ReceiverStep(r)
    PROVE  TypeOK' /\ Numbered'
<1>0. rcv \in [Receivers -> ReceiverRecord] /\ rcv[r] \in ReceiverRecord
  BY DEF TypeOK
<1> USE ZeroInRange
<1>1. CASE Receive(r)
  <2>1. PICK m \in net :
          /\ \/ UNCHANGED <<pending, batch>>
             \/ \E p \in Candidates(m) :
                  /\ pending' = pending \ {p}
                  /\ batch' = batch \cup {[rcv |-> r, probe |-> p, reply |-> m]}
          /\ net' \in {net, net \ {m}}
    BY <1>1 DEF Receive
  <2>2. rcv' \in [Receivers -> ReceiverRecord]
    <3>1. rcv[r].count + 1 \in 0..DrainBatch
      BY <1>0, <1>1 DEF Receive, ReceiverRecord
    <3>2. rcv' = [rcv EXCEPT ![r] = AfterPacket(rcv[r])]
      BY <1>1 DEF Receive
    <3> QED BY <1>0, <3>1, <3>2 DEF AfterPacket, ReceiverRecord
  <2>3. \A p \in Candidates(m) : [rcv |-> r, probe |-> p, reply |-> m] \in BatchEntry
    BY CandidatesPending DEF TypeOK, BatchEntry
  <2>4. CASE UNCHANGED <<pending, batch>>
    BY <2>4, <2>1, <2>2, <1>1 DEF Receive, TypeOK, Numbered
  <2>5. ASSUME NEW p \in Candidates(m), pending' = pending \ {p},
               batch' = batch \cup {[rcv |-> r, probe |-> p, reply |-> m]}
        PROVE  TypeOK' /\ Numbered'
    <3>1. pending' \subseteq Probe /\ IsFiniteSet(pending')
      BY <2>5, FS_Subset DEF TypeOK
    <3>2. batch' \subseteq BatchEntry /\ IsFiniteSet(batch')
      <4> DEFINE e == [rcv |-> r, probe |-> p, reply |-> m]
      <4>1. e \in BatchEntry
        BY <2>3, <2>5
      <4>2. batch' = batch \cup {e}
        BY <2>5
      <4> HIDE DEF e
      <4>3. IsFiniteSet(batch \cup {e})
        BY FS_AddElement DEF TypeOK
      <4> QED BY <4>1, <4>2, <4>3 DEF TypeOK
    <3> QED BY <1>1, <2>1, <2>2, <3>1, <3>2 DEF Receive, TypeOK, Numbered
  <2> QED BY <2>1, <2>4, <2>5
<1>2. CASE EndDrain(r)
  <2>1. rcv' \in [Receivers -> ReceiverRecord]
    BY <1>0, <1>2 DEF EndDrain, ReceiverState, ReceiverRecord
  <2> QED BY <1>2, <2>1 DEF EndDrain, TypeOK, Numbered
<1>3. CASE ReceiveError(r)
  <2>1. rcv[r].errors + 1 \in 0..MaxErrors
    BY <1>0, <1>3 DEF ReceiveError, ReceiverRecord
  <2>2. rcv' \in [Receivers -> ReceiverRecord]
    BY <1>0, <1>3, <2>1 DEF ReceiveError, ReceiverState, ReceiverRecord
  <2> QED BY <1>3, <2>2 DEF ReceiveError, TypeOK, Numbered
<1>4. CASE ApplyResponse(r)
  <2>1. PICK e \in batch :
          /\ batch' = batch \ {e}
          /\ received' = [received EXCEPT ![Hop(e.probe)] = @ + 1]
          /\ \/ UNCHANGED sess
             \/ sess' = [sess EXCEPT ![e.probe.tgt].dest = e.reply.probe.ttl]
    BY <1>4 DEF ApplyResponse
  <2>2. e.probe \in Probe /\ e.reply.probe \in Probe
    BY DEF TypeOK, BatchEntry, Reply
  <2>3. received' \in [Hops -> Nat]
    BY <2>1, <2>2, HopType DEF TypeOK
  <2>4. e.reply.probe.ttl \in Ttls /\ e.probe.tgt \in Targets
    BY <2>2 DEF Probe
  <2>5. sess' \in [Targets -> [paused : BOOLEAN, dest : {0} \cup Ttls]]
    BY <2>1, <2>4, SMTT(30) DEF TypeOK
  <2>6. batch' \subseteq BatchEntry /\ IsFiniteSet(batch')
    BY <2>1, FS_Subset DEF TypeOK
  <2> QED BY <1>4, <2>3, <2>5, <2>6 DEF ApplyResponse, TypeOK, Numbered
<1>5. CASE Cleanup(r)
  <2>1. PICK S \in SUBSET pending : Expire(r, S)
    BY <1>5 DEF Cleanup
  <2>2. rcv' \in [Receivers -> ReceiverRecord]
    BY <1>0, <2>1 DEF Expire, ReceiverState, ReceiverRecord
  <2>3. TakeExpired(r, S)
    BY <2>1 DEF Expire
  <2> QED BY <2>1, <2>2, <2>3, TakeExpiredType DEF Expire, TypeOK, Numbered
<1>6. CASE FlushPending(r)
  <2>1. rcv' \in [Receivers -> ReceiverRecord]
    BY <1>0, <1>6 DEF FlushPending, ReceiverState, ReceiverRecord
  <2>2. TakeExpired(r, pending)
    BY <1>6 DEF FlushPending
  <2>3. /\ pending' \subseteq Probe /\ IsFiniteSet(pending')
        /\ expired' \subseteq ExpiredEntry /\ IsFiniteSet(expired')
    BY <2>2, TakeExpiredType
  <2> QED BY <1>6, <2>1, <2>3 DEF FlushPending, TypeOK, Numbered
<1>7. CASE RecordTimeout(r)
  <2>1. PICK e \in expired :
          /\ expired' = expired \ {e}
          /\ timeouts' = [timeouts EXCEPT ![Hop(e.probe)] = @ + 1]
    BY <1>7 DEF RecordTimeout
  <2>2. e.probe \in Probe
    BY DEF TypeOK, ExpiredEntry
  <2>3. timeouts' \in [Hops -> Nat]
    BY <2>1, <2>2, HopType DEF TypeOK
  <2>4. expired' \subseteq ExpiredEntry /\ IsFiniteSet(expired')
    BY <2>1, FS_Subset DEF TypeOK
  <2> QED BY <1>7, <2>3, <2>4 DEF RecordTimeout, TypeOK, Numbered
<1>8. CASE TimeoutsRecorded(r)
  <2>1. rcv' \in [Receivers -> ReceiverRecord]
    BY <1>0, <1>8 DEF TimeoutsRecorded, ReceiverState, ReceiverRecord
  <2> QED BY <1>8, <2>1 DEF TimeoutsRecorded, TypeOK, Numbered
<1> QED BY <1>1, <1>2, <1>3, <1>4, <1>5, <1>6, <1>7, <1>8 DEF ReceiverStep

\* What is in flight at a hop is a number of entries.
LEMMA InFlightType ==
    ASSUME TypeOK, NEW h
    PROVE  /\ IsFiniteSet(PendingAt(h)) /\ Cardinality(PendingAt(h)) \in Nat
           /\ IsFiniteSet(BatchAt(h)) /\ Cardinality(BatchAt(h)) \in Nat
           /\ IsFiniteSet(ExpiredAt(h)) /\ Cardinality(ExpiredAt(h)) \in Nat
           /\ InFlight(h) \in Nat /\ InHand(h) \in {0, 1}
<1>1. IsFiniteSet(PendingAt(h)) /\ IsFiniteSet(BatchAt(h)) /\ IsFiniteSet(ExpiredAt(h))
  BY FS_Subset DEF TypeOK, PendingAt, BatchAt, ExpiredAt
<1>2. /\ Cardinality(PendingAt(h)) \in Nat /\ Cardinality(BatchAt(h)) \in Nat
      /\ Cardinality(ExpiredAt(h)) \in Nat
  BY <1>1, FS_CardinalityType
<1> QED BY <1>1, <1>2 DEF InFlight, InHand

\* The user's half.
LEMMA TypeUser ==
    ASSUME TypeOK, Numbered, UserStep
    PROVE  TypeOK' /\ Numbered'
<1>1. CASE Cancel
  BY <1>1 DEF Cancel, TypeOK, Numbered, rcvVars
<1>2. ASSUME NEW t \in Targets, TogglePause(t)
      PROVE  TypeOK' /\ Numbered'
  BY <1>2 DEF TogglePause, TypeOK, Numbered, rcvVars
<1>3. ASSUME NEW t \in Targets, ResetStats(t)
      PROVE  TypeOK' /\ Numbered'
  <2>1. /\ sent' \in [Hops -> Nat] /\ received' \in [Hops -> Nat]
        /\ timeouts' \in [Hops -> Nat]
    BY <1>3 DEF ResetStats, TypeOK
  <2>2. drift' \in [Hops -> Int]
    BY <1>3, InFlightType DEF ResetStats, TypeOK
  <2>3. sess' \in [Targets -> [paused : BOOLEAN, dest : {0} \cup Ttls]]
    BY <1>3 DEF ResetStats, TypeOK
  <2> QED BY <1>3, <2>1, <2>2, <2>3 DEF ResetStats, TypeOK, Numbered, rcvVars
<1> QED BY <1>1, <1>2, <1>3 DEF UserStep

LEMMA TypeStep == TypeOK /\ Numbered /\ [Next]_vars => TypeOK' /\ Numbered'
<1> SUFFICES ASSUME TypeOK, Numbered, [Next]_vars PROVE TypeOK' /\ Numbered'
  OBVIOUS
<1>1. CASE UNCHANGED vars
  BY <1>1 DEF vars, TypeOK, Numbered
<1>2. CASE Next
  BY <1>2, TypeEngine, TypeReceiver, TypeUser DEF Next
<1> QED BY <1>1, <1>2

\* Every counter, every entry of the map, every queued response and every
\* control state stays in its range, for any number of targets and rounds.
THEOREM TypeCorrect == Spec => []TypeOK
<1>1. Init => TypeOK /\ Numbered
  BY TypeInit
<1>2. TypeOK /\ Numbered /\ [Next]_vars => TypeOK' /\ Numbered'
  BY TypeStep
<1> QED BY <1>1, <1>2, PTL DEF Spec

-----------------------------------------------------------------------------
(* One place. *)

\* An engine's number only grows, and only insertions use it up.
LEMMA EngineEntries ==
    ASSUME TypeOK, NEW t \in Targets, EngineStep(t)
    PROVE  /\ UNCHANGED <<batch, expired>>
           /\ \A u \in Targets : eng'[u].nextId \in {eng[u].nextId, eng[u].nextId + 1}
           /\ \/ pending' \subseteq pending
              \/ /\ pending' \subseteq pending \cup {CurrentProbe(t)}
                 /\ eng'[t].nextId = eng[t].nextId + 1
<1>1. UNCHANGED <<batch, expired>>
  BY DEF EngineStep, StartRound, CountReached, EngineCancelled, SkipProbe, InsertPending,
         SendOk, SendFailed, RecordSent, rcvVars
<1>2. \A u \in Targets : eng[u] \in EngineRecord /\ eng[u].nextId \in Nat
  BY DEF TypeOK, EngineRecord
<1>3. CASE InsertPending(t)
  <2>1. pending' \subseteq pending \cup {CurrentProbe(t)}
    BY <1>3 DEF InsertPending
  <2>2. eng' = [eng EXCEPT ![t].pc = "send", ![t].nextId = eng[t].nextId + 1]
    BY <1>3 DEF InsertPending
  <2>3. eng'[t].nextId = eng[t].nextId + 1
    BY <2>2, <1>2 DEF TypeOK, EngineRecord
  <2>4. \A u \in Targets : eng'[u].nextId \in {eng[u].nextId, eng[u].nextId + 1}
    BY <2>2, <2>3, <1>2 DEF TypeOK
  <2> QED BY <1>1, <2>1, <2>3, <2>4
<1>4. CASE SkipProbe(t) \/ SendFailed(t) \/ RecordSent(t)
  <2>1. eng' = [eng EXCEPT ![t] = Advance(eng[t])] /\ pending' \subseteq pending
    BY <1>4 DEF SkipProbe, SendFailed, RecordSent
  <2>2. eng'[t].nextId = eng[t].nextId
    BY <2>1, <1>2, AdvanceType DEF TypeOK
  <2> QED BY <1>1, <1>2, <2>1, <2>2 DEF TypeOK
<1>5. CASE StartRound(t) \/ CountReached(t) \/ EngineCancelled(t) \/ SendOk(t)
  <2>1. pending' = pending
    BY <1>5 DEF StartRound, CountReached, EngineCancelled, SendOk
  <2>2. \A u \in Targets : eng'[u].nextId = eng[u].nextId
    <3>1. eng'[t].nextId = eng[t].nextId /\ \A u \in Targets \ {t} : eng'[u] = eng[u]
      <4>1. CASE StartRound(t)
        BY <4>1, <1>2 DEF StartRound, TypeOK, EngineRecord
      <4>2. CASE CountReached(t) \/ EngineCancelled(t) \/ SendOk(t)
        BY <4>2, <1>2 DEF CountReached, EngineCancelled, SendOk, TypeOK, EngineRecord
      <4> QED BY <1>5, <4>1, <4>2
    <3> QED BY <3>1
  <2> QED BY <1>1, <1>2, <2>1, <2>2
<1> QED BY <1>3, <1>4, <1>5 DEF EngineStep

\* A receiver puts into its batch, or takes as expired, only what was pending
\* and no longer is.
LEMMA ReceiverEntries ==
    ASSUME NEW r \in Receivers, ReceiverStep(r)
    PROVE  /\ UNCHANGED eng
           /\ pending' \subseteq pending
           /\ \A e \in batch' \ batch :
                /\ e.probe \in pending /\ e.probe \notin pending'
                /\ \A f \in batch' \ batch : e = f
           /\ \A e \in expired' \ expired :
                /\ e.probe \in pending /\ e.probe \notin pending'
                /\ \A f \in expired' \ expired : e.probe = f.probe => e = f
           /\ batch' = batch \/ expired' = expired
<1>1. UNCHANGED eng
  BY DEF ReceiverStep, Receive, EndDrain, ReceiveError, ApplyResponse, Cleanup, Expire,
         FlushPending, RecordTimeout, TimeoutsRecorded
<1>2. CASE Receive(r)
  <2>1. PICK m \in net :
          \/ UNCHANGED <<pending, batch>>
          \/ \E p \in Candidates(m) :
               /\ pending' = pending \ {p}
               /\ batch' = batch \cup {[rcv |-> r, probe |-> p, reply |-> m]}
    BY <1>2 DEF Receive
  <2>2. expired' = expired
    BY <1>2 DEF Receive
  <2> QED BY <1>1, <2>1, <2>2, CandidatesPending
<1>3. ASSUME NEW S \in SUBSET pending, TakeExpired(r, S), batch' = batch
      PROVE  /\ pending' \subseteq pending
             /\ \A e \in expired' \ expired :
                  /\ e.probe \in pending /\ e.probe \notin pending'
                  /\ \A f \in expired' \ expired : e.probe = f.probe => e = f
  BY <1>3 DEF TakeExpired
<1>4. CASE Cleanup(r)
  <2>1. PICK S \in SUBSET pending : Expire(r, S)
    BY <1>4 DEF Cleanup
  <2>2. TakeExpired(r, S) /\ batch' = batch
    BY <2>1 DEF Expire
  <2> QED BY <1>1, <1>3, <2>2
<1>5. CASE FlushPending(r)
  <2>1. TakeExpired(r, pending) /\ batch' = batch
    BY <1>5 DEF FlushPending
  <2> QED BY <1>1, <1>3, <2>1
<1>6. CASE EndDrain(r) \/ ReceiveError(r) \/ ApplyResponse(r) \/ RecordTimeout(r)
           \/ TimeoutsRecorded(r)
  <2>1. /\ pending' = pending /\ batch' \subseteq batch /\ expired' \subseteq expired
        /\ batch' = batch \/ expired' = expired
    BY <1>6 DEF EndDrain, ReceiveError, ApplyResponse, RecordTimeout, TimeoutsRecorded
  <2> QED BY <1>1, <2>1
<1> QED BY <1>2, <1>4, <1>5, <1>6 DEF ReceiverStep

LEMMA OnePlaceStep ==
    TypeOK /\ Fresh /\ OnePlace /\ [Next]_vars => Fresh' /\ OnePlace'
<1> SUFFICES ASSUME TypeOK, Fresh, OnePlace, [Next]_vars PROVE Fresh' /\ OnePlace'
  OBVIOUS
<1>0. /\ \A p \in pending : p.tgt \in Targets /\ p.id \in Nat
      /\ \A e \in batch : e.probe.tgt \in Targets /\ e.probe.id \in Nat
      /\ \A e \in expired : e.probe.tgt \in Targets /\ e.probe.id \in Nat
  BY DEF TypeOK, BatchEntry, ExpiredEntry, Probe
<1>1. ASSUME NEW t \in Targets, EngineStep(t) PROVE Fresh' /\ OnePlace'
  <2>1. /\ batch' = batch /\ expired' = expired
        /\ \A u \in Targets : eng'[u].nextId \in {eng[u].nextId, eng[u].nextId + 1}
    BY <1>1, EngineEntries
  <2>2. \A u \in Targets : eng[u].nextId \in Nat /\ eng'[u].nextId \in Nat
    BY <1>1, EngineEntries DEF TypeOK, EngineRecord
  <2> DEFINE p == CurrentProbe(t)
  <2>3. p.tgt = t /\ p.id = eng[t].nextId
    BY DEF CurrentProbe
  <2>4. \/ pending' \subseteq pending
        \/ pending' \subseteq pending \cup {p} /\ eng'[t].nextId = eng[t].nextId + 1
    BY <1>1, EngineEntries
  <2> HIDE DEF p
  <2>5. Fresh'
    BY <1>0, <2>1, <2>2, <2>3, <2>4 DEF Fresh
  <2>6. /\ \A e \in batch : e.probe # p
        /\ \A e \in expired : e.probe # p
    BY <1>0, <2>2, <2>3 DEF Fresh
  <2>7. OnePlace'
    BY <2>1, <2>4, <2>6 DEF OnePlace
  <2> QED BY <2>5, <2>7
<1>2. ASSUME NEW r \in Receivers, ReceiverStep(r) PROVE Fresh' /\ OnePlace'
  <2>1. Fresh'
    BY <1>2, ReceiverEntries DEF Fresh
  <2>2. OnePlace'
    BY <1>2, ReceiverEntries DEF OnePlace
  <2> QED BY <2>1, <2>2
<1>3. CASE UserStep
  BY <1>3 DEF UserStep, Cancel, TogglePause, ResetStats, rcvVars, Fresh, OnePlace
<1>4. CASE UNCHANGED vars
  BY <1>4 DEF vars, Fresh, OnePlace
<1> QED BY <1>1, <1>2, <1>3, <1>4 DEF Next

-----------------------------------------------------------------------------
(* The balance of the counters. *)

\* What one hop has in flight when an entry leaves the map, is put in the
\* batch, is applied, or is recorded as a timeout.
LEMMA PendingLeaves ==
    ASSUME TypeOK, NEW h, NEW p \in pending, pending' = pending \ {p}
    PROVE  Cardinality(PendingAt(h)') =
              IF Hop(p) = h THEN Cardinality(PendingAt(h)) - 1 ELSE Cardinality(PendingAt(h))
<1>1. IsFiniteSet(PendingAt(h))
  BY InFlightType
<1>2. CASE Hop(p) = h
  <2>1. PendingAt(h)' = PendingAt(h) \ {p} /\ p \in PendingAt(h)
    BY <1>2 DEF PendingAt
  <2>2. Cardinality(PendingAt(h) \ {p}) = Cardinality(PendingAt(h)) - 1
    BY <1>1, <2>1, FS_RemoveElement
  <2> QED BY <1>2, <2>1, <2>2
<1>3. CASE Hop(p) # h
  <2>1. PendingAt(h)' = PendingAt(h)
    BY <1>3 DEF PendingAt
  <2> QED BY <1>3, <2>1
<1> QED BY <1>2, <1>3

LEMMA BatchGrows ==
    ASSUME TypeOK, NEW h, NEW e, e \notin batch, batch' = batch \cup {e}
    PROVE  Cardinality(BatchAt(h)') =
              IF Hop(e.probe) = h THEN Cardinality(BatchAt(h)) + 1 ELSE Cardinality(BatchAt(h))
<1>1. IsFiniteSet(BatchAt(h))
  BY InFlightType
<1>2. CASE Hop(e.probe) = h
  <2>1. BatchAt(h)' = BatchAt(h) \cup {e} /\ e \notin BatchAt(h)
    BY <1>2 DEF BatchAt
  <2> QED BY <1>1, <1>2, <2>1, FS_AddElement
<1>3. CASE Hop(e.probe) # h
  <2>1. BatchAt(h)' = BatchAt(h)
    BY <1>3 DEF BatchAt
  <2> QED BY <1>3, <2>1
<1> QED BY <1>2, <1>3

LEMMA BatchLeaves ==
    ASSUME TypeOK, NEW h, NEW e \in batch, batch' = batch \ {e}
    PROVE  Cardinality(BatchAt(h)') =
              IF Hop(e.probe) = h THEN Cardinality(BatchAt(h)) - 1 ELSE Cardinality(BatchAt(h))
<1>1. IsFiniteSet(BatchAt(h))
  BY InFlightType
<1>2. CASE Hop(e.probe) = h
  <2>1. BatchAt(h)' = BatchAt(h) \ {e} /\ e \in BatchAt(h)
    BY <1>2 DEF BatchAt
  <2>2. Cardinality(BatchAt(h) \ {e}) = Cardinality(BatchAt(h)) - 1
    BY <1>1, <2>1, FS_RemoveElement
  <2> QED BY <1>2, <2>1, <2>2
<1>3. CASE Hop(e.probe) # h
  <2>1. BatchAt(h)' = BatchAt(h)
    BY <1>3 DEF BatchAt
  <2> QED BY <1>3, <2>1
<1> QED BY <1>2, <1>3

LEMMA ExpiredLeaves ==
    ASSUME TypeOK, NEW h, NEW e \in expired, expired' = expired \ {e}
    PROVE  Cardinality(ExpiredAt(h)') =
              IF Hop(e.probe) = h THEN Cardinality(ExpiredAt(h)) - 1
                                  ELSE Cardinality(ExpiredAt(h))
<1>1. IsFiniteSet(ExpiredAt(h))
  BY InFlightType
<1>2. CASE Hop(e.probe) = h
  <2>1. ExpiredAt(h)' = ExpiredAt(h) \ {e} /\ e \in ExpiredAt(h)
    BY <1>2 DEF ExpiredAt
  <2>2. Cardinality(ExpiredAt(h) \ {e}) = Cardinality(ExpiredAt(h)) - 1
    BY <1>1, <2>1, FS_RemoveElement
  <2> QED BY <1>2, <2>1, <2>2
<1>3. CASE Hop(e.probe) # h
  <2>1. ExpiredAt(h)' = ExpiredAt(h)
    BY <1>3 DEF ExpiredAt
  <2> QED BY <1>3, <2>1
<1> QED BY <1>2, <1>3

\* Expiry moves entries of a hop from the map to the expired ones.
LEMMA ExpiryMoves ==
    ASSUME TypeOK, OnePlace, NEW r, NEW S \in SUBSET pending, TakeExpired(r, S), NEW h
    PROVE  Cardinality(PendingAt(h)') + Cardinality(ExpiredAt(h)') =
              Cardinality(PendingAt(h)) + Cardinality(ExpiredAt(h))
<1> DEFINE Moved == {p \in S : Hop(p) = h}
           Tagged == {[rcv |-> r, probe |-> p] : p \in Moved}
<1>1. IsFiniteSet(PendingAt(h)) /\ IsFiniteSet(ExpiredAt(h)) /\ Moved \subseteq PendingAt(h)
  BY InFlightType DEF PendingAt
<1>2. IsFiniteSet(Moved) /\ Cardinality(Moved) \in Nat
  BY <1>1, FS_Subset, FS_CardinalityType
<1>3. IsFiniteSet(Tagged) /\ Cardinality(Tagged) = Cardinality(Moved)
  <2> HIDE DEF Moved
  <2> QED BY <1>2, TaggedSet
<1>4. PendingAt(h)' = PendingAt(h) \ Moved /\ PendingAt(h) \cap Moved = Moved
  BY DEF PendingAt, TakeExpired
<1>5. ExpiredAt(h)' = ExpiredAt(h) \cup Tagged
  BY DEF ExpiredAt, TakeExpired
<1>6. ExpiredAt(h) \cap Tagged = {}
  BY DEF ExpiredAt, OnePlace
<1>7. Cardinality(PendingAt(h)) \in Nat /\ Cardinality(ExpiredAt(h)) \in Nat
  BY InFlightType
<1> HIDE DEF Moved, Tagged
<1>8. Cardinality(PendingAt(h)') = Cardinality(PendingAt(h)) - Cardinality(Moved)
  BY <1>1, <1>4, FS_Difference
<1>9. Cardinality(ExpiredAt(h)') = Cardinality(ExpiredAt(h)) + Cardinality(Moved)
  <2>1. Cardinality(ExpiredAt(h) \cap Tagged) = 0
    BY <1>6, FS_EmptySet
  <2>2. Cardinality(ExpiredAt(h) \cup Tagged) =
           Cardinality(ExpiredAt(h)) + Cardinality(Tagged) - Cardinality(ExpiredAt(h) \cap Tagged)
    BY <1>1, <1>3, FS_Union
  <2> QED BY <1>2, <1>3, <1>5, <1>7, <2>1, <2>2
<1> QED BY <1>2, <1>7, <1>8, <1>9

\* Whether the engine of a hop holds a probe, before and after a step that
\* gives engine t the record e: only the hop at its position can change.
LEMMA InHandStep ==
    ASSUME TypeOK, NEW t \in Targets, NEW e \in EngineRecord, NEW h \in Hops,
           eng' = [eng EXCEPT ![t] = e]
    PROVE  /\ h[1] # t => InHand(h)' = InHand(h)
           /\ e.pc \notin {"send", "record"} /\ h[1] = t => InHand(h)' = 0
           /\ eng[t].pc \notin {"send", "record"} /\ h[1] = t => InHand(h) = 0
           /\ h[1] = t /\ h # <<t, eng[t].ttl, eng[t].flow>> => InHand(h) = 0
           /\ h[1] = t /\ h # <<t, e.ttl, e.flow>> => InHand(h)' = 0
           /\ h = <<t, eng[t].ttl, eng[t].flow>> /\ eng[t].pc \in {"send", "record"}
                => InHand(h) = 1
           /\ h = <<t, e.ttl, e.flow>> /\ e.pc \in {"send", "record"} => InHand(h)' = 1
<1>1. h = <<h[1], h[2], h[3]>> /\ h[1] \in Targets
  BY HopTriple
<1>2. eng'[t] = e /\ \A u \in Targets \ {t} : eng'[u] = eng[u]
  BY DEF TypeOK
<1> QED BY <1>1, <1>2 DEF InHand

\* Entries under the key of probe p leave the map.
LEMMA KeyLeaves ==
    ASSUME TypeOK, NEW p, NEW h
    PROVE  LET left == {q \in pending \ SameKeyEntries(p) : Hop(q) = h}
           IN  /\ IsFiniteSet(left) /\ Cardinality(left) \in Nat
               /\ Cardinality(SameKeyEntries(p)) \in Nat
               /\ h = Hop(p) =>
                    Cardinality(left) = Cardinality(PendingAt(h)) - Cardinality(SameKeyEntries(p))
               /\ h # Hop(p) => left = PendingAt(h)
<1> DEFINE left == {q \in pending \ SameKeyEntries(p) : Hop(q) = h}
<1>1. IsFiniteSet(PendingAt(h)) /\ IsFiniteSet(SameKeyEntries(p))
  BY FS_Subset DEF TypeOK, PendingAt, SameKeyEntries
<1>2. left = PendingAt(h) \ SameKeyEntries(p)
  BY DEF PendingAt
<1>3. IsFiniteSet(left) /\ Cardinality(left) \in Nat /\ Cardinality(SameKeyEntries(p)) \in Nat
  <2> HIDE DEF left
  <2> QED BY <1>1, <1>2, FS_Difference, FS_CardinalityType
<1>4. ASSUME h = Hop(p)
      PROVE  Cardinality(left) = Cardinality(PendingAt(h)) - Cardinality(SameKeyEntries(p))
  <2>1. PendingAt(h) \cap SameKeyEntries(p) = SameKeyEntries(p)
    BY <1>4 DEF PendingAt, SameKeyEntries, SameKey
  <2> HIDE DEF left
  <2> QED BY <1>1, <1>2, <2>1, FS_Difference
<1>5. ASSUME h # Hop(p) PROVE left = PendingAt(h)
  BY <1>5 DEF PendingAt, SameKeyEntries, SameKey
<1> QED BY <1>3, <1>4, <1>5

LEMMA EngineConserves ==
    ASSUME TypeOK, Numbered, Conservation, NEW t \in Targets, EngineStep(t)
    PROVE  Conservation'
<1> SUFFICES ASSUME NEW h \in Hops
             PROVE  received'[h] + timeouts'[h] + InFlight(h)' = sent'[h] + InHand(h)' + drift'[h]
  BY DEF Conservation
<1>0. received[h] + timeouts[h] + InFlight(h) = sent[h] + InHand(h) + drift[h]
  BY DEF Conservation
<1>1. /\ received[h] \in Nat /\ timeouts[h] \in Nat /\ sent[h] \in Nat /\ drift[h] \in Int
      /\ eng[t] \in EngineRecord
  BY DEF TypeOK
<1>2. /\ Cardinality(PendingAt(h)) \in Nat /\ Cardinality(BatchAt(h)) \in Nat
      /\ Cardinality(ExpiredAt(h)) \in Nat /\ InHand(h) \in {0, 1}
  BY InFlightType
<1>3. /\ received' = received /\ timeouts' = timeouts
      /\ BatchAt(h)' = BatchAt(h) /\ ExpiredAt(h)' = ExpiredAt(h)
  BY DEF EngineStep, StartRound, CountReached, EngineCancelled, SkipProbe, InsertPending,
         SendOk, SendFailed, RecordSent, rcvVars, BatchAt, ExpiredAt
<1> DEFINE H == <<t, eng[t].ttl, eng[t].flow>>
<1>h. h = H => h[1] = t
  OBVIOUS
<1>a. Advance(eng[t]) \in EngineRecord /\ Advance(eng[t]).pc \notin {"send", "record"}
  BY <1>1, AdvanceType
<1>4. CASE StartRound(t) \/ CountReached(t) \/ EngineCancelled(t) \/ SkipProbe(t)
  <2>1. /\ sent' = sent /\ drift' = drift /\ PendingAt(h)' = PendingAt(h)
    BY <1>4 DEF StartRound, CountReached, EngineCancelled, SkipProbe, PendingAt
  <2>2. /\ eng[t].pc \notin {"send", "record"} /\ eng'[t].pc \notin {"send", "record"}
        /\ \A u \in Targets \ {t} : eng'[u] = eng[u]
    BY <1>4, <1>1, <1>a DEF StartRound, CountReached, EngineCancelled, SkipProbe, TypeOK,
                            EngineRecord
  <2>3. InHand(h)' = InHand(h)
    BY <2>2, HopTriple DEF InHand
  <2> QED BY <1>0, <1>3, <2>1, <2>3 DEF InFlight
<1>5. CASE InsertPending(t)
  <2> DEFINE p == CurrentProbe(t)
             e == [eng[t] EXCEPT !.pc = "send", !.nextId = eng[t].nextId + 1]
             left == {q \in pending \ SameKeyEntries(p) : Hop(q) = h}
  <2>1. /\ eng' = [eng EXCEPT ![t] = e] /\ e \in EngineRecord /\ e.pc = "send"
        /\ e.ttl = eng[t].ttl /\ e.flow = eng[t].flow /\ eng[t].pc = "insert"
    <3>1. eng' = [eng EXCEPT ![t] = e] /\ eng[t].pc = "insert"
      BY <1>5 DEF InsertPending
    <3>2. e \in EngineRecord /\ e.pc = "send" /\ e.ttl = eng[t].ttl /\ e.flow = eng[t].flow
      BY <1>1, InsertedType
    <3> HIDE DEF e
    <3> QED BY <3>1, <3>2
  <2>2. /\ h[1] # t => InHand(h)' = InHand(h)
        /\ h[1] = t => InHand(h) = 0
        /\ h[1] = t /\ h # H => InHand(h)' = 0
        /\ h = H => InHand(h)' = 1
    <3>1. H = <<t, e.ttl, e.flow>> /\ eng[t].pc \notin {"send", "record"} /\ e.pc \in {"send", "record"}
      BY <2>1
    <3> HIDE DEF e, H, p, left
    <3>2. e \in EngineRecord /\ eng' = [eng EXCEPT ![t] = e]
      BY <2>1
    <3>3. /\ h[1] # t => InHand(h)' = InHand(h)
          /\ e.pc \notin {"send", "record"} /\ h[1] = t => InHand(h)' = 0
          /\ eng[t].pc \notin {"send", "record"} /\ h[1] = t => InHand(h) = 0
          /\ h[1] = t /\ h # <<t, eng[t].ttl, eng[t].flow>> => InHand(h) = 0
          /\ h[1] = t /\ h # <<t, e.ttl, e.flow>> => InHand(h)' = 0
          /\ h = <<t, eng[t].ttl, eng[t].flow>> /\ eng[t].pc \in {"send", "record"}
               => InHand(h) = 1
          /\ h = <<t, e.ttl, e.flow>> /\ e.pc \in {"send", "record"} => InHand(h)' = 1
      BY <3>2, InHandStep, ZenonT(20)
    <3> QED BY <3>1, <3>3
  <2>3. /\ pending' = (pending \ SameKeyEntries(p)) \cup {p} /\ sent' = sent
        /\ drift' = [drift EXCEPT ![Hop(p)] = @ - Cardinality(SameKeyEntries(p))]
    BY <1>5 DEF InsertPending
  <2>4. Hop(p) = H
    BY CurrentProbeType
  <2>5. p \notin left
    <3>1. p \in pending => p \in SameKeyEntries(p)
      BY DEF SameKeyEntries, SameKey
    <3> QED BY <3>1
  <2>6. PendingAt(h)' = IF h = H THEN left \cup {p} ELSE left
    BY <2>3, <2>4 DEF PendingAt
  <2> HIDE DEF p
  <2>7. /\ IsFiniteSet(left) /\ Cardinality(left) \in Nat
        /\ Cardinality(SameKeyEntries(p)) \in Nat
        /\ h = H => Cardinality(left) = Cardinality(PendingAt(h)) - Cardinality(SameKeyEntries(p))
        /\ h # H => left = PendingAt(h)
    BY <2>4, KeyLeaves
  <2> HIDE DEF left
  <2>8. CASE h = H
    <3>1. Cardinality(PendingAt(h)') = Cardinality(left) + 1
      <4>1. PendingAt(h)' = left \cup {p}
        BY <2>6, <2>8
      <4>2. Cardinality(left \cup {p}) = Cardinality(left) + 1
        BY <2>5, <2>7, FS_AddElement
      <4> QED BY <4>1, <4>2
    <3>2. drift'[h] = drift[h] - Cardinality(SameKeyEntries(p))
      BY <2>3, <2>4, <2>8 DEF TypeOK
    <3>3. InHand(h)' = 1 /\ InHand(h) = 0
      BY <2>2, <2>8, <1>h
    <3>4. Cardinality(left) = Cardinality(PendingAt(h)) - Cardinality(SameKeyEntries(p))
      BY <2>7, <2>8
    <3> HIDE DEF H
    <3> QED BY <1>0, <1>1, <1>2, <1>3, <2>3, <2>7, <3>1, <3>2, <3>3, <3>4 DEF InFlight
  <2>9. CASE h # H
    <3>1. drift'[h] = drift[h] /\ PendingAt(h)' = PendingAt(h)
      BY <2>3, <2>4, <2>6, <2>7, <2>9 DEF TypeOK
    <3>2. InHand(h)' = InHand(h)
      BY <2>2, <2>9
    <3> QED BY <1>0, <1>3, <2>3, <3>1, <3>2 DEF InFlight
  <2> QED BY <2>8, <2>9
<1>6. CASE SendOk(t)
  <2>1. /\ sent' = sent /\ drift' = drift /\ PendingAt(h)' = PendingAt(h)
    BY <1>6 DEF SendOk, PendingAt
  <2>2. /\ eng[t].pc = "send" /\ eng' = [eng EXCEPT ![t].pc = "record"]
    BY <1>6 DEF SendOk
  <2>3. /\ eng'[t].pc = "record" /\ eng'[t].ttl = eng[t].ttl /\ eng'[t].flow = eng[t].flow
        /\ \A u \in Targets \ {t} : eng'[u] = eng[u]
    BY <2>2, <1>1 DEF TypeOK, EngineRecord
  <2>4. InHand(h)' = InHand(h)
    BY <2>2, <2>3, HopTriple DEF InHand
  <2> QED BY <1>0, <1>3, <2>1, <2>4 DEF InFlight
<1>7. CASE SendFailed(t)
  <2> DEFINE p == LastProbe(t)
             left == {q \in pending \ SameKeyEntries(p) : Hop(q) = h}
  <2>1. /\ pending' = pending \ SameKeyEntries(p) /\ sent' = sent /\ eng[t].pc = "send"
        /\ drift' = [drift EXCEPT ![Hop(p)] = @ + 1 - Cardinality(SameKeyEntries(p))]
        /\ eng' = [eng EXCEPT ![t] = Advance(eng[t])]
    BY <1>7 DEF SendFailed
  <2>2. Hop(p) = H
    BY CurrentProbeType
  <2>3. PendingAt(h)' = left
    BY <2>1 DEF PendingAt
  <2> HIDE DEF p
  <2>4. /\ IsFiniteSet(left) /\ Cardinality(left) \in Nat
        /\ Cardinality(SameKeyEntries(p)) \in Nat
        /\ h = H => Cardinality(left) = Cardinality(PendingAt(h)) - Cardinality(SameKeyEntries(p))
        /\ h # H => left = PendingAt(h)
    BY <2>2, KeyLeaves
  <2> HIDE DEF left
  <2>5. /\ h[1] # t => InHand(h)' = InHand(h)
        /\ h[1] = t => InHand(h)' = 0
        /\ h[1] = t /\ h # H => InHand(h) = 0
        /\ h = H => InHand(h) = 1
    BY <2>1, <1>a, InHandStep
  <2>6. CASE h = H
    <3>1. drift'[h] = drift[h] + 1 - Cardinality(SameKeyEntries(p))
      BY <2>1, <2>2, <2>6 DEF TypeOK
    <3>2. InHand(h)' = 0 /\ InHand(h) = 1
      BY <2>5, <2>6, <1>h
    <3>3. Cardinality(left) = Cardinality(PendingAt(h)) - Cardinality(SameKeyEntries(p))
      BY <2>4, <2>6
    <3> HIDE DEF H
    <3> QED BY <1>0, <1>1, <1>2, <1>3, <2>1, <2>3, <2>4, <3>1, <3>2, <3>3 DEF InFlight
  <2>7. CASE h # H
    <3>1. drift'[h] = drift[h] /\ PendingAt(h)' = PendingAt(h)
      BY <2>1, <2>2, <2>3, <2>4, <2>7 DEF TypeOK
    <3>2. InHand(h)' = InHand(h)
      BY <2>5, <2>7
    <3> QED BY <1>0, <1>3, <2>1, <3>1, <3>2 DEF InFlight
  <2> QED BY <2>6, <2>7
<1>8. CASE RecordSent(t)
  <2>1. /\ sent' = [sent EXCEPT ![H] = @ + 1] /\ drift' = drift /\ PendingAt(h)' = PendingAt(h)
        /\ eng' = [eng EXCEPT ![t] = Advance(eng[t])] /\ eng[t].pc = "record"
    BY <1>8 DEF RecordSent, PendingAt
  <2>2. /\ h[1] # t => InHand(h)' = InHand(h)
        /\ h[1] = t => InHand(h)' = 0
        /\ h[1] = t /\ h # H => InHand(h) = 0
        /\ h = H => InHand(h) = 1
    BY <2>1, <1>a, InHandStep
  <2>3. CASE h = H
    <3>1. sent'[h] = sent[h] + 1
      BY <2>1, <2>3 DEF TypeOK
    <3>2. InHand(h)' = 0 /\ InHand(h) = 1
      BY <2>2, <2>3, <1>h
    <3>3. InFlight(h)' = InFlight(h) /\ InFlight(h) \in Nat
      BY <1>3, <2>1, InFlightType DEF InFlight
    <3> HIDE DEF H
    <3> QED BY <1>0, <1>1, <1>3, <2>1, <3>1, <3>2, <3>3
  <2>4. CASE h # H
    <3>1. sent'[h] = sent[h] /\ InHand(h)' = InHand(h)
      BY <2>1, <2>2, <2>4 DEF TypeOK
    <3> QED BY <1>0, <1>3, <2>1, <3>1 DEF InFlight
  <2> QED BY <2>3, <2>4
<1> QED BY <1>4, <1>5, <1>6, <1>7, <1>8 DEF EngineStep

LEMMA ReceiverConserves ==
    ASSUME TypeOK, OnePlace, Conservation, NEW r \in Receivers, ReceiverStep(r)
    PROVE  Conservation'
<1> SUFFICES ASSUME NEW h \in Hops
             PROVE  received'[h] + timeouts'[h] + InFlight(h)' = sent'[h] + InHand(h)' + drift'[h]
  BY DEF Conservation
<1>0. received[h] + timeouts[h] + InFlight(h) = sent[h] + InHand(h) + drift[h]
  BY DEF Conservation
<1>1. /\ received[h] \in Nat /\ timeouts[h] \in Nat /\ sent[h] \in Nat /\ drift[h] \in Int
  BY DEF TypeOK
<1>2. /\ Cardinality(PendingAt(h)) \in Nat /\ Cardinality(BatchAt(h)) \in Nat
      /\ Cardinality(ExpiredAt(h)) \in Nat /\ InHand(h) \in {0, 1}
  BY InFlightType
<1>3. sent' = sent /\ drift' = drift /\ InHand(h)' = InHand(h)
  BY DEF ReceiverStep, Receive, EndDrain, ReceiveError, ApplyResponse, Cleanup, Expire,
         FlushPending, RecordTimeout, TimeoutsRecorded, InHand
<1>4. CASE Receive(r)
  <2>1. PICK m \in net :
          \/ UNCHANGED <<pending, batch>>
          \/ \E p \in Candidates(m) :
               /\ pending' = pending \ {p}
               /\ batch' = batch \cup {[rcv |-> r, probe |-> p, reply |-> m]}
    BY <1>4 DEF Receive
  <2>2. received' = received /\ timeouts' = timeouts /\ ExpiredAt(h)' = ExpiredAt(h)
    BY <1>4 DEF Receive, ExpiredAt
  <2>3. CASE UNCHANGED <<pending, batch>>
    <3>1. PendingAt(h)' = PendingAt(h) /\ BatchAt(h)' = BatchAt(h)
      BY <2>3 DEF PendingAt, BatchAt
    <3> QED BY <1>0, <1>3, <2>2, <3>1 DEF InFlight
  <2>4. ASSUME NEW p \in Candidates(m), pending' = pending \ {p},
               batch' = batch \cup {[rcv |-> r, probe |-> p, reply |-> m]}
        PROVE  InFlight(h)' = InFlight(h)
    <3> DEFINE e == [rcv |-> r, probe |-> p, reply |-> m]
    <3>1. p \in pending /\ e \notin batch /\ e.probe = p /\ batch' = batch \cup {e}
      BY <2>4, CandidatesPending DEF OnePlace
    <3> HIDE DEF e
    <3>2. Cardinality(PendingAt(h)') =
             IF Hop(p) = h THEN Cardinality(PendingAt(h)) - 1 ELSE Cardinality(PendingAt(h))
      BY <2>4, <3>1, PendingLeaves
    <3>3. Cardinality(BatchAt(h)') =
             IF Hop(p) = h THEN Cardinality(BatchAt(h)) + 1 ELSE Cardinality(BatchAt(h))
      BY <3>1, BatchGrows
    <3> QED BY <1>2, <2>2, <3>2, <3>3 DEF InFlight
  <2> QED BY <1>0, <1>3, <2>1, <2>2, <2>3, <2>4
<1>5. CASE EndDrain(r) \/ ReceiveError(r) \/ TimeoutsRecorded(r)
  <2>1. /\ received' = received /\ timeouts' = timeouts /\ PendingAt(h)' = PendingAt(h)
        /\ BatchAt(h)' = BatchAt(h) /\ ExpiredAt(h)' = ExpiredAt(h)
    BY <1>5 DEF EndDrain, ReceiveError, TimeoutsRecorded, PendingAt, BatchAt, ExpiredAt
  <2> QED BY <1>0, <1>3, <2>1 DEF InFlight
<1>6. CASE ApplyResponse(r)
  <2>1. PICK e \in batch :
          batch' = batch \ {e} /\ received' = [received EXCEPT ![Hop(e.probe)] = @ + 1]
    BY <1>6 DEF ApplyResponse
  <2>2. timeouts' = timeouts /\ PendingAt(h)' = PendingAt(h) /\ ExpiredAt(h)' = ExpiredAt(h)
    BY <1>6 DEF ApplyResponse, PendingAt, ExpiredAt
  <2>3. Cardinality(BatchAt(h)') =
           IF Hop(e.probe) = h THEN Cardinality(BatchAt(h)) - 1 ELSE Cardinality(BatchAt(h))
    BY <2>1, BatchLeaves
  <2>4. received'[h] = IF Hop(e.probe) = h THEN received[h] + 1 ELSE received[h]
    BY <2>1 DEF TypeOK
  <2> QED BY <1>0, <1>1, <1>2, <1>3, <2>2, <2>3, <2>4 DEF InFlight
<1>7. ASSUME NEW S \in SUBSET pending, TakeExpired(r, S),
             UNCHANGED <<received, timeouts, batch>>
      PROVE  received'[h] + timeouts'[h] + InFlight(h)' = sent'[h] + InHand(h)' + drift'[h]
  <2>1. Cardinality(PendingAt(h)') + Cardinality(ExpiredAt(h)') =
           Cardinality(PendingAt(h)) + Cardinality(ExpiredAt(h))
    BY <1>7, ExpiryMoves
  <2>2. BatchAt(h)' = BatchAt(h)
    BY <1>7 DEF BatchAt
  <2>3. IsFiniteSet(pending') /\ IsFiniteSet(expired')
    BY <1>7, TakeExpiredType
  <2>4. Cardinality(PendingAt(h)') \in Nat /\ Cardinality(ExpiredAt(h)') \in Nat
    <3>1. IsFiniteSet(PendingAt(h)') /\ IsFiniteSet(ExpiredAt(h)')
      BY <2>3, FS_Subset DEF PendingAt, ExpiredAt
    <3> QED BY <3>1, FS_CardinalityType
  <2>5. InFlight(h)' = InFlight(h)
    BY <1>2, <2>1, <2>2, <2>4 DEF InFlight
  <2> QED BY <1>0, <1>3, <1>7, <2>5
<1>8. CASE Cleanup(r)
  <2>1. PICK S \in SUBSET pending : Expire(r, S)
    BY <1>8 DEF Cleanup
  <2> QED BY <1>7, <2>1 DEF Expire
<1>9. CASE FlushPending(r)
  BY <1>7, <1>9 DEF FlushPending
<1>10. CASE RecordTimeout(r)
  <2>1. PICK e \in expired :
          expired' = expired \ {e} /\ timeouts' = [timeouts EXCEPT ![Hop(e.probe)] = @ + 1]
    BY <1>10 DEF RecordTimeout
  <2>2. received' = received /\ PendingAt(h)' = PendingAt(h) /\ BatchAt(h)' = BatchAt(h)
    BY <1>10 DEF RecordTimeout, PendingAt, BatchAt
  <2>3. Cardinality(ExpiredAt(h)') =
           IF Hop(e.probe) = h THEN Cardinality(ExpiredAt(h)) - 1 ELSE Cardinality(ExpiredAt(h))
    BY <2>1, ExpiredLeaves
  <2>4. timeouts'[h] = IF Hop(e.probe) = h THEN timeouts[h] + 1 ELSE timeouts[h]
    BY <2>1 DEF TypeOK
  <2> QED BY <1>0, <1>1, <1>2, <1>3, <2>2, <2>3, <2>4 DEF InFlight
<1> QED BY <1>4, <1>5, <1>6, <1>8, <1>9, <1>10 DEF ReceiverStep

LEMMA UserConserves ==
    ASSUME TypeOK, Conservation, UserStep
    PROVE  Conservation'
<1> SUFFICES ASSUME NEW h \in Hops
             PROVE  received'[h] + timeouts'[h] + InFlight(h)' = sent'[h] + InHand(h)' + drift'[h]
  BY DEF Conservation
<1>0. received[h] + timeouts[h] + InFlight(h) = sent[h] + InHand(h) + drift[h]
  BY DEF Conservation
<1>1. InFlight(h)' = InFlight(h) /\ InHand(h)' = InHand(h)
  BY DEF UserStep, Cancel, TogglePause, ResetStats, rcvVars, InFlight, InHand, PendingAt,
         BatchAt, ExpiredAt
<1>2. InFlight(h) \in Nat /\ InHand(h) \in {0, 1}
  BY InFlightType
<1>3. CASE Cancel \/ \E t \in Targets : TogglePause(t)
  BY <1>0, <1>1, <1>3 DEF Cancel, TogglePause
<1>4. ASSUME NEW t \in Targets, ResetStats(t), h[1] = t
      PROVE  received'[h] = 0 /\ timeouts'[h] = 0 /\ sent'[h] = 0
             /\ drift'[h] = InFlight(h) - InHand(h)
  BY <1>4 DEF ResetStats
<1>5. ASSUME NEW t \in Targets, ResetStats(t), h[1] # t
      PROVE  received'[h] = received[h] /\ timeouts'[h] = timeouts[h] /\ sent'[h] = sent[h]
             /\ drift'[h] = drift[h]
  BY <1>5 DEF ResetStats
<1>6. ASSUME NEW t \in Targets, ResetStats(t)
      PROVE  received'[h] + timeouts'[h] + InFlight(h)' = sent'[h] + InHand(h)' + drift'[h]
  <2>1. CASE h[1] = t
    BY <1>1, <1>2, <1>4, <1>6, <2>1
  <2>2. CASE h[1] # t
    BY <1>0, <1>1, <1>5, <1>6, <2>2
  <2> QED BY <2>1, <2>2
<1> QED BY <1>3, <1>6 DEF UserStep

-----------------------------------------------------------------------------
(* The theorems. *)

\* The inductive invariant behind the balance: a response or an expiry counts
\* an entry once because it is nowhere else, and it is nowhere else because
\* every engine numbers its entries afresh.
IInv == TypeOK /\ Numbered /\ Fresh /\ OnePlace /\ Conservation

LEMMA IInvInit == Init => IInv
<1> SUFFICES ASSUME Init PROVE IInv
  OBVIOUS
<1>1. TypeOK /\ Numbered
  BY TypeInit
<1>2. Fresh /\ OnePlace
  BY DEF Init, Fresh, OnePlace
<1>3. Conservation
  <2>1. \A h : PendingAt(h) = {} /\ BatchAt(h) = {} /\ ExpiredAt(h) = {}
    BY DEF Init, PendingAt, BatchAt, ExpiredAt
  <2>2. \A h : InFlight(h) = 0
    <3>1. Cardinality({}) = 0
      BY FS_EmptySet
    <3>2. \A h : InFlight(h) = Cardinality({}) + Cardinality({}) + Cardinality({})
      BY <2>1 DEF InFlight
    <3> QED BY <3>1, <3>2
  <2>3. \A h \in Hops : InHand(h) = 0
    BY HopTriple DEF Init, InHand
  <2> QED BY <2>2, <2>3 DEF Init, Conservation
<1> QED BY <1>1, <1>2, <1>3 DEF IInv

LEMMA IInvStep == IInv /\ [Next]_vars => IInv'
<1> SUFFICES ASSUME IInv, [Next]_vars PROVE IInv'
  OBVIOUS
<1>0. TypeOK /\ Numbered /\ Fresh /\ OnePlace /\ Conservation
  BY DEF IInv
<1>1. TypeOK' /\ Numbered' /\ Fresh' /\ OnePlace'
  BY <1>0, TypeStep, OnePlaceStep
<1>2. Conservation'
  <2>1. CASE UNCHANGED vars
    BY <1>0, <2>1 DEF vars, Conservation, InFlight, InHand, PendingAt, BatchAt, ExpiredAt
  <2>2. CASE Next
    BY <1>0, <2>2, EngineConserves, ReceiverConserves, UserConserves DEF Next
  <2> QED BY <2>1, <2>2
<1> QED BY <1>1, <1>2 DEF IInv

\* No probe is ever counted twice: what leaves the map is answered or timed
\* out, once, by one receiver, with any number of engines and receivers.
THEOREM OneCompletion == Spec => []OnePlace
<1>1. IInv => OnePlace
  BY DEF IInv
<1> QED BY <1>1, IInvInit, IInvStep, PTL DEF Spec

\* The counters of every hop and flow balance with what is in flight at
\* every instant, whatever the interleaving of engines, receivers and user.
THEOREM CountersBalance == Spec => []Conservation
<1>1. IInv => Conservation
  BY DEF IInv
<1> QED BY <1>1, IInvInit, IInvStep, PTL DEF Spec

\* The map never holds two entries under one key: an insertion takes the
\* place of whatever was there, and nothing else adds entries.
THEOREM KeysUnique == Spec => []UniqueKeys
<1>1. Init => UniqueKeys
  BY DEF Init, UniqueKeys
<1>2. UniqueKeys /\ [Next]_vars => UniqueKeys'
  <2> SUFFICES ASSUME UniqueKeys, [Next]_vars PROVE UniqueKeys'
    OBVIOUS
  <2>1. ASSUME NEW t \in Targets, InsertPending(t) PROVE UniqueKeys'
    <3> DEFINE p == CurrentProbe(t)
    <3>1. pending' = (pending \ SameKeyEntries(p)) \cup {p}
      BY <2>1 DEF InsertPending
    <3> HIDE DEF p
    <3>2. \A q \in pending \ SameKeyEntries(p) : ~SameKey(q, p) /\ ~SameKey(p, q)
      BY DEF SameKeyEntries, SameKey
    <3> QED BY <3>1, <3>2 DEF UniqueKeys
  <2>2. ASSUME pending' \subseteq pending PROVE UniqueKeys'
    BY <2>2 DEF UniqueKeys
  <2>3. ASSUME NEW t \in Targets, EngineStep(t), ~InsertPending(t)
        PROVE  pending' \subseteq pending
    BY <2>3 DEF EngineStep, StartRound, CountReached, EngineCancelled, SkipProbe, SendOk,
                SendFailed, RecordSent
  <2>4. ASSUME NEW r \in Receivers, ReceiverStep(r) PROVE pending' \subseteq pending
    BY <2>4, ReceiverEntries
  <2>5. UserStep \/ UNCHANGED vars => pending' \subseteq pending
    BY DEF UserStep, Cancel, TogglePause, ResetStats, vars
  <2> QED BY <2>1, <2>2, <2>3, <2>4, <2>5 DEF Next
<1> QED BY <1>1, <1>2, PTL DEF Spec

\* Echo replies, on their way or in a batch, answer probes that reached.
EchoSound ==
    /\ \A m \in net : m.echo => Dist[m.probe.tgt] <= m.probe.ttl
    /\ \A e \in batch : e.reply.echo => Dist[e.reply.probe.tgt] <= e.reply.probe.ttl

\* The destination's distance is never underestimated, also when an echo
\* reply was matched with another session's entry.
THEOREM DestinationSound == Spec => []DestSound
<1>1. Init => EchoSound /\ DestSound /\ TypeOK /\ Numbered
  BY TypeInit DEF Init, EchoSound, DestSound
<1>2. EchoSound /\ DestSound /\ TypeOK /\ Numbered /\ [Next]_vars
        => EchoSound' /\ DestSound' /\ TypeOK' /\ Numbered'
  <2> SUFFICES ASSUME EchoSound, DestSound, TypeOK, Numbered, [Next]_vars
               PROVE  EchoSound' /\ DestSound'
    BY TypeStep
  <2>1. ASSUME NEW t \in Targets, SendOk(t) PROVE EchoSound' /\ DestSound'
    <3> DEFINE p == LastProbe(t)
    <3>1. p \in Probe
      BY <2>1, CurrentProbeType DEF SendOk, Numbered
    <3>2. \A m \in Answers(p) : m.echo => Dist[m.probe.tgt] <= m.probe.ttl
      <4> HIDE DEF p
      <4>1. ASSUME NEW m \in Answers(p) PROVE m.probe = p /\ (m.echo => p.ttl >= Dist[p.tgt])
        <5>1. PICK h : m = [probe |-> p, echo |-> Icmp /\ p.ttl >= Dist[p.tgt], hint |-> h]
          BY DEF Answers
        <5> QED BY <5>1
      <4>2. p.ttl \in Int /\ Dist[p.tgt] \in Int
        BY <3>1 DEF Probe, Ttls
      <4> QED BY <4>1, <4>2
    <3>3. /\ net' \subseteq net \cup Answers(p) /\ batch' = batch /\ sess' = sess
      BY <2>1 DEF SendOk, rcvVars
    <3> HIDE DEF p
    <3> QED BY <3>2, <3>3 DEF EchoSound, DestSound
  <2>2. ASSUME NEW t \in Targets, EngineStep(t), ~SendOk(t) PROVE EchoSound' /\ DestSound'
    BY <2>2 DEF EngineStep, StartRound, CountReached, EngineCancelled, SkipProbe,
                InsertPending, SendFailed, RecordSent, rcvVars, EchoSound, DestSound
  <2>3. ASSUME NEW r \in Receivers, ReceiverStep(r), ~ApplyResponse(r)
        PROVE  EchoSound' /\ DestSound'
    <3>1. sess' = sess /\ net' \subseteq net
      BY <2>3 DEF ReceiverStep, Receive, EndDrain, ReceiveError, Cleanup, Expire,
                  FlushPending, RecordTimeout, TimeoutsRecorded
    <3>2. \A e \in batch' : e \in batch \/ e.reply \in net
      BY <2>3 DEF ReceiverStep, Receive, EndDrain, ReceiveError, Cleanup, Expire,
                  FlushPending, RecordTimeout, TimeoutsRecorded
    <3> QED BY <3>1, <3>2 DEF EchoSound, DestSound
  <2>4. ASSUME NEW r \in Receivers, ApplyResponse(r) PROVE EchoSound' /\ DestSound'
    <3>1. PICK e \in batch :
            \/ UNCHANGED sess
            \/ /\ e.reply.echo /\ e.reply.probe.tgt = e.probe.tgt
               /\ sess' = [sess EXCEPT ![e.probe.tgt].dest = e.reply.probe.ttl]
      BY <2>4 DEF ApplyResponse, Reached
    <3>2. net' = net /\ batch' \subseteq batch
      BY <2>4 DEF ApplyResponse
    <3>3. EchoSound'
      BY <3>2 DEF EchoSound
    <3>4. DestSound'
      BY <3>1 DEF EchoSound, DestSound, TypeOK
    <3> QED BY <3>3, <3>4
  <2>5. CASE UserStep
    BY <2>5 DEF UserStep, Cancel, TogglePause, ResetStats, rcvVars, EchoSound, DestSound, TypeOK
  <2>6. CASE UNCHANGED vars
    BY <2>6 DEF vars, EchoSound, DestSound
  <2> QED BY <2>1, <2>2, <2>3, <2>4, <2>5, <2>6 DEF Next
<1> QED BY <1>1, <1>2, PTL DEF Spec

BatchOf(r) == {e \in batch : e.rcv = r}
ExpiredOf(r) == {e \in expired : e.rcv = r}

\* What a receiver holds in each of its control states: a batch with a
\* response in it ends every error streak.
Holds(r) ==
    /\ rcv[r].pc \notin {"expire", "flush"} => ExpiredOf(r) = {}
    /\ rcv[r].pc \notin {"drain", "apply"} => BatchOf(r) = {}
    /\ rcv[r].pc = "drain" /\ BatchOf(r) # {} => rcv[r].errors = 0

\* A receiver that gives up after too many socket errors holds no response
\* and no timeout that would then never be counted.
THEOREM NothingLostInDeadReceiver == Spec => []DeadHoldsNothing
<1> DEFINE Inv == TypeOK /\ Numbered /\ \A r \in Receivers : Holds(r)
<1>1. Init => Inv
  BY TypeInit DEF Init, Holds, BatchOf, ExpiredOf
<1>2. Inv /\ [Next]_vars => Inv'
  <2> SUFFICES ASSUME Inv, [Next]_vars, NEW r \in Receivers PROVE Holds(r)'
    BY TypeStep
  <2>0. Holds(r) /\ rcv[r] \in ReceiverRecord /\ rcv \in [Receivers -> ReceiverRecord]
    BY DEF TypeOK
  <2>1. ASSUME NEW s \in Receivers, ReceiverStep(s), s # r PROVE Holds(r)'
    <3>1. rcv'[r] = rcv[r]
      BY <2>0, <2>1 DEF ReceiverStep, Receive, EndDrain, ReceiveError, ApplyResponse, Cleanup,
                        Expire, FlushPending, RecordTimeout, TimeoutsRecorded
    <3>2. BatchOf(r)' = BatchOf(r)
      <4>1. CASE Receive(s)
        BY <4>1, <2>1 DEF Receive, BatchOf
      <4>2. CASE ApplyResponse(s)
        BY <4>2, <2>1 DEF ApplyResponse, BatchOf
      <4>3. CASE ~Receive(s) /\ ~ApplyResponse(s)
        BY <4>3, <2>1 DEF ReceiverStep, EndDrain, ReceiveError, Cleanup, Expire,
                          FlushPending, RecordTimeout, TimeoutsRecorded, BatchOf
      <4> QED BY <4>1, <4>2, <4>3
    <3>3. ExpiredOf(r)' = ExpiredOf(r)
      BY <2>1 DEF ReceiverStep, Receive, EndDrain, ReceiveError, ApplyResponse, Cleanup,
                  Expire, FlushPending, RecordTimeout, TimeoutsRecorded, TakeExpired, ExpiredOf
    <3> QED BY <2>0, <3>1, <3>2, <3>3 DEF Holds
  <2>2. CASE Receive(r)
    <3>1. rcv'[r].pc = "drain" /\ rcv[r].pc = "drain" /\ rcv'[r].errors = 0
      BY <2>0, <2>2 DEF Receive, AfterPacket, ReceiverRecord
    <3>2. ExpiredOf(r)' = ExpiredOf(r)
      BY <2>2 DEF Receive, ExpiredOf
    <3> QED BY <2>0, <3>1, <3>2 DEF Holds
  <2>3. CASE EndDrain(r)
    <3>1. rcv'[r].pc = "apply" /\ rcv[r].pc = "drain"
      BY <2>0, <2>3 DEF EndDrain, ReceiverRecord
    <3>2. ExpiredOf(r)' = ExpiredOf(r)
      BY <2>3 DEF EndDrain, ExpiredOf
    <3> QED BY <2>0, <3>1, <3>2 DEF Holds
  <2>4. CASE ReceiveError(r)
    <3>1. /\ rcv[r].pc = "drain" /\ rcv'[r].pc \in {"apply", "dead"}
          /\ rcv'[r].pc = "dead" => rcv[r].errors + 1 >= MaxErrors
      BY <2>0, <2>4 DEF ReceiveError, ReceiverRecord
    <3>2. ExpiredOf(r)' = ExpiredOf(r) /\ BatchOf(r)' = BatchOf(r)
      BY <2>4 DEF ReceiveError, ExpiredOf, BatchOf
    <3>3. rcv'[r].pc = "dead" => rcv[r].errors # 0
      BY <3>1
    <3> QED BY <2>0, <3>1, <3>2, <3>3 DEF Holds
  <2>5. CASE ApplyResponse(r)
    <3>1. rcv' = rcv /\ rcv[r].pc = "apply"
      BY <2>5 DEF ApplyResponse
    <3>2. ExpiredOf(r)' = ExpiredOf(r)
      BY <2>5 DEF ApplyResponse, ExpiredOf
    <3> QED BY <2>0, <3>1, <3>2 DEF Holds
  <2>6. CASE Cleanup(r) \/ FlushPending(r)
    <3>1. rcv'[r].pc \in {"expire", "flush"} /\ BatchDone(r) /\ batch' = batch
      BY <2>0, <2>6 DEF Cleanup, Expire, FlushPending, ReceiverRecord
    <3>2. BatchOf(r)' = {}
      BY <3>1 DEF BatchDone, BatchOf
    <3> QED BY <3>1, <3>2 DEF Holds
  <2>7. CASE RecordTimeout(r)
    <3>1. rcv' = rcv /\ rcv[r].pc \in {"expire", "flush"}
      BY <2>7 DEF RecordTimeout
    <3>2. BatchOf(r)' = BatchOf(r)
      BY <2>7 DEF RecordTimeout, BatchOf
    <3> QED BY <2>0, <3>1, <3>2 DEF Holds
  <2>8. CASE TimeoutsRecorded(r)
    <3>1. rcv'[r].pc \in {"drain", "done"} /\ rcv[r].pc \in {"expire", "flush"}
      BY <2>0, <2>8 DEF TimeoutsRecorded, ReceiverRecord
    <3>2. ExpiredOf(r)' = {} /\ BatchOf(r)' = BatchOf(r)
      BY <2>8 DEF TimeoutsRecorded, ExpiredOf, BatchOf
    <3> QED BY <2>0, <3>1, <3>2 DEF Holds
  <2>9. ASSUME NEW t \in Targets, EngineStep(t) PROVE Holds(r)'
    <3>1. UNCHANGED <<rcv, batch, expired>>
      BY <2>9 DEF EngineStep, StartRound, CountReached, EngineCancelled, SkipProbe,
                  InsertPending, SendOk, SendFailed, RecordSent, rcvVars
    <3> QED BY <2>0, <3>1 DEF Holds, BatchOf, ExpiredOf
  <2>10. CASE UserStep \/ UNCHANGED vars
    <3>1. UNCHANGED <<rcv, batch, expired>>
      BY <2>10 DEF UserStep, Cancel, TogglePause, ResetStats, rcvVars, vars
    <3> QED BY <2>0, <3>1 DEF Holds, BatchOf, ExpiredOf
  <2>11. ASSUME ReceiverStep(r) PROVE Holds(r)'
    BY <2>2, <2>3, <2>4, <2>5, <2>6, <2>7, <2>8, <2>11 DEF ReceiverStep
  <2> QED BY <2>1, <2>9, <2>10, <2>11 DEF Next
<1>3. Inv => DeadHoldsNothing
  BY DEF Holds, BatchOf, ExpiredOf, DeadHoldsNothing
<1> QED BY <1>1, <1>2, <1>3, PTL DEF Spec

\* Hints are known, or there is one target only.
OneWayToTell == ~NatPresent \/ Icmp \/ \A t, u \in Targets : t = u

\* The hint of a response is the flow of its probe, if it is known at all.
HintTrue ==
    \A m \in net :
        \/ m.hint = m.probe.flow
        \/ m.hint = NoFlow /\ NatPresent /\ ~Icmp

LEMMA HintTrueInit == Init => HintTrue
  BY DEF Init, HintTrue

LEMMA HintTrueStep == HintTrue /\ [Next]_vars => HintTrue'
<1> SUFFICES ASSUME HintTrue, [Next]_vars PROVE HintTrue'
  OBVIOUS
<1>1. ASSUME NEW t \in Targets, SendOk(t) PROVE HintTrue'
  <2>1. ASSUME NEW p, NEW m \in Answers(p)
        PROVE  m.hint = m.probe.flow \/ (m.hint = NoFlow /\ NatPresent /\ ~Icmp)
    <3>1. PICK h \in IF NatPresent /\ ~Icmp THEN {p.flow, NoFlow} ELSE {p.flow} :
            m = [probe |-> p, echo |-> Icmp /\ p.ttl >= Dist[p.tgt], hint |-> h]
      BY DEF Answers
    <3>2. m.hint = h /\ m.probe = p
      BY <3>1
    <3> QED BY <3>1, <3>2
  <2>2. net' \subseteq net \cup Answers(LastProbe(t))
    BY <1>1 DEF SendOk
  <2> QED BY <2>1, <2>2 DEF HintTrue
<1>2. ASSUME NEW t \in Targets, EngineStep(t), ~SendOk(t) PROVE net' = net
  BY <1>2 DEF EngineStep, StartRound, CountReached, EngineCancelled, SkipProbe,
              InsertPending, SendFailed, RecordSent
<1>3. ASSUME NEW r \in Receivers, ReceiverStep(r) PROVE net' \subseteq net
  BY <1>3 DEF ReceiverStep, Receive, EndDrain, ReceiveError, ApplyResponse, Cleanup, Expire,
              FlushPending, RecordTimeout, TimeoutsRecorded
<1>4. CASE UserStep \/ UNCHANGED vars
  <2>1. net' = net
    BY <1>4 DEF UserStep, Cancel, TogglePause, ResetStats, vars
  <2> QED BY <2>1 DEF HintTrue
<1> QED BY <1>1, <1>2, <1>3, <1>4 DEF Next, HintTrue

\* A response whose probe's entry is still there has no other candidate.
LEMMA OwnCandidate ==
    ASSUME TypeOK, UniqueKeys, HintTrue, OneWayToTell,
           NEW m \in net, m.probe \in pending, NEW p \in Candidates(m)
    PROVE  p = m.probe
<1> DEFINE q == m.probe
           same == {x \in pending : x.tgt = q.tgt /\ x.ttl = q.ttl /\ x.seq = q.seq}
<1>1. q \in Probe /\ q.flow \in Flows /\ q.flow # NoFlow /\ q \in same
  BY ConstantsAssumption DEF TypeOK, Reply, Probe, Flows
<1>2. CASE m.hint # NoFlow
  <2>1. m.hint = q.flow
    BY <1>2 DEF HintTrue
  <2>2. Lookup(q.tgt, m) = {x \in same : x.flow = q.flow}
    BY <1>2, <2>1 DEF Lookup
  <2>3. \A x \in same : x.flow = q.flow => x = q
    BY DEF UniqueKeys, SameKey, Hop
  <2> QED BY <1>1, <2>2, <2>3 DEF Candidates
<1>3. CASE m.hint = NoFlow
  <2>1. \A t, u \in Targets : t = u
    BY <1>1, <1>3 DEF HintTrue, OneWayToTell
  <2>2. q.tgt \in Targets
    BY <1>1 DEF Probe
  <2>3. p \in Lookup(q.tgt, m)
    BY <2>1, <2>2 DEF Candidates
  <2>4. p \in same /\ Cardinality(same) = 1
    BY <1>3, <2>3 DEF Lookup
  <2>5. IsFiniteSet(same)
    BY FS_Subset DEF TypeOK
  <2>6. PICK x : same = {x}
    BY <2>4, <2>5, FS_Singleton
  <2> QED BY <1>1, <2>4, <2>6
<1> QED BY <1>2, <1>3

\* While the probe a response answers is in the map the response takes it, for
\* every number of flows and sequence numbers; with several targets, provided
\* that no NAT hides the flow.
THEOREM OwnEntryTaken == OneWayToTell => (Spec => OwnEntryFirst)
<1>1. ASSUME OneWayToTell, TypeOK, UniqueKeys, HintTrue, [Next]_vars
      PROVE  \A e \in batch' \ batch : e.reply.probe \in pending => e.probe = e.reply.probe
  <2>1. ASSUME NEW r \in Receivers, Receive(r), NEW e \in batch' \ batch,
               e.reply.probe \in pending
        PROVE  e.probe = e.reply.probe
    <3>1. \E m \in net : \E p \in Candidates(m) : e = [rcv |-> r, probe |-> p, reply |-> m]
      BY <2>1 DEF Receive
    <3> QED BY <1>1, <2>1, <3>1, OwnCandidate
  <2>2. ASSUME \A r \in Receivers : ~Receive(r)
        PROVE  batch' \subseteq batch
    BY <1>1, <2>2
    DEF Next, EngineStep, StartRound, CountReached, EngineCancelled, SkipProbe, InsertPending,
        SendOk, SendFailed, RecordSent, rcvVars, ReceiverStep, EndDrain, ReceiveError,
        ApplyResponse, Cleanup, Expire, FlushPending, RecordTimeout, TimeoutsRecorded,
        UserStep, Cancel, TogglePause, ResetStats, vars
  <2> QED BY <2>1, <2>2
<1>2. Spec => []HintTrue
  BY HintTrueInit, HintTrueStep, PTL DEF Spec
<1>3. CASE OneWayToTell
  <2>1. TypeOK /\ UniqueKeys /\ HintTrue /\ [Next]_vars
          => [\A e \in batch' \ batch : e.reply.probe \in pending => e.probe = e.reply.probe]_vars
    BY <1>1, <1>3
  <2> QED BY <1>2, <2>1, TypeCorrect, KeysUnique, PTL DEF Spec, OwnEntryFirst
<1>4. CASE ~OneWayToTell
  BY <1>4
<1> QED BY <1>3, <1>4
-----------------------------------------------------------------------------
(* ProbeTracking implements ProbeLedger: the mapping of ProbeRefinement     *)
(* takes initial states to initial states and every step to a step or a     *)
(* stutter.                                                                 *)

Outstanding == pending \cup InProgress

\* While an engine waits for its send to return, no entry with the key of its
\* probe is in the map but that probe's own.
HeldEntryOwn ==
    \A t \in Targets : eng[t].pc = "send" =>
        \A q \in SameKeyEntries(LastProbe(t)) : q = LastProbe(t)

\* An engine out of the send state never meets the condition above.
LEMMA HeldEntryStep == TypeOK /\ HeldEntryOwn /\ [Next]_vars => HeldEntryOwn'
<1> SUFFICES ASSUME TypeOK, HeldEntryOwn, [Next]_vars PROVE HeldEntryOwn'
  OBVIOUS
<1>0. \A t \in Targets : eng[t] \in EngineRecord
  BY DEF TypeOK
<1>1. ASSUME NEW t \in Targets, eng'[t] = eng[t],
             \A p \in pending' : p \in pending \/ p.tgt # t, eng'[t].pc = "send"
      PROVE  \A q \in SameKeyEntries(LastProbe(t))' : q = LastProbe(t)'
  <2>1. LastProbe(t)' = LastProbe(t) /\ LastProbe(t).tgt = t
    BY <1>1 DEF LastProbe, CurrentProbe
  <2>2. \A q \in SameKeyEntries(LastProbe(t))' : q \in SameKeyEntries(LastProbe(t))
    BY <1>1, <2>1 DEF SameKeyEntries, SameKey, Hop
  <2> QED BY <1>1, <2>1, <2>2 DEF HeldEntryOwn
<1>2. ASSUME NEW t \in Targets, InsertPending(t), NEW u \in Targets, eng'[u].pc = "send"
      PROVE  \A q \in SameKeyEntries(LastProbe(u))' : q = LastProbe(u)'
  <2> DEFINE p == CurrentProbe(t)
  <2>1. /\ pending' = (pending \ SameKeyEntries(p)) \cup {p}
        /\ eng' = [eng EXCEPT ![t].pc = "send", ![t].nextId = eng[t].nextId + 1]
    BY <1>2 DEF InsertPending
  <2>2. p.tgt = t
    BY DEF CurrentProbe
  <2>3. CASE u = t
    <3>1. eng'[t] = [eng[t] EXCEPT !.pc = "send", !.nextId = eng[t].nextId + 1]
      BY <2>1, <1>0 DEF TypeOK
    <3>2. eng[t].nextId \in Nat /\ eng[t].nextId + 1 - 1 = eng[t].nextId
      BY <1>0 DEF EngineRecord
    <3>3. LastProbe(t)' = p
      BY <3>1, <3>2, <1>0 DEF LastProbe, CurrentProbe, EngineRecord
    <3>4. \A q \in pending \ SameKeyEntries(p) : ~SameKey(q, p)
      BY DEF SameKeyEntries
    <3> HIDE DEF p
    <3> QED BY <2>1, <2>3, <3>3, <3>4 DEF SameKeyEntries
  <2>4. CASE u # t
    <3>1. eng'[u] = eng[u] /\ \A q \in pending' : q \in pending \/ q.tgt # u
      BY <2>1, <2>2, <2>4 DEF TypeOK
    <3> QED BY <1>1, <1>2, <3>1
  <2> QED BY <2>3, <2>4
<1>3. ASSUME NEW t \in Targets, EngineStep(t), ~InsertPending(t)
      PROVE  /\ pending' \subseteq pending
             /\ \A u \in Targets \ {t} : eng'[u] = eng[u]
             /\ eng'[t].pc # "send"
  <2>1. CASE SkipProbe(t) \/ SendFailed(t) \/ RecordSent(t)
    <3>1. eng' = [eng EXCEPT ![t] = Advance(eng[t])] /\ pending' \subseteq pending
      BY <2>1 DEF SkipProbe, SendFailed, RecordSent
    <3>2. Advance(eng[t]).pc \in {"insert", "wait"}
      BY <1>0, AdvanceType
    <3> QED BY <3>1, <3>2 DEF TypeOK
  <2>2. CASE StartRound(t)
    BY <2>2, <1>0 DEF StartRound, TypeOK, EngineRecord
  <2>3. CASE CountReached(t) \/ EngineCancelled(t) \/ SendOk(t)
    BY <2>3, <1>0 DEF CountReached, EngineCancelled, SendOk, TypeOK, EngineRecord
  <2> QED BY <1>3, <2>1, <2>2, <2>3 DEF EngineStep
<1>4. ASSUME NEW r \in Receivers, ReceiverStep(r) PROVE eng' = eng /\ pending' \subseteq pending
  BY <1>4, ReceiverEntries
<1>5. UserStep \/ UNCHANGED vars => eng' = eng /\ pending' = pending
  BY DEF UserStep, Cancel, TogglePause, ResetStats, vars
<1>6. ASSUME eng' = eng, pending' \subseteq pending PROVE HeldEntryOwn'
  BY <1>1, <1>6 DEF HeldEntryOwn
<1>7. ASSUME NEW t \in Targets, EngineStep(t) PROVE HeldEntryOwn'
  BY <1>1, <1>2, <1>3, <1>7 DEF HeldEntryOwn
<1> QED BY <1>4, <1>5, <1>6, <1>7 DEF Next

-----------------------------------------------------------------------------
(* The steps, one by one. *)

LEMMA HopOfIsHop == \A p : Ledger!HopOf(p) = Hop(p)
BY DEF Ledger!HopOf, Hop

\* InsertPending issues a probe; what it overwrites had the same key.
LEMMA InsertIssues ==
    ASSUME TypeOK, Fresh, NEW t \in Targets, InsertPending(t)
    PROVE  Ledger!Issue
<1> DEFINE p == CurrentProbe(t)
           K == SameKeyEntries(p)
<1>1. /\ pending' = (pending \ K) \cup {p}
      /\ UNCHANGED <<batch, expired, received, timeouts>>
  BY DEF InsertPending, rcvVars
<1>2. p.tgt = t /\ p.id = eng[t].nextId /\ p.id \in Nat
  BY DEF CurrentProbe, TypeOK, EngineRecord
<1>3. \A q \in K : q \in pending /\ Hop(q) = Hop(p) /\ q.seq = p.seq
  BY DEF SameKeyEntries, SameKey
<1> HIDE DEF p, K
<1>4. InProgress' = InProgress
  BY <1>1 DEF InProgress
<1>5. p \notin Outstanding
  <2>1. \A n \in Nat : ~(n < n)
    OBVIOUS
  <2> QED BY <1>2, <2>1 DEF Fresh, Outstanding, InProgress
<1>6. p \in Outstanding' /\ Outstanding' \subseteq Outstanding \cup {p}
  BY <1>1, <1>4 DEF Outstanding
<1>7. \A q \in Outstanding \ Outstanding' : Hop(q) = Hop(p) /\ q.seq = p.seq
  BY <1>1, <1>3, <1>4 DEF Outstanding
<1>8. \E x \in Outstanding' \ Outstanding :
        /\ Outstanding' \subseteq Outstanding \cup {x}
        /\ \A q \in Outstanding \ Outstanding' :
              Ledger!HopOf(q) = Ledger!HopOf(x) /\ q.seq = x.seq
  BY <1>5, <1>6, <1>7, HopOfIsHop
<1> QED BY <1>1, <1>8 DEF Ledger!Issue, Ledger!counts, Outstanding

\* SendFailed withdraws the engine's latest probe, or finds it gone.
LEMMA FailureWithdraws ==
    ASSUME TypeOK, Numbered, Fresh, OnePlace, HeldEntryOwn, NEW t \in Targets, SendFailed(t)
    PROVE  Ledger!Withdraw \/ UNCHANGED Ledger!vars
<1> DEFINE p == LastProbe(t)
           K == SameKeyEntries(p)
<1>1. /\ pending' = pending \ K
      /\ UNCHANGED <<batch, expired, received, timeouts>>
      /\ eng[t].pc = "send"
  BY DEF SendFailed, rcvVars
<1>2. p.tgt = t /\ p.id = eng[t].nextId - 1 /\ eng[t].nextId \in Nat
  BY DEF LastProbe, CurrentProbe, TypeOK, EngineRecord
<1>3. K \subseteq {p} /\ K \subseteq pending
  BY <1>1 DEF HeldEntryOwn, SameKeyEntries
<1> HIDE DEF p, K
<1>4. InProgress' = InProgress
  BY <1>1 DEF InProgress
<1>5. CASE K = {}
  BY <1>1, <1>4, <1>5 DEF Ledger!vars, Ledger!counts
<1>6. CASE p \in K
  <2>1. p \in Outstanding /\ p \notin InProgress
    BY <1>3, <1>6 DEF Outstanding, InProgress, OnePlace
  <2>2. Outstanding' = Outstanding \ {p}
    BY <1>1, <1>3, <1>4, <1>6, <2>1 DEF Outstanding
  <2>3. \A q \in Outstanding : q.id \in Nat /\ q.tgt \in Targets
    BY DEF TypeOK, Outstanding, InProgress, BatchEntry, ExpiredEntry, Probe
  <2>4. \A q \in Outstanding : q.id < eng[q.tgt].nextId
    BY DEF Fresh, Outstanding, InProgress
  <2>5. \A q \in Outstanding : q.tgt = p.tgt => q.id <= p.id
    BY <1>2, <2>3, <2>4
  <2> QED BY <1>1, <2>1, <2>2, <2>5 DEF Ledger!Withdraw, Ledger!counts, Outstanding
<1> QED BY <1>3, <1>5, <1>6

\* Taking an entry from the map leaves its probe outstanding.
LEMMA TakingStutters ==
    ASSUME NEW r \in Receivers,
           Receive(r) \/ Cleanup(r) \/ FlushPending(r)
    PROVE  Outstanding' = Outstanding /\ UNCHANGED <<received, timeouts>>
<1>1. CASE Receive(r)
  <2>1. PICK m \in net :
          \/ UNCHANGED <<pending, batch>>
          \/ \E p \in Candidates(m) :
               /\ pending' = pending \ {p}
               /\ batch' = batch \cup {[rcv |-> r, probe |-> p, reply |-> m]}
    BY <1>1 DEF Receive
  <2>2. UNCHANGED <<expired, received, timeouts>>
    BY <1>1 DEF Receive
  <2>3. ASSUME NEW p \in Candidates(m), pending' = pending \ {p},
               batch' = batch \cup {[rcv |-> r, probe |-> p, reply |-> m]}
        PROVE  Outstanding' = Outstanding
    <3>1. p \in pending
      BY CandidatesPending
    <3>2. InProgress' = InProgress \cup {p}
      <4> DEFINE new == [rcv |-> r, probe |-> p, reply |-> m]
      <4>1. new.probe = p /\ batch' \cup expired' = batch \cup expired \cup {new}
        BY <2>2, <2>3
      <4> HIDE DEF new
      <4> QED BY <4>1 DEF InProgress
    <3> QED BY <2>3, <3>1, <3>2 DEF Outstanding
  <2> QED BY <2>1, <2>2, <2>3 DEF Outstanding, InProgress
<1>2. ASSUME NEW S \in SUBSET pending, TakeExpired(r, S), batch' = batch
      PROVE  Outstanding' = Outstanding
  <2>1. InProgress' = InProgress \cup S
    <3> DEFINE taken == {[rcv |-> r, probe |-> p] : p \in S}
    <3>1. S = {e.probe : e \in taken}
      <4>1. \A p \in S : [rcv |-> r, probe |-> p] \in taken /\ [rcv |-> r, probe |-> p].probe = p
        OBVIOUS
      <4>2. \A e \in taken : e.probe \in S
        OBVIOUS
      <4> HIDE DEF taken
      <4> QED BY <4>1, <4>2
    <3>2. batch' \cup expired' = batch \cup expired \cup taken
      BY <1>2 DEF TakeExpired
    <3> HIDE DEF taken
    <3> QED BY <3>1, <3>2 DEF InProgress
  <2> QED BY <1>2, <2>1 DEF TakeExpired, Outstanding
<1>3. CASE Cleanup(r)
  BY <1>2, <1>3 DEF Cleanup, Expire
<1>4. CASE FlushPending(r)
  <2>1. TakeExpired(r, pending) /\ batch' = batch /\ UNCHANGED <<received, timeouts>>
    BY <1>4 DEF FlushPending
  <2> QED BY <1>2, <2>1
<1> QED BY <1>1, <1>3, <1>4

\* Applying a response answers its probe, which is in no other place.
LEMMA ApplyAnswers ==
    ASSUME TypeOK, OnePlace, NEW r \in Receivers, ApplyResponse(r)
    PROVE  Ledger!Answer
<1>1. PICK e \in batch :
        /\ batch' = batch \ {e}
        /\ received' = [received EXCEPT ![Hop(e.probe)] = @ + 1]
  BY DEF ApplyResponse
<1>2. UNCHANGED <<timeouts, pending, expired>>
  BY DEF ApplyResponse
<1>3. e.probe \in Outstanding
  BY DEF Outstanding, InProgress
<1>4. e.probe \notin Outstanding'
  BY <1>1, <1>2 DEF OnePlace, Outstanding, InProgress
<1>5. Outstanding' = Outstanding \ {e.probe}
  <2>1. InProgress \ {e.probe} \subseteq InProgress' /\ InProgress' \subseteq InProgress
    BY <1>1, <1>2 DEF InProgress
  <2> QED BY <1>2, <1>4, <2>1 DEF Outstanding
<1> QED BY <1>1, <1>2, <1>3, <1>5, HopOfIsHop DEF Ledger!Answer, Ledger!Complete, Outstanding

\* Recording a timeout times its probe out.
LEMMA RecordTimesOut ==
    ASSUME TypeOK, OnePlace, NEW r \in Receivers, RecordTimeout(r)
    PROVE  Ledger!TimeOut
<1>1. PICK e \in expired :
        /\ expired' = expired \ {e}
        /\ timeouts' = [timeouts EXCEPT ![Hop(e.probe)] = @ + 1]
  BY DEF RecordTimeout
<1>2. UNCHANGED <<received, pending, batch>>
  BY DEF RecordTimeout
<1>3. e.probe \in Outstanding
  BY DEF Outstanding, InProgress
<1>4. e.probe \notin Outstanding'
  BY <1>1, <1>2 DEF OnePlace, Outstanding, InProgress
<1>5. Outstanding' = Outstanding \ {e.probe}
  <2>1. InProgress \ {e.probe} \subseteq InProgress' /\ InProgress' \subseteq InProgress
    BY <1>1, <1>2 DEF InProgress
  <2> QED BY <1>2, <1>4, <2>1 DEF Outstanding
<1> QED BY <1>1, <1>2, <1>3, <1>5, HopOfIsHop DEF Ledger!TimeOut, Ledger!Complete, Outstanding

\* A reset clears the counters of one target.
LEMMA ResetClears ==
    ASSUME NEW t \in Targets, ResetStats(t)
    PROVE  Ledger!Clear
<1>1. /\ received' = [k \in Hops |-> IF k[1] = t THEN 0 ELSE received[k]]
      /\ timeouts' = [k \in Hops |-> IF k[1] = t THEN 0 ELSE timeouts[k]]
      /\ UNCHANGED <<pending, batch, expired>>
  BY DEF ResetStats, rcvVars
<1>2. <<t, 1, 0>> \in Hops /\ <<t, 1, 0>>[1] = t
  BY DEF Hops, Ttls, Flows
<1> QED BY <1>1, <1>2 DEF Ledger!Clear, InProgress

\* Every other step leaves the ledger as it is.
LEMMA OtherStutters ==
    /\ \A t \in Targets :
          \/ StartRound(t) \/ CountReached(t) \/ EngineCancelled(t) \/ SkipProbe(t)
          \/ SendOk(t) \/ RecordSent(t) \/ TogglePause(t)
          => UNCHANGED Ledger!vars
    /\ \A r \in Receivers :
          EndDrain(r) \/ ReceiveError(r) \/ TimeoutsRecorded(r) => UNCHANGED Ledger!vars
    /\ Cancel \/ UNCHANGED vars => UNCHANGED Ledger!vars
<1>1. ASSUME UNCHANGED <<pending, batch, expired, received, timeouts>>
      PROVE  UNCHANGED Ledger!vars
  BY <1>1 DEF Ledger!vars, Ledger!counts, InProgress
<1>2. ASSUME NEW t \in Targets,
             \/ StartRound(t) \/ CountReached(t) \/ EngineCancelled(t) \/ SkipProbe(t)
             \/ SendOk(t) \/ RecordSent(t) \/ TogglePause(t)
      PROVE  UNCHANGED <<pending, batch, expired, received, timeouts>>
  BY <1>2 DEF StartRound, CountReached, EngineCancelled, SkipProbe, SendOk, RecordSent,
              TogglePause, rcvVars
<1>3. ASSUME NEW r \in Receivers, EndDrain(r) \/ ReceiveError(r) \/ TimeoutsRecorded(r)
      PROVE  UNCHANGED <<pending, batch, expired, received, timeouts>>
  BY <1>3 DEF EndDrain, ReceiveError, TimeoutsRecorded
<1>4. Cancel \/ UNCHANGED vars => UNCHANGED <<pending, batch, expired, received, timeouts>>
  BY DEF Cancel, vars, rcvVars
<1> QED BY <1>1, <1>2, <1>3, <1>4

LEMMA LedgerStep ==
    IInv /\ HeldEntryOwn /\ [Next]_vars => [Ledger!Next]_Ledger!vars
<1> SUFFICES ASSUME IInv, HeldEntryOwn, [Next]_vars
             PROVE  Ledger!Next \/ UNCHANGED Ledger!vars
  BY DEF IInv
<1> USE DEF IInv
<1>1. ASSUME NEW t \in Targets, EngineStep(t) PROVE Ledger!Next \/ UNCHANGED Ledger!vars
  <2>1. CASE InsertPending(t)
    BY <2>1, InsertIssues DEF Ledger!Next
  <2>2. CASE SendFailed(t)
    BY <2>2, FailureWithdraws DEF Ledger!Next
  <2> QED BY <1>1, <2>1, <2>2, OtherStutters DEF EngineStep
<1>2. ASSUME NEW r \in Receivers, ReceiverStep(r) PROVE Ledger!Next \/ UNCHANGED Ledger!vars
  <2>1. CASE Receive(r) \/ Cleanup(r) \/ FlushPending(r)
    BY <2>1, TakingStutters DEF Ledger!vars, Ledger!counts, Outstanding
  <2>2. CASE ApplyResponse(r)
    BY <2>2, ApplyAnswers DEF Ledger!Next
  <2>3. CASE RecordTimeout(r)
    BY <2>3, RecordTimesOut DEF Ledger!Next
  <2> QED BY <1>2, <2>1, <2>2, <2>3, OtherStutters DEF ReceiverStep
<1>3. ASSUME NEW t \in Targets, ResetStats(t) PROVE Ledger!Next
  BY <1>3, ResetClears DEF Ledger!Next
<1> QED BY <1>1, <1>2, <1>3, OtherStutters DEF Next, UserStep

\* Every probe that enters the map is answered, timed out, forgotten with its
\* key or withdrawn, once, and counted at the hop it was sent to, whatever the
\* engines, the receivers and the user do in between.
THEOREM TrackingImplementsLedger == Spec => CountsOnce
<1>1. Init => Ledger!Init
  BY DEF Init, Ledger!Init, InProgress
<1>2. Init => HeldEntryOwn
  BY DEF Init, HeldEntryOwn
<1>3. Spec => [](IInv /\ HeldEntryOwn)
  <2>1. IInv /\ HeldEntryOwn /\ [Next]_vars => IInv' /\ HeldEntryOwn'
    BY IInvStep, HeldEntryStep DEF IInv
  <2> QED BY <1>2, <2>1, IInvInit, PTL DEF Spec
<1>4. Ledger!Spec <=> Ledger!Init /\ [][Ledger!Next]_Ledger!vars
  BY DEF Ledger!Spec
<1> QED BY <1>1, <1>3, <1>4, LedgerStep, PTL DEF Spec, CountsOnce
=============================================================================
