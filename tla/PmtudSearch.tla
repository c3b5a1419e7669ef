---------------------------- MODULE PmtudSearch ----------------------------
(***************************************************************************)
(* Path MTU discovery for one target: the engine sends one probe with the  *)
(* Don't Fragment flag at the end of every round, at the size the shared   *)
(* search state asks for; the receiver (and, for IPv6 on Linux, the engine *)
(* itself, polling its send socket) matches the answers with the pending   *)
(* map and moves the bounds of the binary search.                          *)
(*                                                                         *)
(* Each acquisition of a lock is one action.  The receiver's own control   *)
(* is that of ProbeTracking: here what it took from the map waits in       *)
(* "taken" until it is applied, in any order.  The flush at shutdown does  *)
(* not update the search and is left out.                                  *)
(***************************************************************************)
EXTENDS Integers, Sequences, FiniteSets

CONSTANTS
    Lo, Hi,         \* PmtudState::new: 68 or 1280, and 1500 or 9216
    PathMtus,       \* the paths considered, as the MTUs of their links in order
    BogusMtus,      \* what a router may report that does not tell the truth
    Polls,          \* {TRUE} if the engine polls for echo replies, {FALSE} if not
    Rejects,        \* {TRUE} if a router may reject what a later link cannot carry
    HostLearns,     \* TRUE: the host may refuse sizes above a reported MTU
    SeqMod,         \* sequence numbers are u8: 256 values
    MaxOpen,        \* bound on the probes that are undecided at a time
    MaxLost,        \* bound on the probes lost, answered too late, or falsely
    MaxResets,      \* bound on the statistics resets
    MaxNormal       \* bound on the normal probes sent to the target's distance

NoMtu == 0          \* no discovered_mtu, or no MTU in a Frag Needed message
U16Max == 65535     \* the largest size of a packet, and of a u16

ASSUME ConstantsAssumption ==
    /\ Lo \in Nat \ {0} /\ Hi \in 0..U16Max /\ Lo + 8 <= Hi
    /\ \A path \in PathMtus : path \in Seq(Nat) /\ path # <<>>
    /\ \A path \in PathMtus : \A i \in DOMAIN path : path[i] \in Lo..U16Max
    /\ BogusMtus \subseteq Hi..U16Max
    /\ Polls \subseteq BOOLEAN /\ Rejects \subseteq BOOLEAN /\ HostLearns \in BOOLEAN
    /\ SeqMod \in Nat \ {0}
    /\ MaxOpen \in Nat /\ MaxLost \in Nat /\ MaxResets \in Nat /\ MaxNormal \in Nat

VARIABLES
    links, poll,    \* the path and the platform of this run, never changed
    rejects,        \* whether routers of the path reject probes, never changed
    pmtud,          \* PmtudState
    found,          \* dest_ttl is set
    pc, size,       \* the engine: where it is, and the size it read
    seq, normalSeq, \* the engine's two sequence counters
    hostMtu,        \* the largest packet the host lets out on this path
    pending,        \* the entries of the pending map at the target's distance
    net,            \* answers on their way
    taken,          \* entries taken from the map and not yet applied
    lost, resets    \* history: probes that MaxLost counts, and resets

vars == <<links, poll, rejects, pmtud, found, pc, size, seq, normalSeq, hostMtu, pending,
          net, taken, lost, resets>>
-----------------------------------------------------------------------------
Phase == {"waiting", "searching", "complete"}
Sizes == 0..U16Max
Seqs == 0..(SeqMod - 1)

PmtudState ==
    [min : Sizes, max : Sizes, current : Sizes, successes : 0..2, failures : 0..2,
     discovered : Sizes, phase : Phase]

\* An entry of the map: a PMTUD probe of some size, or a normal probe.
Entry == [pmtud : BOOLEAN, seq : Seqs, size : Sizes]
\* An answer to a probe of either kind: an echo reply, a Frag Needed message, or
\* any other ICMP error (TimeExceeded, an unreachable of another code).
Answer == [pmtud : BOOLEAN, seq : Seqs, kind : {"reply", "fragNeeded", "error"}, mtu : Sizes]
\* What an entry was taken for; a timeout is no answer.
Outcome == [entry : Entry, kind : {"reply", "fragNeeded", "error", "timeout"}, mtu : Sizes,
            marked : BOOLEAN]

\* The path carries a packet of s bytes unfragmented.
Fits(s) == \A i \in DOMAIN links : s <= links[i]

\* The links at which a packet of s bytes is stopped: the first too small one.
StoppedAt(s) ==
    {i \in DOMAIN links : links[i] < s /\ \A j \in 1..(i - 1) : s <= links[j]}

\* The answers a probe of s bytes may get: the first link that cannot carry it
\* reports its MTU, or is a router that reports none, or says nothing; a router
\* that saw it may send another error instead, and where the path rejects
\* probes, one before that link may do so too.
Answers(q, s) ==
    LET Sent(kind, mtus) == {[pmtud |-> TRUE, seq |-> q, kind |-> kind, mtu |-> m] : m \in mtus}
        errors == IF Fits(s) \/ rejects THEN Sent("error", {NoMtu}) ELSE {}
    IN errors \cup
       IF Fits(s) THEN Sent("reply", {NoMtu})
       ELSE Sent("fragNeeded", {links[i] : i \in StoppedAt(s)} \cup {NoMtu})

New == [min |-> Lo, max |-> Hi, current |-> Hi, successes |-> 0, failures |-> 0,
        discovered |-> NoMtu, phase |-> "waiting"]

Init ==
    /\ links \in PathMtus /\ poll \in Polls /\ rejects \in Rejects
    /\ pmtud = New
    /\ found = FALSE
    /\ pc = "idle" /\ size = 0 /\ seq = 0 /\ normalSeq = 0
    /\ hostMtu = links[1]
    /\ pending = {} /\ net = {} /\ taken = {}
    /\ lost = 0 /\ resets = 0
-----------------------------------------------------------------------------
(* PmtudState: the operations of the search, as functions of its state. *)

\* Mutant: within 16 bytes.
IsConvergedEarly(p) == p.max - p.min < 16

\* Within 8 bytes; the difference saturates at zero.
IsConverged(p) == p.max - p.min < 8

NextProbeSize(p) == (p.min + p.max) \div 2

\* Mutant: the result is the bound that was not tried.
AdvanceToUpper(p) ==
    IF IsConverged(p) THEN [p EXCEPT !.discovered = p.max, !.phase = "complete"]
    ELSE [p EXCEPT !.current = NextProbeSize(p)]

AdvanceSearch(p) ==
    IF IsConverged(p) THEN [p EXCEPT !.discovered = p.min, !.phase = "complete"]
    ELSE [p EXCEPT !.current = NextProbeSize(p)]

ClearCounts(p) == [p EXCEPT !.successes = 0, !.failures = 0]

RecordSuccess(p) ==
    IF p.failures > 0 THEN [p EXCEPT !.failures = 0, !.successes = 1]
    ELSE IF p.successes + 1 < 2 THEN [p EXCEPT !.successes = @ + 1]
    ELSE AdvanceSearch(ClearCounts([p EXCEPT !.min = p.current]))

RecordFailure(p) ==
    IF p.successes > 0 THEN [p EXCEPT !.successes = 0, !.failures = 1]
    ELSE IF p.failures + 1 < 2 THEN [p EXCEPT !.failures = @ + 1]
    ELSE AdvanceSearch(ClearCounts([p EXCEPT !.max = p.current - 1]))

\* Mutant: a reported MTU is always the new upper bound.
RecordFragNeededBlindly(p, mtu) ==
    IF mtu < p.max
    THEN [p EXCEPT !.discovered = mtu, !.phase = "complete", !.max = mtu,
                   !.min = IF mtu < p.min THEN mtu ELSE p.min]
    ELSE AdvanceSearch(ClearCounts([p EXCEPT !.max = mtu]))

\* A lower MTU than the search knew is the result; another one is no news.
RecordFragNeeded(p, mtu) ==
    IF mtu < p.max
    THEN [p EXCEPT !.discovered = mtu, !.phase = "complete", !.max = mtu,
                   !.min = IF mtu < p.min THEN mtu ELSE p.min]
    ELSE AdvanceSearch(ClearCounts(p))

\* Mutant: the size under test is not computed again.
ClampMaxOnly(p, s) == ClearCounts([p EXCEPT !.max = s - 1])

\* The local send failed with EMSGSIZE: neither the phase nor the size now
\* searched for is looked at.
ClampMax(p, s) == AdvanceSearch(ClearCounts([p EXCEPT !.max = s - 1]))

StartSearch(p) == [p EXCEPT !.phase = "searching", !.current = p.max]
-----------------------------------------------------------------------------
(* The engine, at the end of a round. *)

\* The round is over; the size it used is a local.
Idle == pc' = "idle" /\ size' = 0

\* check_pmtud_ready: the destination's distance is known and the search is
\* not over; the first time, it starts.  Bounds: at most MaxOpen probes are
\* undecided at a time, and an answer does not outlive SeqMod rounds.
CheckReady ==
    /\ pc = "idle"
    /\ Cardinality(pending) + Cardinality(taken) < MaxOpen
    /\ \A m \in net : m.pmtud => m.seq # seq
    /\ found
    /\ pmtud.phase # "complete"
    /\ pmtud' = IF pmtud.phase = "waiting" THEN StartSearch(pmtud) ELSE pmtud
    /\ pc' = "ready"
    /\ UNCHANGED <<links, poll, rejects, found, size, seq, normalSeq, hostMtu, pending,
                   net, taken, lost, resets>>

\* get_pmtud_probe_size, under a lock of its own: the search may have ended, or
\* been reset, since.
GetSize ==
    /\ pc = "ready"
    /\ IF pmtud.phase = "searching" THEN pc' = "insert" /\ size' = pmtud.current
       ELSE Idle
    /\ UNCHANGED <<links, poll, rejects, pmtud, found, seq, normalSeq, hostMtu, pending,
                   net, taken, lost, resets>>

\* The key of an entry, at the target's distance and with flow 0.
SameKeyEntries(isPmtud, q) == {e \in pending : e.pmtud = isPmtud /\ e.seq = q}

InsertProbe ==
    /\ pc = "insert"
    /\ pending' = (pending \ SameKeyEntries(TRUE, seq))
                    \cup {[pmtud |-> TRUE, seq |-> seq, size |-> size]}
    /\ pc' = "send"
    /\ UNCHANGED <<links, poll, rejects, pmtud, found, size, seq, normalSeq, hostMtu, net,
                   taken, lost, resets>>

\* Mutant: the sequence number does not wrap.
NextSeqUnwrapped(n) == n + 1

NextSeq(n) == (n + 1) % SeqMod

\* The probe leaves; a probe the path can carry is answered or lost, a larger
\* one may vanish without a word, or be answered with an MTU that is none.
SendOk ==
    /\ pc = "send"
    /\ size <= hostMtu
    /\ \/ \E m \in Answers(seq, size) : net' = net \cup {m} /\ UNCHANGED lost
       \/ ~Fits(size) /\ UNCHANGED <<net, lost>>
       \/ /\ lost < MaxLost /\ lost' = lost + 1
          /\ \/ Fits(size) /\ UNCHANGED net
             \/ ~Fits(size) /\ \E m \in BogusMtus :
                  net' = net \cup {[pmtud |-> TRUE, seq |-> seq, kind |-> "fragNeeded", mtu |-> m]}
    /\ seq' = NextSeq(seq)
    /\ Idle
    /\ UNCHANGED <<links, poll, rejects, pmtud, found, normalSeq, hostMtu, pending, taken,
                   resets>>

\* EMSGSIZE: the entry is removed, then the search is clamped.
SendTooBig ==
    /\ pc = "send"
    /\ size > hostMtu
    /\ pending' = pending \ SameKeyEntries(TRUE, seq)
    /\ pc' = "clamp"
    /\ UNCHANGED <<links, poll, rejects, pmtud, found, size, seq, normalSeq, hostMtu, net,
                   taken, lost, resets>>

Clamp ==
    /\ pc = "clamp"
    /\ pmtud' = ClampMax(pmtud, size)
    /\ Idle
    /\ UNCHANGED <<links, poll, rejects, found, seq, normalSeq, hostMtu, pending, net,
                   taken, lost, resets>>

\* Any other failure: the entry is removed, the probe is tried again next round.
SendFailed ==
    /\ pc = "send"
    /\ lost < MaxLost
    /\ lost' = lost + 1
    /\ pending' = pending \ SameKeyEntries(TRUE, seq)
    /\ Idle
    /\ UNCHANGED <<links, poll, rejects, pmtud, found, seq, normalSeq, hostMtu, net,
                   taken, resets>>

\* A normal probe of the round, at the target's distance (module ProbeTracking
\* has the steps it takes); its answer may come late, or never.
NormalProbe ==
    /\ pc = "idle"
    /\ normalSeq < MaxNormal
    /\ pending' = pending \cup {[pmtud |-> FALSE, seq |-> normalSeq % SeqMod, size |-> 0]}
    /\ \/ \E kind \in {"reply", "error"} :
            net' = net \cup {[pmtud |-> FALSE, seq |-> normalSeq % SeqMod, kind |-> kind,
                              mtu |-> NoMtu]}
       \/ UNCHANGED net
    /\ normalSeq' = normalSeq + 1
    /\ UNCHANGED <<links, poll, rejects, pmtud, found, pc, size, seq, hostMtu, taken,
                   lost, resets>>

Engine ==
    \/ CheckReady \/ GetSize \/ InsertProbe
    \/ SendOk \/ SendTooBig \/ Clamp \/ SendFailed
-----------------------------------------------------------------------------
(* The answers, and what they do to the search. *)

\* The entry an answer takes: of its own kind if there is one, or else the
\* other entry with its sequence number.
Preferred(isPmtud, q) ==
    IF SameKeyEntries(isPmtud, q) # {} THEN SameKeyEntries(isPmtud, q)
    ELSE SameKeyEntries(~isPmtud, q)

TakeFor(m, entries) ==
    /\ net' = net \ {m}
    /\ pending' = pending \ entries
    /\ taken' = taken \cup
         {[entry |-> e, kind |-> m.kind, mtu |-> m.mtu, marked |-> m.pmtud] : e \in entries}

\* What the receiver takes for an answer to a PMTUD probe: an echo reply whose
\* payload has the marker, and every Frag Needed message; another error quotes
\* no payload, so nothing tells.
ToldPmtud(m) == m.kind = "fragNeeded" \/ (m.kind = "reply" /\ m.pmtud)

\* The receiver thread.
Receive ==
    \E m \in net :
        /\ poll => m.kind # "reply"
        /\ TakeFor(m, Preferred(ToldPmtud(m), m.seq))
        /\ hostMtu' \in {hostMtu} \cup
             (IF HostLearns /\ m.mtu # NoMtu /\ m.mtu < hostMtu THEN {m.mtu} ELSE {})
        /\ UNCHANGED <<links, poll, rejects, pmtud, found, pc, size, seq, normalSeq, lost,
                       resets>>

\* poll_ipv6_echo_reply, between two rounds: it tries a normal entry first.
PollEcho ==
    /\ poll /\ pc = "idle"
    /\ \E m \in net :
        /\ m.kind = "reply"
        /\ TakeFor(m, Preferred(FALSE, m.seq))
    /\ UNCHANGED <<links, poll, rejects, pmtud, found, pc, size, seq, normalSeq, hostMtu,
                   lost, resets>>

\* The timeout comes before the probe was sent, or before its answer.
TooEarly(e) ==
    /\ e.pmtud /\ Fits(e.size)
    /\ \/ pc = "send" /\ e.seq = seq
       \/ \E m \in net : m.pmtud /\ m.seq = e.seq

\* The cleanup finds an entry older than the timeout.
Expire ==
    \E e \in pending :
        /\ lost' = IF TooEarly(e) THEN lost + 1 ELSE lost
        /\ lost' <= MaxLost
        /\ pending' = pending \ {e}
        /\ taken' = taken \cup
             {[entry |-> e, kind |-> "timeout", mtu |-> NoMtu, marked |-> e.pmtud]}
        /\ UNCHANGED <<links, poll, rejects, pmtud, found, pc, size, seq, normalSeq,
                       hostMtu, net, resets>>

\* Mutant: timeouts do not count.
JudgedByAnswers(p, o) ==
    IF ~o.entry.pmtud \/ p.phase # "searching" \/ o.entry.size # p.current THEN p
    ELSE IF o.kind = "timeout" THEN p
    ELSE IF o.kind = "fragNeeded" /\ o.mtu = NoMtu THEN RecordFailure(p)
    ELSE IF o.kind = "fragNeeded" THEN RecordFragNeeded(p, o.mtu)
    ELSE RecordSuccess(p)

\* The search state after an outcome: only a PMTUD entry of the size searched
\* for counts, whatever else was sent since.  Any answer but Frag Needed is a
\* success, whoever sent it.
Judged(p, o) ==
    IF ~o.entry.pmtud \/ p.phase # "searching" \/ o.entry.size # p.current THEN p
    ELSE IF o.kind = "timeout" \/ (o.kind = "fragNeeded" /\ o.mtu = NoMtu) THEN RecordFailure(p)
    ELSE IF o.kind = "fragNeeded" THEN RecordFragNeeded(p, o.mtu)
    ELSE RecordSuccess(p)

\* The outcome is applied, under the session's lock; an echo reply of the
\* target, to either kind of probe, tells its distance.
ApplyOutcome ==
    \E o \in taken :
        /\ taken' = taken \ {o}
        /\ pmtud' = Judged(pmtud, o)
        /\ found' = (found \/ o.kind = "reply")
        /\ UNCHANGED <<links, poll, rejects, pc, size, seq, normalSeq, hostMtu, pending,
                       net, lost, resets>>

\* A normal probe reached the target.
FindDestination ==
    /\ ~found
    /\ found' = TRUE
    /\ UNCHANGED <<links, poll, rejects, pmtud, pc, size, seq, normalSeq, hostMtu,
                   pending, net, taken, lost, resets>>

\* reset_stats: a new search, with what is in flight left in flight.
ResetStats ==
    /\ resets < MaxResets
    /\ resets' = resets + 1
    /\ pmtud' = New
    /\ found' = FALSE
    /\ UNCHANGED <<links, poll, rejects, pc, size, seq, normalSeq, hostMtu, pending, net,
                   taken, lost>>

Next ==
    \/ Engine
    \/ Receive \/ PollEcho \/ Expire \/ ApplyOutcome
    \/ FindDestination \/ ResetStats

\* The search on its own.
Spec == Init /\ [][Next]_vars

\* The search among the normal probes of its engine, one of which must have
\* told the target's distance before it starts.
MixedNext ==
    \/ Engine \/ NormalProbe
    \/ Receive \/ PollEcho \/ Expire \/ ApplyOutcome

MixedSpec == Init /\ [][MixedNext]_vars

\* Rounds go on; sends do not fail for ever (MaxLost bounds them); answers
\* arrive, timeouts happen and outcomes are applied.
Fairness ==
    /\ WF_vars(CheckReady) /\ WF_vars(GetSize) /\ WF_vars(InsertProbe)
    /\ WF_vars(SendOk \/ SendTooBig) /\ WF_vars(Clamp)
    /\ WF_vars(Receive) /\ SF_vars(PollEcho) /\ WF_vars(Expire) /\ WF_vars(ApplyOutcome)
    /\ WF_vars(FindDestination)

LiveSpec == Spec /\ Fairness
-----------------------------------------------------------------------------
TypeOK ==
    /\ links \in PathMtus /\ poll \in BOOLEAN /\ rejects \in BOOLEAN
    /\ pmtud \in PmtudState
    /\ found \in BOOLEAN
    /\ pc \in {"idle", "ready", "insert", "send", "clamp"}
    /\ size \in Sizes /\ seq \in Seqs /\ normalSeq \in 0..MaxNormal
    /\ hostMtu \in Sizes
    /\ pending \subseteq Entry /\ net \subseteq Answer /\ taken \subseteq Outcome
    /\ lost \in 0..MaxLost /\ resets \in 0..MaxResets

\* The lower bound of the search, and the result, are sizes the path carries,
\* as the fields of PmtudState say.  Where no router rejects a probe before the
\* link that is too narrow for it, no late, stale, lost or repeated answer makes
\* the search promise more; where one does, its error counts as a success.
NeverAbovePath ==
    ~rejects => Fits(pmtud.min) /\ (pmtud.discovered # NoMtu => Fits(pmtud.discovered))

\* As long as no probe was lost or timed out before its answer, no size above
\* the upper bound gets through, and none 8 bytes or more above the result.
NeverFarBelow ==
    lost = 0 =>
        /\ \A s \in (pmtud.max + 1)..Hi : ~Fits(s)
        /\ pmtud.phase = "complete" => \A s \in (pmtud.discovered + 8)..Hi : ~Fits(s)

\* A search in progress probes between its bounds, above the size known to
\* work, and has not yet converged.
ProbesInside ==
    pmtud.phase = "searching" =>
        /\ pmtud.min < pmtud.current /\ pmtud.current <= pmtud.max
        /\ pmtud.successes + pmtud.failures <= 1

\* While one search goes on its bounds only close in; the upper one may open
\* again only where the host refuses a size that a search before a reset, whose
\* probes were still undecided, has got behind.
BoundsCloseIn == [][
    pmtud.phase = "searching" /\ pmtud'.phase = "searching" =>
        /\ pmtud.min <= pmtud'.min
        /\ pmtud'.max <= pmtud.max \/ (resets > 0 /\ pc = "clamp")]_vars

\* An echo reply to a PMTUD probe takes the entry of a PMTUD probe: the flag in
\* the key keeps normal and PMTUD probes apart (trace/engine.rs:258).
NoCollision == \A o \in taken : o.kind = "reply" /\ o.marked => o.entry.pmtud

\* The search ends, on a path that loses finitely many probes and rejects none:
\* where rejections and silence take turns at one size, neither confirms it.
Discovers == ~rejects => <>[](pmtud.phase = "complete")
=============================================================================
