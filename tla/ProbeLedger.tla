----------------------------- MODULE ProbeLedger -----------------------------
(***************************************************************************)
(* What probe tracking promises, without engines, receivers, locks or      *)
(* packets: a probe that is outstanding is answered or times out, once,    *)
(* and is counted then at the hop and the flow it was sent to.  A probe is *)
(* a record with a target, a TTL, a flow, a sequence number and an id.     *)
(***************************************************************************)
EXTENDS Integers

CONSTANT Hops       \* the hops and flows of the targets

VARIABLES
    outstanding,    \* the probes neither answered nor timed out
    answered,       \* the answers counted, of each hop
    timedOut        \* the timeouts counted, of each hop

counts == <<answered, timedOut>>
vars == <<outstanding, counts>>

HopOf(p) == <<p.tgt, p.ttl, p.flow>>

Init ==
    /\ outstanding = {}
    /\ answered = [h \in Hops |-> 0] /\ timedOut = [h \in Hops |-> 0]

\* A new probe; one with the same hop and sequence number is forgotten.
Issue ==
    /\ \E p \in outstanding' \ outstanding :
        /\ outstanding' \subseteq outstanding \cup {p}
        /\ \A q \in outstanding \ outstanding' : HopOf(q) = HopOf(p) /\ q.seq = p.seq
    /\ UNCHANGED counts

\* The latest probe of a target could not be sent.
Withdraw ==
    /\ \E p \in outstanding :
        /\ outstanding' = outstanding \ {p}
        /\ \A q \in outstanding : q.tgt = p.tgt => q.id <= p.id
    /\ UNCHANGED counts

Complete(p, tally) == [tally EXCEPT ![HopOf(p)] = @ + 1]

Answer == \E p \in outstanding :
    outstanding' = outstanding \ {p} /\ answered' = Complete(p, answered) /\ UNCHANGED timedOut
TimeOut == \E p \in outstanding :
    outstanding' = outstanding \ {p} /\ timedOut' = Complete(p, timedOut) /\ UNCHANGED answered

\* The counters of one target are cleared; its probes stay outstanding.
Clear == \E h \in Hops :
    /\ answered' = [k \in Hops |-> IF k[1] = h[1] THEN 0 ELSE answered[k]]
    /\ timedOut' = [k \in Hops |-> IF k[1] = h[1] THEN 0 ELSE timedOut[k]]
    /\ UNCHANGED outstanding

Next == Issue \/ Withdraw \/ Answer \/ TimeOut \/ Clear
Spec == Init /\ [][Next]_vars
=============================================================================
