--------------------------- MODULE ProbeRefinement ---------------------------
(***************************************************************************)
(* Probe tracking implements the ledger: a probe is outstanding from the   *)
(* insertion of its entry, through the receiver that took it, until the    *)
(* counter of its hop moves.                                               *)
(***************************************************************************)
EXTENDS ProbeTracking

InProgress == {e.probe : e \in batch \cup expired}

Ledger == INSTANCE ProbeLedger WITH
    outstanding <- pending \cup InProgress, answered <- received, timedOut <- timeouts

\* Every step of the engines, the receivers and the user is one of the ledger:
\* no interleaving counts a probe twice, at another hop or target than its own,
\* or takes it out of the map and drops it (pending.rs, receiver.rs, engine.rs).
CountsOnce == Ledger!Spec
=============================================================================
