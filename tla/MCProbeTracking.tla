-------------------------- MODULE MCProbeTracking --------------------------
(* Instances of ProbeTracking for TLC. *)
EXTENDS ProbeRefinement

CONSTANTS a, b, v4, v6

OneFamily == [t \in Targets |-> v4]
TwoFamilies == [t \in Targets |-> IF t = a THEN v4 ELSE v6]
NearAndFar == [t \in Targets |-> IF t = a THEN 1 ELSE 2]
Near == [t \in Targets |-> 1]
Far == [t \in Targets |-> 2]
=============================================================================
