SPECIFICATION Spec
CONSTANTS
    a = a
    b = b
    v4 = v4
    v6 = v6
    Targets = {a}
    Receivers = {v4}
    Family <- OneFamily
    Dist <- Near
    MaxTtl = 1
    NumFlows = 1
    Icmp = TRUE
    NatPresent = FALSE
    SeqMod = 2
    Count = 3
    DrainBatch = 2
    MaxErrors = 2
    NoFlow = NoFlow
INVARIANTS TypeOK Conservation DeadHoldsNothing
PROPERTY CountsOnce
CHECK_DEADLOCK FALSE
