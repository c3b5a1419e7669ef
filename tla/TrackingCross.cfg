SPECIFICATION BatchSpec
CONSTANTS
    a = a
    b = b
    v4 = v4
    v6 = v6
    Targets = {a, b}
    Receivers = {v4}
    Family <- OneFamily
    Dist <- NearAndFar
    MaxTtl = 2
    NumFlows = 1
    Icmp = TRUE
    NatPresent = FALSE
    SeqMod = 2
    Count = 1
    DrainBatch = 1
    MaxErrors = 2
    NoFlow = NoFlow
INVARIANT NoCrossTarget
CHECK_DEADLOCK FALSE
