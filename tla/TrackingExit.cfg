SPECIFICATION LiveSpec
CONSTANTS
    a = a
    b = b
    v4 = v4
    v6 = v6
    Targets = {a}
    Receivers = {v4}
    Family <- OneFamily
    Dist <- Near
    MaxTtl = 1
    NumFlows = 2
    Icmp = FALSE
    NatPresent = TRUE
    SeqMod = 2
    Count = 1
    DrainBatch = 1
    MaxErrors = 2
    NoFlow = NoFlow
PROPERTIES Settles Terminates
CHECK_DEADLOCK FALSE
