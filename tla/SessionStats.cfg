CONSTANTS
    Ident = 4660
    SrcPortBase = 50000
    None = None
    A = A
    B = B
    T = T
    Addrs <- MCAddrs
    FlowIds = {0, 1}
    RecentWindow = 24
    MaxRouteChanges = 2
    NoAddr = NoAddr
    MaxChecks = 6
    Profiles <- MCProfiles
    MaxTtl = 3
SPECIFICATION Spec
INVARIANTS TypeOK FlowAccounting FlapTracksPrimary RouteChangesChain EcmpSettled ManipEvidence ReplayRebuilds ReplayReaches OwnProbeFound ExtensionsRead FlowHintKept
PROPERTIES NoFlicker VerdictSettles
CHECK_DEADLOCK FALSE
