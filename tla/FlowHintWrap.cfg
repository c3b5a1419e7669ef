CONSTANTS
    Ident = 4660
    SrcPortBase = 65534
    None = None
    A = A
    B = B
    T = T
    Addrs <- MCAddrs
    FlowIds = {0, 1}
    RecentWindow = 24
    MaxRouteChanges = 2
    NoAddr = NoAddr
    MaxChecks = 6
    Profiles <- MCLastPorts
    MaxTtl = 3
SPECIFICATION Spec
INVARIANT FlowHintKept
CHECK_DEADLOCK FALSE
