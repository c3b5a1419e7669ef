SPECIFICATION Spec
CONSTANTS
    Lo = 1280
    Hi = 1500
    PathMtus <- TwoBottlenecks
    BogusMtus = {}
    Polls = {TRUE, FALSE}
    Rejects = {FALSE}
    HostLearns = FALSE
    SeqMod = 2
    MaxLost = 0
    MaxOpen = 2
    MaxResets = 0
    MaxNormal = 0
INVARIANT NeverAbovePath
CHECK_DEADLOCK FALSE
