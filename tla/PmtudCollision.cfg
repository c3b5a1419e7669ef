SPECIFICATION MixedSpec
CONSTANTS
    Lo = 1280
    Hi = 1301
    PathMtus <- OneBottleneck
    BogusMtus = {}
    Polls = {TRUE}
    Rejects = {FALSE}
    HostLearns = FALSE
    SeqMod = 4
    MaxLost = 0
    MaxOpen = 3
    MaxResets = 0
    MaxNormal = 2
INVARIANT NoCollision
CHECK_DEADLOCK FALSE
