SPECIFICATION LiveSpec
CONSTANTS
    Lo = 1280
    Hi = 1312
    PathMtus <- OneBottleneck
    BogusMtus = {1312}
    Polls = {TRUE, FALSE}
    Rejects = {TRUE, FALSE}
    HostLearns = TRUE
    SeqMod = 2
    MaxLost = 2
    MaxOpen = 2
    MaxResets = 1
    MaxNormal = 0
INVARIANTS TypeOK NeverAbovePath NeverFarBelow ProbesInside
PROPERTIES BoundsCloseIn Discovers
CHECK_DEADLOCK FALSE
