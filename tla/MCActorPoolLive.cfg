CONSTANTS
    q1 = q1
    q2 = q2
    h1 = h1
    h2 = h2
    NoActor = NoActor
    Requests <- TwoRequests
    Handles <- TwoHandles
    MaxReplicas = 2
    MaxIo = 1
    Target = 1
    WarmSpares = 0
    HotTraffic = TRUE
    SlowClock = TRUE
    Budgets <- Enduring
    DrainCanFail = FALSE
SPECIFICATION FairSpec
INVARIANTS ReplicaHasOneOwner
PROPERTIES ScaleToZero StarvedOnlyByOthers
