CONSTANTS
    q1 = q1
    q2 = q2
    h1 = h1
    h2 = h2
    NoActor = NoActor
    Requests <- TwoRequests
    Handles <- TwoHandles
    MaxReplicas = 2
    MaxIo = 1
    Target = 1
    WarmSpares = 0
    HotTraffic = FALSE
    SlowClock = TRUE
    Budgets <- WithRetirement
    DrainCanFail = FALSE
SPECIFICATION Spec
SYMMETRY Interchangeable
INVARIANTS NoActorIsForgotten
PROPERTY KillOnlyEmpty
