CONSTANTS
    Requests = {q1, q2, q3, q4}
    MaxLoads = 3
SPECIFICATION FairSpec
CHECK_DEADLOCK FALSE
INVARIANTS RunningIsLoaded LoadsAreClean
PROPERTIES WaitersLearn
