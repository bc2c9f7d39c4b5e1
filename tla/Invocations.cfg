CONSTANTS
    NoSemaphore = NoSemaphore
    Count = 3
    Limit = 1
    Retentions = {1, 2}
SPECIFICATION FairSpec
CHECK_DEADLOCK FALSE
INVARIANTS TasksArePermitted AnswerIsRecorded
PROPERTIES OutcomeIsFinal NewestAreKept EveryInvocationEnds
