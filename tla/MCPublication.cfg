CONSTANTS
    i1 = i1
    t1 = t1
    t2 = t2
    t3 = t3
    NoRevision = NoRevision
    Publications <- MCPublications
    Syncs <- MCSyncs
    FirstCommit = 1
    Requests = {t1, t2, t3}
SPECIFICATION Spec
CHECK_DEADLOCK FALSE
INVARIANTS RoutedRevisionIsActive OneActiveRevision
PROPERTIES StopIsKept PublishedInOrder AcceptedPushIsPublished
