CONSTANTS
    v1 = v1
    v2 = v2
    s1 = s1
    s2 = s2
    NoVersion = NoVersion
    Versions <- TwoVersions
    Services <- TwoServices
    Invoked = {s1}
SPECIFICATION FairSpec
CHECK_DEADLOCK FALSE
INVARIANTS TrackersFollow UsedIsValid
PROPERTIES RetiredStaysGone RetirementCompletes
