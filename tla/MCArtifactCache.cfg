CONSTANTS
    p1 = p1
    p2 = p2
    l1 = l1
    l2 = l2
    l3 = l3
    Publishers = {p1, p2}
    Loaders = {l1, l2, l3}
    MaxFaults = 3
SPECIFICATION CacheSpec
INVARIANTS ObtainedIsGood KnownIsStored
PROPERTIES ArchiveIsObtained
