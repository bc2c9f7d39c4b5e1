CONSTANTS
    s1 = s1
    s2 = s2
    m1 = m1
    c1 = c1
    Loop = Loop
    Nobody = Nobody
    Services <- TwoServices
    Methods <- OneMethod
    Calls <- OneCall
    MaxRequests = 4
SPECIFICATION RoutesFairSpec
INVARIANT MethodsAreUnique
PROPERTY RoutesConverge
