CONSTANTS
    r1 = r1
    r2 = r2
    A = A
    B = B
    t = t
    Requests = {r1, r2}
    Passwords = {A, B}
    Bootstrap = A
    Tokens = {t}
    Ttl = 1
    MaxTime = 1
    MaxChanges = 2
    MaxHooks = 2
SYMMETRY Symmetry
SPECIFICATION Spec
INVARIANTS LateIsRefused ValidIsAccepted
PROPERTIES ChangesAreKnowing
