SPECIFICATION FairSpec
CONSTANTS
    r1 = r1
    r2 = r2
    r3 = r3
    Requests = {r1, r2, r3}
    MaxIo = 2
    LeaseTtl = 1
    IdleCap = 0
INVARIANTS BooksAgree SettledHoldsNothing
PROPERTIES ImplementsLeaseSlots LeasesAreReturned
