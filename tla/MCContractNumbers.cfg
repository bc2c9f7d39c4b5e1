CONSTANTS
    add = add
    sub = sub
    int = int
    text = text
    p1 = p1
    p2 = p2
    NoType = NoType
    Methods <- TwoMethods
    Names <- TwoNames
    Types <- TwoTypes
    Interfaces <- SmallInterfaces
    Publications <- TwoPublications
    MaxContracts = 4
    MaxStamp = 5
SYMMETRY Symmetry
SPECIFICATION Spec
INVARIANTS NumbersAreDistinct SameMajorIsCompatible
CHECK_DEADLOCK FALSE
