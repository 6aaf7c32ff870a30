SPECIFICATION Spec
CONSTANTS
    u1 = u1
    u2 = u2
    b1 = b1
    b2 = b2
    User <- TwoUsers
    Bucket <- TwoBuckets
    Key <- Objects
    MaxSize = 2
    MaxErrors = 2
SYMMETRY Symmetry
INVARIANTS
    Bounded
    OneUserPerObject
    ReadsFindTheirObject
    NothingStranded
PROPERTIES
    EvictsOldest
CHECK_DEADLOCK FALSE
