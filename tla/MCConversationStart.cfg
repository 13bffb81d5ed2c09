\* Three concurrent calls, three users, any of them deleted at any time.
SPECIFICATION Spec
CONSTANTS
    User = {1, 2, 3}
    Call = {c1, c2, c3}
    ConvId = {k1, k2, k3}
    NoConv = NoConv
SYMMETRY Symmetry
INVARIANTS
    OnePerPair
    AnnouncedOnce
PROPERTIES
    ImplementsDirectory
    OneStep
CHECK_DEADLOCK FALSE
