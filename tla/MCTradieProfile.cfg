\* Three calls of any kind.
SPECIFICATION Spec
CONSTANTS
    a = a
    b = b
    u = u
    Call = {c1, c2, c3}
    Item = {a, b, u}
    Unlisted = {u}
    Request <- AnyOf
    MaxServices = 2
    MaxPhotos = 2
    NoProfile = NoProfile
SYMMETRY Symmetry
INVARIANTS
    SetupReplaces
    LimitInSequence
    ImageLostOnlyInRace
CHECK_DEADLOCK FALSE
