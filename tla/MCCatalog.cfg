\* Three calls of any kind on two categories and a help request.
SPECIFICATION CatalogSpec
CONSTANTS
    plumbing = plumbing
    roofing = roofing
    painting = painting
    old1 = old1
    old2 = old2
    help1 = help1
    r1 = r1
    r2 = r2
    Call = {c1, c2, c3}
    Old = {old1, old2, help1}
    CategoryName = {plumbing, roofing, painting}
    Rest = {r1, r2}
    CatalogRequest <- AnyOf
    FirstRows <- Tables
    NoRow = NoRow
SYMMETRY Symmetry
INVARIANTS
    OneName
PROPERTY ActiveIfAsked
CHECK_DEADLOCK FALSE
