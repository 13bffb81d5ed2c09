\* Three calls on a profile and its reviews, each of any kind.
SPECIFICATION Spec
CONSTANTS
    cust = cust
    trad = trad
    other = other
    old1 = old1
    boss = boss
    deputy = deputy
    why = why
    Call = {c1, c2, c3}
    User = {cust, trad, other}
    Old = {old1}
    Admin = {boss, deputy}
    Reason = {why}
    Request <- AnyOf
    Table <- Tables
    Null = Null
SYMMETRY Symmetry
INVARIANTS
    ContactOnce
    LastDecisionStands
    BulkCounts
    ErasedGone
CHECK_DEADLOCK FALSE
