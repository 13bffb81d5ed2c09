\* A client reads each list, filtered or not; rows are inserted, leave, change or move.
SPECIFICATION PagingSpec
CONSTANTS
    i1 = i1
    i2 = i2
    i3 = i3
    i4 = i4
    me = me
    you = you
    customer = customer
    tradie = tradie
    near = near
    far = far
    Item = {i1, i2, i3, i4}
    OwnerOf <- MCOwnerOf
    RoleOf <- MCRoleOf
    TextOf <- MCTextOf
    Joined <- MCJoined
    Me = me
    ListName <- Lists
    Filter <- Filters
    RawLimit = {0, 1}
    DEFAULT_LIMIT = 2
    MAX_LIMIT = 3
    Time = {1, 2, 3, 4, 5, 6, 7}
    MaxWrites = 3
    FirstItems <- Firsts
INVARIANTS
    OffsetComplete
    CursorExact
CHECK_DEADLOCK FALSE
