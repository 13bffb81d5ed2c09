\* Two sockets of one user, a conversation that begins meanwhile and the shutdown.
CONSTANTS
    s1 = s1
    s2 = s2
    s3 = s3
    u1 = u1
    u2 = u2
    c1 = c1
    c2 = c2
    Socket = {s1, s2}
    User = {u1, u2}
    UserOf <- MCUserOf
    Conversation = {c1}
    From <- MCFrom
    To <- MCTo
    Old = {}
    Capacity = 2
    Refill = 1
    Second = 2
    MaxTime = 1
    MaxEvents = 3
    MaxRetries = 2
SPECIFICATION FairSpec
INVARIANTS
    ToldTheTruth
    RoomsAsAsked
    ThrottleBound
PROPERTY ServerEnds
CHECK_DEADLOCK FALSE
