\* Two requests in either mode, with and without caching.
SPECIFICATION FairSpec
CONSTANTS
    i = i
    j = j
    carpenter = carpenter
    hyphened = hyphened
    Request = {r1, r2}
    Id = {i, j}
    Name = {carpenter, hyphened}
    Stripped <- Forms
    Null = Null
    Stocked <- Stock
    Heard <- Replies
    TTL = {0, 2}
    MaxTime = 2
    MaxEdits = 1
INVARIANTS
    SingleFlight
    CatalogInTime
    AnswersOffered
    AttemptsJustified
PROPERTY EveryRequestAnswered
CHECK_DEADLOCK FALSE
