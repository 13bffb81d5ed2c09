\* A participant whose partner's account is deleted.
SPECIFICATION Spec
CONSTANTS
    User = {1, 2}
    Send = {s1}
    Mark = {m1}
    SendRequest <- Talk
    MarkRequest <- AnyRead
    None = None
    MaxTime = 1
INVARIANT PartnerStillSees
