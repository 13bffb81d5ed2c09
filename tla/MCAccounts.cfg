\* Three calls on two users and an admin, each of any kind.
SPECIFICATION Spec
CONSTANTS
    u1 = u1
    u2 = u2
    a1 = a1
    mail = mail
    phone1 = phone1
    phone2 = phone2
    image = image
    old = old
    new = new
    gone1 = gone1
    gone2 = gone2
    Call = {c1, c2, c3}
    User = {u1, u2}
    Admin = {a1}
    Value = {mail, phone1, phone2, image, old, new, gone1, gone2}
    Request <- AnyOf
    Table <- Tables
    DeletedPhone <- Phones
    Null = Null
SYMMETRY Symmetry
INVARIANTS
    OneOwner
    AnswerSticks
    RoleEarned
    RoleFollows
PROPERTY DeletedStaysDeleted
CHECK_DEADLOCK FALSE
