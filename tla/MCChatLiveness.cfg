\* Two sends and a markRead of two participants and an outsider, while accounts are
\* deleted.  No symmetry: the properties are temporal.
SPECIFICATION FairSpec
CONSTANTS
    User = {1, 2, 3}
    Send = {s1, s2}
    Mark = {m1}
    SendRequest <- TalkOrIntrude
    MarkRequest <- OutsiderToo
    None = None
    MaxTime = 1
PROPERTIES
    NoPostAfterDeletion
    EveryCallReturns
