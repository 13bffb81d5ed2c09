\* Two sends and two markReads, every interleaving, failures and a crash.
SPECIFICATION Spec
CONSTANTS
    User = {1, 2}
    Send = {s1, s2}
    Mark = {m1, m2}
    SendRequest <- TalkOrRefused
    MarkRequest <- AnyRead
    None = None
    MaxTime = 2
SYMMETRY Symmetry
INVARIANTS
    PreviewCommitted
    DeliveredCommitted
    AnswerHonest
PROPERTIES
    MarksOnlyAdvance
    ImplementsLog
