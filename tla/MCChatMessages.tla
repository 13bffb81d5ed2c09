--------------------------- MODULE MCChatMessages ---------------------------
(***************************************************************************)
(* Bounds for model checking ChatMessages.  Users 1 and 2 talk; user 3 is  *)
(* an outsider, and the recipient that does not match.                     *)
(***************************************************************************)
EXTENDS ChatMessages, TLC

ById(u)   == [senderId |-> u, conversationId |-> <<1, 2>>, recipientId |-> None, valid |-> TRUE]
ToUser(u, v) == [senderId |-> u, conversationId |-> None, recipientId |-> v, valid |-> TRUE]

\* The two participants, one of them by recipient.
Talk == {ById(1), ToUser(2, 1)}

\* What is refused for its fields as well.
TalkOrRefused == Talk \cup {
    [ById(1) EXCEPT !.recipientId = 1],
    ToUser(2, 2),
    [ToUser(1, 2) EXCEPT !.valid = FALSE] }

\* An outsider sends as well.
TalkOrIntrude == Talk \cup {ById(3)}

Reads(us, ms) ==
    [userId : us, conversationId : {<<1, 2>>}, lastReadMessageId : ms]

\* User 1 reads up to any message, or everything; user 2 reads everything.
AnyRead == Reads({1}, Send \cup {None}) \cup Reads({2}, {None})

\* User 1 and an outsider read everything.
OutsiderToo == Reads({1, 3}, {None})

Symmetry == Permutations(Send) \cup Permutations(Mark)
=============================================================================
