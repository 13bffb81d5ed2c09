--------------------------- MODULE PairDirectory ---------------------------
(***************************************************************************)
(* What POST /chat/conversations promises, without saying how: a directory *)
(* with at most one conversation per unordered pair of users, to which a   *)
(* call is answered once, with the entry of its pair.  ConversationStart   *)
(* is shown to implement this module.                                      *)
(***************************************************************************)
CONSTANTS User,     \* the users' ids
          Call,     \* the calls of getOrCreateConversation
          ConvId,   \* the ids a conversation may get
          NoConv    \* "no conversation"

VARIABLES directory,   \* the conversation of each pair, or NoConv
          answer       \* what each call was answered, or "none"

vars == <<directory, answer>>

Pair == {{a, b} : a, b \in User}

Created(id)  == [outcome |-> "created", id |-> id]
Existing(id) == [outcome |-> "existing", id |-> id]
Refused      == [outcome |-> "refused", id |-> NoConv]
Unanswered   == [outcome |-> "none", id |-> NoConv]

Init ==
    /\ directory = [p \in Pair |-> NoConv]
    /\ answer = [c \in Call |-> Unanswered]

(***************************************************************************)
(* A conversation enters the directory once, under an id of its own.       *)
(***************************************************************************)
Register(p, id) ==
    /\ directory[p] = NoConv
    /\ \A q \in Pair : directory[q] # id
    /\ directory' = [directory EXCEPT ![p] = id]
    /\ UNCHANGED answer

(***************************************************************************)
(* Only one call is ever told that it created a given conversation; every  *)
(* other successful call is told that the conversation existed.            *)
(***************************************************************************)
AnswerCreated(c, p) ==
    /\ answer[c] = Unanswered
    /\ directory[p] # NoConv
    /\ \A d \in Call : answer[d] # Created(directory[p])
    /\ answer' = [answer EXCEPT ![c] = Created(directory[p])]
    /\ UNCHANGED directory

AnswerExisting(c, p) ==
    /\ answer[c] = Unanswered
    /\ directory[p] # NoConv
    /\ answer' = [answer EXCEPT ![c] = Existing(directory[p])]
    /\ UNCHANGED directory

Refuse(c) ==
    /\ answer[c] = Unanswered
    /\ answer' = [answer EXCEPT ![c] = Refused]
    /\ UNCHANGED directory

Next ==
    \/ \E p \in Pair, id \in ConvId : Register(p, id)
    \/ \E c \in Call, p \in Pair : AnswerCreated(c, p) \/ AnswerExisting(c, p)
    \/ \E c \in Call : Refuse(c)

Spec == Init /\ [][Next]_vars
=============================================================================
