------------------------- MODULE ConversationStart -------------------------
(***************************************************************************)
(* ChatService.getOrCreateConversation (src/src/modules/chat) and the two  *)
(* database objects it leans on: the unique index                          *)
(* unique_from_to_conversation and the CHECK from_user_id < to_user_id.    *)
(*                                                                         *)
(* Every await of the handler is a step of its own, so any number of calls *)
(* by either user, and the deletion of an account, interleave between the  *)
(* look-up, the INSERT, the re-read and the recovery.  Each statement runs *)
(* in its own (autocommit) transaction, as in the code.                    *)
(*                                                                         *)
(* Users are numbers only because the code orders their UUIDs.  A user     *)
(* that does not exist behaves as a deleted one in every query here.       *)
(***************************************************************************)
EXTENDS Naturals

CONSTANTS User,     \* the users' ids, ordered as UUID strings are
          Call,     \* the concurrent calls
          ConvId,   \* the UUIDs new rows may get
          NoConv    \* "no conversation"

ASSUME UserAssumption == User \subseteq Nat
ASSUME ConvIdAssumption == NoConv \notin ConvId \cup User

VARIABLES status,          \* users.status: "active" stands for every value but "deleted"
          conversations,   \* the rows of the table conversations
          req,             \* each call's requester and the other user
          pc,              \* the await each call is at
          newId,           \* conv.id of the row a call inserted
          reply,           \* what each call returned or threw
          announced        \* chat:conversation-updated events, by call, row and user room

vars == <<status, conversations, req, pc, newId, reply, announced>>

Row == [id : ConvId, fromUserId : User, toUserId : User]

Outcomes == {"none", "created", "existing", "bad_request", "not_found",
             "unique_violation", "db_error"}

TypeOK ==
    /\ status \in [User -> {"active", "deleted"}]
    /\ conversations \subseteq Row
    /\ req \in [Call -> [userId : User, otherUserId : User]]
    /\ pc \in [Call -> {"start", "lookup", "insert", "reread", "recover", "done"}]
    /\ newId \in [Call -> ConvId \cup {NoConv}]
    /\ reply \in [Call -> [outcome : Outcomes, id : ConvId \cup {NoConv}]]
    /\ announced \subseteq [call : Call, id : ConvId, user : User]

NoReply == [outcome |-> "none", id |-> NoConv]

Init ==
    /\ status = [u \in User |-> "active"]
    /\ conversations = {}
    /\ req \in [Call -> [userId : User, otherUserId : User]]
    /\ pc = [c \in Call |-> "start"]
    /\ newId = [c \in Call |-> NoConv]
    /\ reply = [c \in Call |-> NoReply]
    /\ announced = {}
-----------------------------------------------------------------------------
(***************************************************************************)
(* The canonical order of a call's two users.                              *)
(***************************************************************************)
Lo(c) == IF req[c].userId < req[c].otherUserId
           THEN req[c].userId ELSE req[c].otherUserId

Hi(c) == IF req[c].userId < req[c].otherUserId
           THEN req[c].otherUserId ELSE req[c].userId

OfPair(c) == {r \in conversations : r.fromUserId = Lo(c) /\ r.toUserId = Hi(c)}

(***************************************************************************)
(* The projection queries inner-join both users on status <> 'deleted'; no *)
(* code ever sets conversations.status to 'deleted'.                       *)
(***************************************************************************)
Visible(r) == status[r.fromUserId] # "deleted" /\ status[r.toUserId] # "deleted"

Return(c, outcome, id) ==
    /\ pc' = [pc EXCEPT ![c] = "done"]
    /\ reply' = [reply EXCEPT ![c] = [outcome |-> outcome, id |-> id]]

Goto(c, label) ==
    /\ pc' = [pc EXCEPT ![c] = label]
    /\ UNCHANGED reply

(***************************************************************************)
(* The self check, then the fetch of both users.                           *)
(***************************************************************************)
CheckUsers(c) ==
    /\ pc[c] = "start"
    /\ \/ /\ req[c].userId = req[c].otherUserId
          /\ Return(c, "bad_request", NoConv)
       \/ /\ req[c].userId # req[c].otherUserId
          /\ "deleted" \in {status[req[c].userId], status[req[c].otherUserId]}
          /\ Return(c, "not_found", NoConv)
       \/ /\ req[c].userId # req[c].otherUserId
          /\ "deleted" \notin {status[req[c].userId], status[req[c].otherUserId]}
          /\ Goto(c, "lookup")
    /\ UNCHANGED <<status, conversations, req, newId, announced>>

(***************************************************************************)
(* findConversationByPair before the INSERT.                               *)
(***************************************************************************)
LookUp(c) ==
    /\ pc[c] = "lookup"
    /\ \/ \E r \in OfPair(c) : Visible(r) /\ Return(c, "existing", r.id)
       \/ /\ \A r \in OfPair(c) : ~Visible(r)
          /\ Goto(c, "insert")
    /\ UNCHANGED <<status, conversations, req, newId, announced>>

(***************************************************************************)
(* The INSERT: the CHECK constraint and the unique index decide.  A        *)
(* violation of the index sends the call to the recovery in the catch      *)
(* block; a violation of the CHECK would be rethrown.                      *)
(***************************************************************************)
\* Faulty variant, for testing OnePerPair: no unique index on the pair.
PairNeverTaken(c) == FALSE

PairTaken(c) == OfPair(c) # {}

Insert(c) ==
    /\ pc[c] = "insert"
    /\ \/ /\ ~PairTaken(c)
          /\ Lo(c) < Hi(c)
          /\ \E id \in ConvId :
               /\ \A r \in conversations : r.id # id
               /\ conversations' = conversations \cup
                    {[id |-> id, fromUserId |-> Lo(c), toUserId |-> Hi(c)]}
               /\ newId' = [newId EXCEPT ![c] = id]
          /\ Goto(c, "reread")
       \/ /\ PairTaken(c)
          /\ Goto(c, "recover")
          /\ UNCHANGED <<conversations, newId>>
    /\ UNCHANGED <<status, req, announced>>

(***************************************************************************)
(* findConversationByIdRaw after the INSERT.  If a participant has been    *)
(* deleted in between the row is invisible: the call still answers         *)
(* "created", with a bare list item, and announces nothing.                *)
(***************************************************************************)
\* Faulty variant, for testing AnnouncedOnce: only the creator's own devices are told.
AnnouncedToCreator(c) == {[call |-> c, id |-> newId[c], user |-> req[c].userId]}

Announcements(c) == {[call |-> c, id |-> newId[c], user |-> u] : u \in {Lo(c), Hi(c)}}

Reread(c) ==
    /\ pc[c] = "reread"
    /\ \/ /\ \E r \in conversations : r.id = newId[c] /\ Visible(r)
          /\ announced' = announced \cup Announcements(c)
       \/ /\ \A r \in conversations : r.id = newId[c] => ~Visible(r)
          /\ UNCHANGED announced
    /\ Return(c, "created", newId[c])
    /\ UNCHANGED <<status, conversations, req, newId>>

(***************************************************************************)
(* The catch block after a unique violation: one more look-up, and the     *)
(* violation is rethrown when it finds nothing.                            *)
(***************************************************************************)
\* Faulty variant, for testing ImplementsDirectory: the loser of the race claims the creation.
RecoverAsCreator(c) ==
    /\ pc[c] = "recover"
    /\ \/ \E r \in OfPair(c) : Visible(r) /\ Return(c, "created", r.id)
       \/ /\ \A r \in OfPair(c) : ~Visible(r)
          /\ Return(c, "unique_violation", NoConv)
    /\ UNCHANGED <<status, conversations, req, newId, announced>>

\* Faulty variant, for testing OneStep: no second look-up.
RecoverByRethrowing(c) ==
    /\ pc[c] = "recover"
    /\ Return(c, "unique_violation", NoConv)
    /\ UNCHANGED <<status, conversations, req, newId, announced>>

Recover(c) ==
    /\ pc[c] = "recover"
    /\ \/ \E r \in OfPair(c) : Visible(r) /\ Return(c, "existing", r.id)
       \/ /\ \A r \in OfPair(c) : ~Visible(r)
          /\ Return(c, "unique_violation", NoConv)
    /\ UNCHANGED <<status, conversations, req, newId, announced>>

(***************************************************************************)
(* Any query may fail (connection lost, statement timeout).  A failure     *)
(* after the INSERT leaves the row behind, unannounced.                    *)
(***************************************************************************)
QueryFails(c) ==
    /\ pc[c] # "done"
    /\ req[c].userId # req[c].otherUserId
    /\ Return(c, "db_error", NoConv)
    /\ UNCHANGED <<status, conversations, req, newId, announced>>

(***************************************************************************)
(* DELETE /users/me or the admin's delete, in another request.  A deleted  *)
(* account is never made active again.                                     *)
(***************************************************************************)

DeleteUser(u) ==
    /\ status[u] = "active"
    /\ status' = [status EXCEPT ![u] = "deleted"]
    /\ UNCHANGED <<conversations, req, pc, newId, reply, announced>>

Step(c) ==
    CheckUsers(c) \/ LookUp(c) \/ Insert(c) \/ Reread(c) \/ Recover(c) \/ QueryFails(c)

Next ==
    \/ \E c \in Call : Step(c)
    \/ \E u \in User : DeleteUser(u)

Spec == Init /\ [][Next]_vars
-----------------------------------------------------------------------------
RowPair(r) == {r.fromUserId, r.toUserId}

PairOf(c) == {req[c].userId, req[c].otherUserId}

Succeeded(c) == reply[c].outcome \in {"created", "existing"}

(***************************************************************************)
(* At most one row exists for an unordered pair of users, whichever of     *)
(* them starts the conversation (design Property 8).  The unique index     *)
(* alone only covers ordered pairs.                                        *)
(***************************************************************************)
OnePerPair ==
    \A r, s \in conversations :
        RowPair(r) = RowPair(s) => r = s

(***************************************************************************)
(* Two successful calls get the same conversation exactly when they are    *)
(* about the same two users, however they interleave (design Property 8).  *)
(***************************************************************************)
SameAnswer ==
    \A c, d \in Call :
        Succeeded(c) /\ Succeeded(d) => (reply[c].id = reply[d].id <=> PairOf(c) = PairOf(d))

(***************************************************************************)
(* At most one call is told that it created a conversation (201), and it   *)
(* is the one whose INSERT won.                                            *)
(***************************************************************************)
CreatedOnce ==
    \A c, d \in Call :
        /\ reply[c].outcome = "created"
        /\ reply[d].outcome = "created"
        /\ reply[c].id = reply[d].id
        => c = d

(***************************************************************************)
(* A new conversation is announced by one call only, to both participants  *)
(* and to nobody else, and that call answered "created".                   *)
(***************************************************************************)
AnnouncedOnce ==
    \A a \in announced :
        /\ reply[a.call] = [outcome |-> "created", id |-> a.id]
        /\ \A b \in announced : b.id = a.id => b.call = a.call
        /\ {b.user : b \in {x \in announced : x.id = a.id}} = PairOf(a.call)

(***************************************************************************)
(* The unique violation is rethrown to the caller (a 500) only when one of *)
(* the two accounts was deleted while the call ran; a plain race between   *)
(* two creators is always absorbed by the re-read.                         *)
(***************************************************************************)
ConflictOnlyAfterDeletion ==
    \A c \in Call :
        reply[c].outcome = "unique_violation" => \E u \in PairOf(c) : status[u] = "deleted"
-----------------------------------------------------------------------------
(***************************************************************************)
(* The inductive invariant behind the properties above.  Rows are          *)
(* canonical and have keys of their own; a call past the self check has    *)
(* two users; a call that inserted owns its row, and a call that answered  *)
(* or is recovering has a row of its pair to point at.                     *)
(***************************************************************************)
RowOf(c, id) ==
    \E r \in conversations : r.id = id /\ r.fromUserId = Lo(c) /\ r.toUserId = Hi(c)

TwoUsers(c) == req[c].userId # req[c].otherUserId

RowsOk ==
    /\ \A r \in conversations : r.fromUserId < r.toUserId
    /\ \A r, s \in conversations : r.id = s.id => r = s
    /\ \A r, s \in conversations :
          r.fromUserId = s.fromUserId /\ r.toUserId = s.toUserId => r = s

CallsOk ==
    \A c \in Call :
        /\ pc[c] # "done" => reply[c] = NoReply
        /\ pc[c] \in {"lookup", "insert", "reread", "recover"} => TwoUsers(c)
        /\ pc[c] = "reread" => newId[c] # NoConv
        /\ pc[c] = "recover" => \E id \in ConvId : RowOf(c, id)
        /\ newId[c] # NoConv => TwoUsers(c) /\ RowOf(c, newId[c])
        /\ newId[c] # NoConv => pc[c] \in {"reread", "done"}

RepliesOk ==
    \A c \in Call :
        /\ reply[c].outcome = "created" => newId[c] # NoConv /\ reply[c].id = newId[c]
        /\ reply[c].outcome = "existing" => TwoUsers(c) /\ RowOf(c, reply[c].id)
        /\ reply[c].outcome = "unique_violation" =>
              \E u \in {Lo(c), Hi(c)} : status[u] = "deleted"

OwnersOk ==
    \A c, d \in Call : newId[c] = newId[d] /\ newId[c] # NoConv => c = d

AnnouncedOk ==
    \A a \in announced :
        /\ newId[a.call] = a.id
        /\ reply[a.call].outcome = "created"
        /\ a.user \in {Lo(a.call), Hi(a.call)}
        /\ \A u \in {Lo(a.call), Hi(a.call)} :
              [call |-> a.call, id |-> a.id, user |-> u] \in announced

Inv == TypeOK /\ RowsOk /\ CallsOk /\ RepliesOk /\ OwnersOk /\ AnnouncedOk
-----------------------------------------------------------------------------
(***************************************************************************)
(* The abstract directory this component implements: the rows are the      *)
(* directory, the replies the answers.                                     *)
(***************************************************************************)
Entry(rows, p) ==
    IF \E r \in rows : RowPair(r) = p
      THEN (CHOOSE r \in rows : RowPair(r) = p).id
      ELSE NoConv

Directory == [p \in {{a, b} : a, b \in User} |-> Entry(conversations, p)]

Answer ==
    [c \in Call |->
        IF reply[c].outcome \in {"none", "created", "existing"}
          THEN reply[c]
          ELSE [outcome |-> "refused", id |-> NoConv]]

PD == INSTANCE PairDirectory WITH directory <- Directory, answer <- Answer

(***************************************************************************)
(* Every behaviour of the handler is a behaviour of the pair directory.    *)
(***************************************************************************)
ImplementsDirectory == PD!Spec
-----------------------------------------------------------------------------
(***************************************************************************)
(* The calls as sendMessage makes them, of which ChatMessages says only    *)
(* what their queries do together.  A call is a send with a recipient; it  *)
(* has not begun until a query decides how it goes on, and it is past this *)
(* handler when a row of its pair is inserted or found.                    *)
(***************************************************************************)
Pairs == {p \in User \X User : p[1] < p[2]}

SendOf(c) == [senderId |-> req[c].userId, conversationId |-> NoConv,
              recipientId |-> req[c].otherUserId, valid |-> TRUE]

HasRow(c) == newId[c] # NoConv \/ Succeeded(c)

Undecided(c) == pc[c] \in {"start", "lookup", "insert", "recover"}

SendPc(c) ==
    IF Undecided(c) THEN "idle"
    ELSE IF pc[c] = "reread" \/ Succeeded(c) THEN "pair" ELSE "done"

Opened == {<<r.fromUserId, r.toUserId>> : r \in conversations}

SendRequests == [c \in Call |-> IF Undecided(c) THEN NoConv ELSE SendOf(c)]

SendPcs == [c \in Call |-> SendPc(c)]

SendConvs == [c \in Call |-> IF HasRow(c) THEN <<Lo(c), Hi(c)>> ELSE NoConv]

SendOutcomes == [c \in Call |-> IF Succeeded(c) THEN "none" ELSE reply[c].outcome]

CM == INSTANCE ChatMessages
        WITH Send <- Call, Mark <- {}, None <- NoConv, MaxTime <- 1, now <- 1,
             SendRequest <- [senderId : User, conversationId : {NoConv},
                             recipientId : User, valid : {TRUE}],
             MarkRequest <- {},
             opened <- Opened, request <- SendRequests, pc <- SendPcs, conv <- SendConvs,
             outcome <- SendOutcomes, createdAt <- [c \in Call |-> 0], messages <- {},
             lastMessage <- [p \in Pairs |-> NoConv],
             lastRead <- [p \in Pairs |-> [k \in {"from", "to"} |-> 0]],
             lock <- [p \in Pairs |-> NoConv],
             mark <- [m \in {} |-> NoConv], step <- [m \in {} |-> "idle"],
             candidate <- [m \in {} |-> 0], lastReadAt <- [m \in {} |-> 0],
             delivered <- {}, updates <- {}, receipts <- {}

(***************************************************************************)
(* However their queries interleave with those of others, with failures    *)
(* and with deletions, the calls do what ChatMessages has one step for.    *)
(***************************************************************************)
OneStep == CM!Spec
=============================================================================
