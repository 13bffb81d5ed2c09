---------------------------- MODULE ChatMessages ----------------------------
(***************************************************************************)
(* ChatService.sendMessage and ChatService.markRead (src/src/modules/chat) *)
(* over the tables conversations and messages, and the socket events they  *)
(* emit.                                                                   *)
(*                                                                         *)
(* Each await is a step, so the calls of both participants, the deletion   *)
(* of an account and a crash of the server interleave at every query.  A   *)
(* message is named by the call that sends it and a conversation by its    *)
(* canonical pair of users, of which there is one row at most (OnePerPair  *)
(* of ConversationStart).  getOrCreateConversation is one step here, which *)
(* its queries implement (OneStep of ConversationStart).                   *)
(*                                                                         *)
(* Times are numbers; 0 is both NULL and 'epoch', which the queries        *)
(* coalesce.  No code deletes messages or sets conversations.status.       *)
(***************************************************************************)
EXTENDS Naturals

CONSTANTS User,          \* users' ids, ordered as UUID strings are
          Send,          \* the calls of sendMessage, and the messages they insert
          Mark,          \* the calls of markRead
          SendRequest,   \* what a send may carry
          MarkRequest,   \* what a markRead may carry
          None,          \* an absent id
          MaxTime        \* bound on the clock

Conv == {c \in User \X User : c[1] < c[2]}

ASSUME UserAssumption == User \subseteq Nat
ASSUME NoneAssumption == None \notin Send \cup Conv \cup User
ASSUME RequestAssumption ==
    /\ SendRequest \subseteq [senderId : User, conversationId : Conv \cup {None},
                              recipientId : User \cup {None}, valid : BOOLEAN]
    /\ MarkRequest \subseteq [userId : User, conversationId : Conv,
                              lastReadMessageId : Send \cup {None}]
ASSUME TimeAssumption == MaxTime \in Nat

VARIABLES
    now,           \* the clock that stamps created_at
    status,        \* users.status: "active" stands for every value but "deleted"
    opened,        \* the rows of conversations
    messages,      \* the committed rows of messages
    lastMessage,   \* conversations.last_message_id
    lastRead,      \* conversations.from_last_read_at and to_last_read_at
    lock,          \* the transaction holding the row lock of a conversation
    request, pc, conv, createdAt, outcome,   \* of each send: input, await, row, stamp, answer
    mark, step, candidate, lastReadAt,       \* of each markRead: input, await, dates
    delivered,     \* chat:message events, by message and user room
    updates,       \* chat:conversation-updated events
    receipts       \* chat:read events

rowVars   == <<opened, messages, lastMessage, lastRead, lock>>
sendVars  == <<request, pc, conv, createdAt, outcome>>
markVars  == <<mark, step, candidate, lastReadAt>>
eventVars == <<delivered, updates, receipts>>
vars == <<now, status, rowVars, sendVars, markVars, eventVars>>

Outcomes == {"none", "sent", "bad_request", "forbidden", "not_found", "unique_violation",
             "internal_error", "db_error", "lost"}

Column == {"from", "to"}

TypeOK ==
    /\ now \in Nat
    /\ status \in [User -> {"active", "deleted"}]
    /\ opened \subseteq Conv
    /\ messages \subseteq Send
    /\ lastMessage \in [Conv -> Send \cup {None}]
    /\ lastRead \in [Conv -> [Column -> Nat]]
    /\ lock \in [Conv -> Send \cup {None}]
    /\ request \in [Send -> SendRequest \cup {None}]
    /\ pc \in [Send -> {"idle", "pair", "insert", "update", "reload", "commit",
                        "broadcast", "done"}]
    /\ conv \in [Send -> Conv \cup {None}]
    /\ createdAt \in [Send -> Nat]
    /\ outcome \in [Send -> Outcomes]
    /\ mark \in [Mark -> MarkRequest \cup {None}]
    /\ step \in [Mark -> {"idle", "candidate", "bump", "count", "read", "failed"}]
    /\ candidate \in [Mark -> Nat]
    /\ lastReadAt \in [Mark -> Nat]
    /\ delivered \subseteq [message : Send, user : User]
    /\ updates \subseteq [cause : Send \cup Mark, user : User, unread : Nat]
    /\ receipts \subseteq [mark : Mark, user : User]

Init ==
    /\ now = 1
    /\ status = [u \in User |-> "active"]
    /\ opened \in SUBSET Conv
    /\ messages = {}
    /\ lastMessage = [c \in Conv |-> None]
    /\ lastRead = [c \in Conv |-> [k \in Column |-> 0]]
    /\ lock = [c \in Conv |-> None]
    /\ request = [s \in Send |-> None]
    /\ pc = [s \in Send |-> "idle"]
    /\ conv = [s \in Send |-> None]
    /\ createdAt = [s \in Send |-> 0]
    /\ outcome = [s \in Send |-> "none"]
    /\ mark = [m \in Mark |-> None]
    /\ step = [m \in Mark |-> "idle"]
    /\ candidate = [m \in Mark |-> 0]
    /\ lastReadAt = [m \in Mark |-> 0]
    /\ delivered = {} /\ updates = {} /\ receipts = {}
-----------------------------------------------------------------------------
Participants(c) == {c[1], c[2]}

PairConv(u, v) == IF u < v THEN <<u, v>> ELSE <<v, u>>

(***************************************************************************)
(* What findConversationByIdRaw and findConversationByPair return: they    *)
(* inner-join both users on status <> 'deleted'.                           *)
(***************************************************************************)
\* Faulty variant, for testing NoPostAfterDeletion: a LEFT JOIN of the users.
VisibleToo(c) == c \in opened

Visible(c) ==
    /\ c \in opened
    /\ \A u \in Participants(c) : status[u] # "deleted"

ColumnOf(u, c) == IF u = c[1] THEN "from" ELSE "to"

(***************************************************************************)
(* The unread predicate of countUnreadFor and of the conversation list.    *)
(***************************************************************************)
ReadDate(u, c) == IF u = c[1] THEN lastRead[c]["from"] ELSE lastRead[c]["to"]

Unread(u, c) ==
    {s \in messages : /\ conv[s] = c
                      /\ request[s].senderId # u
                      /\ createdAt[s] > ReadDate(u, c)}

(***************************************************************************)
(* Steps of a send.                                                        *)
(***************************************************************************)
Goto(s, label) == pc' = [pc EXCEPT ![s] = label]

Answer(s, o) ==
    /\ pc' = [pc EXCEPT ![s] = "done"]
    /\ outcome' = [outcome EXCEPT ![s] = o]

Arrive(s, r) ==
    /\ pc[s] = "idle"
    /\ request' = [request EXCEPT ![s] = r]

\* validateAttachments and resolveMessageType follow the resolution.
Admit(s, r, c) ==
    \/ /\ ~r.valid
       /\ Answer(s, "bad_request")
       /\ UNCHANGED conv
    \/ /\ r.valid
       /\ Goto(s, "insert")
       /\ conv' = [conv EXCEPT ![s] = c]
       /\ UNCHANGED outcome

Reject(s, o) == Answer(s, o) /\ UNCHANGED conv

(***************************************************************************)
(* With a conversationId: load it, check the sender and the recipient.     *)
(***************************************************************************)
ResolveById(s) ==
    /\ \E r \in SendRequest :
         /\ r.conversationId # None
         /\ Arrive(s, r)
         /\ \/ Reject(s, "db_error")
            \/ /\ ~Visible(r.conversationId)
               /\ Reject(s, "not_found")
            \/ /\ Visible(r.conversationId)
               /\ r.senderId \notin Participants(r.conversationId)
               /\ Reject(s, "forbidden")
            \/ /\ Visible(r.conversationId)
               /\ r.senderId \in Participants(r.conversationId)
               /\ r.recipientId \notin {None} \cup (Participants(r.conversationId) \ {r.senderId})
               /\ Reject(s, "bad_request")
            \/ /\ Visible(r.conversationId)
               /\ r.senderId \in Participants(r.conversationId)
               /\ r.recipientId \in {None} \cup (Participants(r.conversationId) \ {r.senderId})
               /\ Admit(s, r, r.conversationId)
    /\ UNCHANGED <<now, status, rowVars, createdAt, markVars, eventVars>>

(***************************************************************************)
(* Without one: getOrCreateConversation for the recipient.  When a user is *)
(* deleted it answers 404; or, if the deletion came between its queries,   *)
(* it inserts a row that nobody sees, or rethrows the unique violation of  *)
(* such a row.  OneStep of ConversationStart says that its queries do, all *)
(* together, what this step does.                                          *)
(***************************************************************************)
GetOrCreate(s) ==
    /\ \E r \in SendRequest :
         LET c == PairConv(r.senderId, r.recipientId)
             deleted == "deleted" \in {status[r.senderId], status[r.recipientId]}
         IN /\ r.conversationId = None
            /\ Arrive(s, r)
            /\ \/ /\ r.recipientId \in {None, r.senderId}
                  /\ Reject(s, "bad_request")
                  /\ UNCHANGED opened
               \/ /\ r.recipientId \notin {None, r.senderId}
                  /\ \/ Reject(s, "db_error")
                     \/ deleted /\ Reject(s, "not_found")
                     \/ deleted /\ c \in opened /\ Reject(s, "unique_violation")
                  /\ UNCHANGED opened
               \/ /\ r.recipientId \notin {None, r.senderId}
                  /\ deleted => c \notin opened
                  /\ opened' = opened \cup {c}
                  /\ conv' = [conv EXCEPT ![s] = c]
                  /\ Goto(s, "pair")
                  /\ UNCHANGED outcome
    /\ UNCHANGED <<now, status, messages, lastMessage, lastRead, lock, createdAt, markVars,
                   eventVars>>

\* findConversationByPair, which may not see the row any more.
LoadPair(s) ==
    /\ pc[s] = "pair"
    /\ \/ /\ ~Visible(conv[s])
          /\ Reject(s, "not_found")
       \/ /\ Visible(conv[s])
          /\ Admit(s, request[s], conv[s])
    /\ UNCHANGED <<now, status, rowVars, request, createdAt, markVars, eventVars>>

(***************************************************************************)
(* insertMessageInTransaction.  The message row is stamped and inserted,   *)
(* the UPDATE of the conversation takes its row lock until the end of the  *)
(* transaction, and the conversation is read back with the users joined.   *)
(***************************************************************************)
InsertMessage(s) ==
    /\ pc[s] = "insert"
    /\ createdAt' = [createdAt EXCEPT ![s] = now]
    /\ Goto(s, "update")
    /\ UNCHANGED <<now, status, rowVars, request, conv, outcome, markVars, eventVars>>

\* Faulty variant, for testing the preview: the UPDATE is not in the transaction.
UpdateOutsideTransaction(s) ==
    /\ pc[s] = "update"
    /\ lock[conv[s]] = None
    /\ lastMessage' = [lastMessage EXCEPT ![conv[s]] = s]
    /\ Goto(s, "reload")
    /\ UNCHANGED <<now, status, opened, messages, lock, lastRead, request, conv,
                   createdAt, outcome, markVars, eventVars>>

UpdateConversation(s) ==
    /\ pc[s] = "update"
    /\ lock[conv[s]] = None
    /\ lock' = [lock EXCEPT ![conv[s]] = s]
    /\ Goto(s, "reload")
    /\ UNCHANGED <<now, status, opened, messages, lastMessage, lastRead, request, conv,
                   createdAt, outcome, markVars, eventVars>>

\* Faulty variant, for testing EveryCallReturns: the failed transaction stays open.
KeepLocks(s) == UNCHANGED lock

Unlock(s) == lock' = [c \in Conv |-> IF lock[c] = s THEN None ELSE lock[c]]

\* Faulty variant, for testing AnswerHonest: the INSERT is not rolled back.
ReloadWithoutRollback(s) ==
    /\ pc[s] = "reload"
    /\ \/ /\ Visible(conv[s])
          /\ Goto(s, "commit")
          /\ UNCHANGED <<messages, lock, outcome>>
       \/ /\ ~Visible(conv[s])
          /\ messages' = messages \cup {s}
          /\ Unlock(s)
          /\ Answer(s, "internal_error")
    /\ UNCHANGED <<now, status, opened, lastMessage, lastRead, request, conv,
                   createdAt, markVars, eventVars>>

ReloadConversation(s) ==
    /\ pc[s] = "reload"
    /\ \/ /\ Visible(conv[s])
          /\ Goto(s, "commit")
          /\ UNCHANGED <<lock, outcome>>
       \/ /\ ~Visible(conv[s])
          /\ Unlock(s)
          /\ Answer(s, "internal_error")
    /\ UNCHANGED <<now, status, opened, messages, lastMessage, lastRead, request, conv,
                   createdAt, markVars, eventVars>>

(***************************************************************************)
(* COMMIT publishes the message and the preview together.  The connection  *)
(* may drop before the server hears of it.                                 *)
(***************************************************************************)
Commit(s) ==
    /\ pc[s] = "commit"
    /\ messages' = messages \cup {s}
    /\ lastMessage' = [lastMessage EXCEPT ![conv[s]] = s]
    /\ Unlock(s)
    /\ \/ Goto(s, "broadcast") /\ UNCHANGED outcome
       \/ Answer(s, "db_error")
    /\ UNCHANGED <<now, status, opened, lastRead, request, conv, createdAt, markVars,
                   eventVars>>

(***************************************************************************)
(* broadcastMessage: the message and a list item to the room of each       *)
(* participant.  The list items are made from the projection without an    *)
(* unread count, for which toConversationListItem puts 0.                  *)
(***************************************************************************)
\* Faulty variant, for testing DeliveredCommitted: only the other participant is told.
BroadcastToRecipient(s) ==
    /\ pc[s] = "broadcast"
    /\ delivered' = delivered \cup
         {[message |-> s, user |-> u] : u \in Participants(conv[s]) \ {request[s].senderId}}
    /\ Answer(s, "sent")
    /\ UNCHANGED <<now, status, rowVars, request, conv, createdAt, markVars, updates, receipts>>

Broadcast(s) ==
    /\ pc[s] = "broadcast"
    /\ delivered' = delivered \cup {[message |-> s, user |-> u] : u \in Participants(conv[s])}
    /\ updates' = updates \cup
         {[cause |-> s, user |-> u, unread |-> 0] : u \in Participants(conv[s])}
    /\ Answer(s, "sent")
    /\ UNCHANGED <<now, status, rowVars, request, conv, createdAt, markVars, receipts>>

(***************************************************************************)
(* Any statement may fail; an open transaction is then rolled back.        *)
(***************************************************************************)
SendFails(s) ==
    /\ pc[s] \in {"pair", "insert", "update", "reload", "commit"}
    /\ Answer(s, "db_error")
    /\ Unlock(s)
    /\ UNCHANGED <<now, status, opened, messages, lastMessage, lastRead, request, conv,
                   createdAt, markVars, eventVars>>

SendStep(s) ==
    LoadPair(s) \/ InsertMessage(s) \/ UpdateConversation(s) \/ ReloadConversation(s)
        \/ Commit(s) \/ Broadcast(s)
-----------------------------------------------------------------------------
(***************************************************************************)
(* Steps of a markRead.                                                    *)
(***************************************************************************)
Advance(m, label) == step' = [step EXCEPT ![m] = label]

LoadForRead(m) ==
    /\ step[m] = "idle"
    /\ \E r \in MarkRequest :
         /\ mark' = [mark EXCEPT ![m] = r]
         /\ \/ /\ Visible(r.conversationId)
               /\ r.userId \in Participants(r.conversationId)
               /\ Advance(m, "candidate")
            \/ /\ ~Visible(r.conversationId) \/ r.userId \notin Participants(r.conversationId)
               /\ Advance(m, "failed")
    /\ UNCHANGED <<now, status, rowVars, sendVars, candidate, lastReadAt, eventVars>>

(***************************************************************************)
(* The date to read up to: that of the given message, or of the latest     *)
(* one (findLatestMessageCreatedAt), or the present of an empty            *)
(* conversation.                                                           *)
(***************************************************************************)
MessagesOf(c) == {s \in messages : conv[s] = c}

PickCandidate(m) ==
    /\ step[m] = "candidate"
    /\ LET r == mark[m]
           inConv == MessagesOf(r.conversationId)
       IN  \/ /\ r.lastReadMessageId \in inConv
              /\ candidate' = [candidate EXCEPT ![m] = createdAt[r.lastReadMessageId]]
              /\ Advance(m, "bump")
           \/ /\ r.lastReadMessageId \notin inConv \cup {None}
              /\ Advance(m, "failed")
              /\ UNCHANGED candidate
           \/ /\ r.lastReadMessageId = None
              /\ \E s \in inConv :
                   /\ \A t \in inConv : createdAt[t] <= createdAt[s]
                   /\ candidate' = [candidate EXCEPT ![m] = createdAt[s]]
              /\ Advance(m, "bump")
           \/ /\ r.lastReadMessageId = None
              /\ inConv = {}
              /\ candidate' = [candidate EXCEPT ![m] = now]
              /\ Advance(m, "bump")
    /\ UNCHANGED <<now, status, rowVars, sendVars, mark, lastReadAt, eventVars>>

(***************************************************************************)
(* bumpLastReadAt: one UPDATE with GREATEST, which waits for the row lock. *)
(***************************************************************************)
\* Faulty variant, for testing MarksOnlyAdvance: SET column = :candidate.
Overwrite(old, new) == new

Greatest(old, new) == IF old > new THEN old ELSE new

Bump(m) ==
    /\ step[m] = "bump"
    /\ LET c == mark[m].conversationId
           k == ColumnOf(mark[m].userId, c)
           date == Greatest(lastRead[c][k], candidate[m])
       IN  /\ lock[c] = None
           /\ lastRead' = [lastRead EXCEPT ![c][k] = date]
           /\ lastReadAt' = [lastReadAt EXCEPT ![m] = date]
    /\ Advance(m, "count")
    /\ UNCHANGED <<now, status, opened, messages, lastMessage, lock, sendVars, mark,
                   candidate, eventVars>>

(***************************************************************************)
(* countUnreadFor only feeds the answer's unreadCount; then broadcastRead. *)
(***************************************************************************)
CountAndBroadcast(m) ==
    /\ step[m] = "count"
    /\ receipts' = receipts \cup
         {[mark |-> m, user |-> u] : u \in Participants(mark[m].conversationId)}
    /\ Advance(m, "read")
    /\ UNCHANGED <<now, status, rowVars, sendVars, mark, candidate, lastReadAt, delivered,
                   updates>>

MarkFails(m) ==
    /\ step[m] \in {"candidate", "bump", "count"}
    /\ Advance(m, "failed")
    /\ UNCHANGED <<now, status, rowVars, sendVars, mark, candidate, lastReadAt, eventVars>>

MarkStep(m) == PickCandidate(m) \/ Bump(m) \/ CountAndBroadcast(m)
-----------------------------------------------------------------------------
Tick ==
    /\ now < MaxTime
    /\ now' = now + 1
    /\ UNCHANGED <<status, rowVars, sendVars, markVars, eventVars>>

DeleteUser(u) ==
    /\ status[u] = "active"
    /\ status' = [status EXCEPT ![u] = "deleted"]
    /\ UNCHANGED <<now, rowVars, sendVars, markVars, eventVars>>

(***************************************************************************)
(* The server dies: every call in flight is gone, and the database rolls   *)
(* its transaction back.  The callers get no answer.                       *)
(***************************************************************************)
InFlight == {s \in Send : pc[s] \notin {"idle", "done"}}

Reading == {m \in Mark : step[m] \in {"candidate", "bump", "count"}}

Crash ==
    /\ InFlight \cup Reading # {}
    /\ pc' = [s \in Send |-> IF s \in InFlight THEN "done" ELSE pc[s]]
    /\ outcome' = [s \in Send |-> IF s \in InFlight THEN "lost" ELSE outcome[s]]
    /\ step' = [m \in Mark |-> IF m \in Reading THEN "failed" ELSE step[m]]
    /\ lock' = [c \in Conv |-> None]
    /\ UNCHANGED <<now, status, opened, messages, lastMessage, lastRead, request, conv,
                   createdAt, mark, candidate, lastReadAt, eventVars>>

Finished ==
    /\ \A s \in Send : pc[s] = "done"
    /\ \A m \in Mark : step[m] \in {"read", "failed"}
    /\ UNCHANGED vars

Next ==
    \/ \E s \in Send : ResolveById(s) \/ GetOrCreate(s) \/ SendStep(s) \/ SendFails(s)
    \/ \E m \in Mark : LoadForRead(m) \/ MarkStep(m) \/ MarkFails(m)
    \/ \E u \in User : DeleteUser(u)
    \/ Tick
    \/ Crash
    \/ Finished

Spec == Init /\ [][Next]_vars

(***************************************************************************)
(* The database answers, and the event loop runs every continuation.       *)
(* Nobody is obliged to call, fail, crash or delete an account.            *)
(***************************************************************************)
Fairness ==
    /\ \A s \in Send : WF_vars(SendStep(s))
    /\ \A m \in Mark : WF_vars(MarkStep(m))

FairSpec == Spec /\ Fairness
-----------------------------------------------------------------------------
(***************************************************************************)
(* The preview of the conversation list is a committed message of that     *)
(* conversation, and there is one as soon as a message is committed        *)
(* (design Property 14).                                                   *)
(***************************************************************************)
PreviewCommitted ==
    \A c \in Conv :
        IF MessagesOf(c) = {} THEN lastMessage[c] = None
                              ELSE lastMessage[c] \in MessagesOf(c)

(***************************************************************************)
(* The preview only ever moves to a message committed in that very step:   *)
(* racing senders never turn it back to an older message.                  *)
(***************************************************************************)
PreviewMovesToNew ==
    [][\A c \in Conv : lastMessage'[c] # lastMessage[c] => lastMessage'[c] \in messages' \ messages]_vars

(***************************************************************************)
(* A chat:message event announces a committed message, to both             *)
(* participants of its conversation, one of whom sent it, and to nobody    *)
(* else (design Property 16).                                              *)
(***************************************************************************)
DeliveredCommitted ==
    \A d \in delivered :
        /\ d.message \in messages
        /\ request[d.message].senderId \in Participants(conv[d.message])
        /\ {e.user : e \in {x \in delivered : x.message = d.message}}
               = Participants(conv[d.message])

(***************************************************************************)
(* The answer tells the truth about the database: "sent" means committed   *)
(* and delivered; a refusal, also the one from inside the transaction,     *)
(* means that nothing was stored.  Only a lost connection or a lost server *)
(* leave the caller in doubt (design Property 14).                         *)
(***************************************************************************)
AnswerHonest ==
    \A s \in Send :
        /\ outcome[s] = "sent" => s \in messages /\ \E d \in delivered : d.message = s
        /\ outcome[s] \notin {"none", "sent", "db_error", "lost"} => s \notin messages

(***************************************************************************)
(* What a successful markRead read stays read for that user, whatever      *)
(* older mark arrives after it (design Property 18).                       *)
(***************************************************************************)
ReadStaysRead ==
    \A m \in Mark :
        step[m] = "read" =>
            /\ mark[m].lastReadMessageId \notin Unread(mark[m].userId, mark[m].conversationId)
            /\ ReadDate(mark[m].userId, mark[m].conversationId) >= lastReadAt[m]

(***************************************************************************)
(* A read date never goes back (design Property 18).                       *)
(***************************************************************************)
MarksOnlyAdvance ==
    [][\A c \in Conv, k \in Column : lastRead'[c][k] >= lastRead[c][k]]_vars

(***************************************************************************)
(* A message stops being unread for a user only by a markRead of that user *)
(* in that conversation, not by the other participant's.                   *)
(***************************************************************************)
MarksAreOnesOwn ==
    [][\A c \in Conv : \A u \in Participants(c) :
          \/ Unread(u, c) \subseteq Unread(u, c)'
          \/ \E m \in Mark : /\ step[m] = "bump" /\ step'[m] = "count"
                             /\ mark[m].userId = u
                             /\ mark[m].conversationId = c]_vars

(***************************************************************************)
(* Once an account is deleted, no send that starts afterwards stores a     *)
(* message in a conversation of that user: the projection that a send      *)
(* begins with hides it.  A deletion that comes between that query and the *)
(* insert is a matter of AnswerHonest.                                     *)
(***************************************************************************)
NoPostAfterDeletion ==
    \A s \in Send, u \in User :
        [](pc[s] = "idle" /\ status[u] = "deleted"
             => [](s \in messages => u \notin Participants(conv[s])))

(***************************************************************************)
(* Every call that is past its first query returns: no transaction leaves  *)
(* the row lock behind that the others wait for.                           *)
(***************************************************************************)
EveryCallReturns ==
    /\ \A s \in Send : (pc[s] \notin {"idle", "done"}) ~> (pc[s] = "done")
    /\ \A m \in Mark : (step[m] # "idle") ~> (step[m] \in {"read", "failed"})

(***************************************************************************)
(* The deletion of an account keeps its conversations "so other            *)
(* participants can still see the chat" (comment of deleteUser).           *)
(***************************************************************************)
PartnerStillSees ==
    \A c \in opened :
        (\E u \in Participants(c) : status[u] = "active") => Visible(c)
-----------------------------------------------------------------------------
(***************************************************************************)
(* The inductive invariant behind the safety properties.  A send past its  *)
(* resolution is addressed by a participant; it is committed exactly       *)
(* between COMMIT and its end, and what its answer says follows.  A        *)
(* markRead past its UPDATE is covered by the row, and the message it      *)
(* named is committed, with a stamp that no longer changes.                *)
(***************************************************************************)
Refusals == {"bad_request", "forbidden", "not_found", "unique_violation", "internal_error"}

SendOk(s) ==
    /\ pc[s] \notin {"idle", "done"} \/ s \in messages =>
          /\ conv[s] \in Conv
          /\ request[s] \in SendRequest
          /\ request[s].senderId \in Participants(conv[s])
    /\ pc[s] # "done" => outcome[s] = "none"
    /\ pc[s] \notin {"broadcast", "done"} => s \notin messages
    /\ pc[s] = "broadcast" \/ outcome[s] = "sent" => s \in messages
    /\ outcome[s] \in Refusals => s \notin messages
    /\ outcome[s] = "sent" =>
          \A u \in Participants(conv[s]) : [message |-> s, user |-> u] \in delivered

SendsOk == \A s \in Send : SendOk(s)

DeliveredOk ==
    \A d \in delivered :
        outcome[d.message] = "sent" /\ d.user \in Participants(conv[d.message])

MarkOk(m) ==
    /\ step[m] # "idle" => mark[m] \in MarkRequest
    /\ step[m] \notin {"idle", "failed"} =>
          mark[m].userId \in Participants(mark[m].conversationId)
    /\ step[m] \in {"bump", "count", "read"} /\ mark[m].lastReadMessageId # None =>
          /\ mark[m].lastReadMessageId \in messages
          /\ createdAt[mark[m].lastReadMessageId] = candidate[m]
    /\ step[m] \in {"count", "read"} =>
          /\ candidate[m] <= lastReadAt[m]
          /\ lastReadAt[m] <= ReadDate(mark[m].userId, mark[m].conversationId)

MarksOk == \A m \in Mark : MarkOk(m)

Inv == TypeOK /\ SendsOk /\ DeliveredOk /\ MarksOk /\ PreviewCommitted
-----------------------------------------------------------------------------
(***************************************************************************)
(* The log this component implements: committed messages are posted.       *)
(***************************************************************************)
Log == [s \in Send |-> IF s \in messages THEN conv[s] ELSE None]

Told == {d.message : d \in delivered}

CL == INSTANCE ConversationLog
        WITH Message <- Send, log <- Log, preview <- lastMessage, read <- lastRead,
             told <- Told

(***************************************************************************)
(* Every behaviour of sends and markReads, with their races, rollbacks and *)
(* crashes, is a behaviour of the log.                                     *)
(***************************************************************************)
ImplementsLog == CL!Spec
=============================================================================
