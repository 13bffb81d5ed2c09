------------------------- MODULE ChatMessagesProofs -------------------------
(***************************************************************************)
(* Proofs about ChatMessages, for any users, calls, requests and times.    *)
(***************************************************************************)
EXTENDS ChatMessages, TLAPS

(***************************************************************************)
(* Every step keeps the types.                                             *)
(***************************************************************************)
LEMMA InitTypeOK == Init => TypeOK
BY NoneAssumption DEF Init, TypeOK, Outcomes, Column

LEMMA PairConvType ==
    ASSUME NEW u \in User, NEW v \in User, u # v
    PROVE  /\ PairConv(u, v) \in Conv
           /\ Participants(PairConv(u, v)) = {u, v}
<1>1. u \in Nat /\ v \in Nat
  BY UserAssumption
<1>2. CASE u < v
  BY <1>1, <1>2 DEF PairConv, Conv, Participants
<1>3. CASE v < u
  BY <1>1, <1>3 DEF PairConv, Conv, Participants
<1>4. QED
  BY <1>1, <1>2, <1>3

LEMMA RequestType ==
    /\ \A r \in SendRequest : /\ r.senderId \in User
                              /\ r.conversationId \in Conv \cup {None}
                              /\ r.recipientId \in User \cup {None}
    /\ \A r \in MarkRequest : /\ r.userId \in User
                              /\ r.conversationId \in Conv
                              /\ r.lastReadMessageId \in Send \cup {None}
BY RequestAssumption

LEMMA AnswerType ==
    ASSUME TypeOK, NEW s \in Send, NEW o \in Outcomes, Answer(s, o)
    PROVE  /\ pc' \in [Send -> {"idle", "pair", "insert", "update", "reload", "commit",
                                "broadcast", "done"}]
           /\ outcome' \in [Send -> Outcomes]
BY DEF TypeOK, Answer

LEMMA AdmitType ==
    ASSUME TypeOK, NEW s \in Send, NEW r, NEW c \in Conv,
           Admit(s, r, c) \/ \E o \in Outcomes : Reject(s, o)
    PROVE  /\ pc' \in [Send -> {"idle", "pair", "insert", "update", "reload", "commit",
                                "broadcast", "done"}]
           /\ outcome' \in [Send -> Outcomes]
           /\ conv' \in [Send -> Conv \cup {None}]
<1>1. CASE Answer(s, "bad_request") /\ UNCHANGED conv
  BY <1>1, AnswerType DEF TypeOK, Outcomes
<1>2. CASE Goto(s, "insert") /\ conv' = [conv EXCEPT ![s] = c] /\ UNCHANGED outcome
  BY <1>2 DEF TypeOK, Goto
<1>3. ASSUME NEW o \in Outcomes, Reject(s, o)
      PROVE  /\ pc' \in [Send -> {"idle", "pair", "insert", "update", "reload", "commit",
                                "broadcast", "done"}]
             /\ outcome' \in [Send -> Outcomes]
             /\ conv' \in [Send -> Conv \cup {None}]
  BY <1>3, AnswerType DEF TypeOK, Reject
<1>4. QED
  BY <1>1, <1>2, <1>3 DEF Admit

LEMMA ResolveTypeOK ==
    ASSUME TypeOK, NEW s \in Send, ResolveById(s) PROVE TypeOK'
<1>1. PICK r \in SendRequest :
         /\ r.conversationId # None
         /\ Arrive(s, r)
         /\ \/ \E o \in {"not_found", "forbidden", "bad_request", "db_error"} : Reject(s, o)
            \/ Admit(s, r, r.conversationId)
  BY DEF ResolveById
<1>2. r.conversationId \in Conv
  BY <1>1, RequestType
<1>3. /\ pc' \in [Send -> {"idle", "pair", "insert", "update", "reload", "commit",
                           "broadcast", "done"}]
      /\ outcome' \in [Send -> Outcomes]
      /\ conv' \in [Send -> Conv \cup {None}]
  BY <1>1, <1>2, AdmitType DEF Outcomes
<1>4. request' \in [Send -> SendRequest \cup {None}]
  BY <1>1 DEF Arrive, TypeOK
<1>5. UNCHANGED <<now, status, opened, messages, lastMessage, lastRead, lock, createdAt,
                  mark, step, candidate, lastReadAt, delivered, updates, receipts>>
  BY DEF ResolveById, rowVars, markVars, eventVars
<1>6. QED
  BY <1>3, <1>4, <1>5 DEF TypeOK

LEMMA GetOrCreateTypeOK ==
    ASSUME TypeOK, NEW s \in Send, GetOrCreate(s) PROVE TypeOK'
<1>1. PICK r \in SendRequest :
         /\ Arrive(s, r)
         /\ \/ /\ \E o \in {"not_found", "unique_violation", "bad_request", "db_error"} :
                     Reject(s, o)
               /\ UNCHANGED opened
            \/ /\ r.recipientId \notin {None, r.senderId}
               /\ opened' = opened \cup {PairConv(r.senderId, r.recipientId)}
               /\ conv' = [conv EXCEPT ![s] = PairConv(r.senderId, r.recipientId)]
               /\ Goto(s, "pair")
               /\ UNCHANGED outcome
  BY DEF GetOrCreate
<1>2. request' \in [Send -> SendRequest \cup {None}]
  BY <1>1 DEF Arrive, TypeOK
<1>3. UNCHANGED <<now, status, messages, lastMessage, lastRead, lock, createdAt,
                  mark, step, candidate, lastReadAt, delivered, updates, receipts>>
  BY DEF GetOrCreate, markVars, eventVars
<1>4. ASSUME NEW o \in {"not_found", "unique_violation", "bad_request", "db_error"},
             Reject(s, o), UNCHANGED opened
      PROVE  TypeOK'
  BY <1>2, <1>3, <1>4, AnswerType DEF TypeOK, Reject, Outcomes
<1>5. ASSUME r.recipientId \notin {None, r.senderId},
             opened' = opened \cup {PairConv(r.senderId, r.recipientId)},
             conv' = [conv EXCEPT ![s] = PairConv(r.senderId, r.recipientId)],
             Goto(s, "pair"),
             UNCHANGED outcome
      PROVE  TypeOK'
  <2>1. PairConv(r.senderId, r.recipientId) \in Conv
    BY <1>5, RequestType, PairConvType
  <2>2. opened' \subseteq Conv /\ conv' \in [Send -> Conv \cup {None}]
    BY <1>5, <2>1 DEF TypeOK
  <2>3. pc' \in [Send -> {"idle", "pair", "insert", "update", "reload", "commit",
                           "broadcast", "done"}]
    BY <1>5 DEF TypeOK, Goto
  <2>4. QED
    BY <1>2, <1>3, <1>5, <2>2, <2>3 DEF TypeOK
<1>6. QED
  BY <1>1, <1>4, <1>5

LEMMA LoadPairTypeOK ==
    ASSUME TypeOK, NEW s \in Send, LoadPair(s),
           pc[s] = "pair" => conv[s] \in Conv
    PROVE  TypeOK'
<1>1. conv[s] \in Conv
  BY DEF LoadPair
<1>2. Reject(s, "not_found") \/ Admit(s, request[s], conv[s])
  BY DEF LoadPair
<1>3. /\ pc' \in [Send -> {"idle", "pair", "insert", "update", "reload", "commit",
                           "broadcast", "done"}]
      /\ outcome' \in [Send -> Outcomes]
      /\ conv' \in [Send -> Conv \cup {None}]
  BY <1>1, <1>2, AdmitType DEF Outcomes
<1>4. UNCHANGED <<now, status, opened, messages, lastMessage, lastRead, lock, request,
                  createdAt, mark, step, candidate, lastReadAt, delivered, updates, receipts>>
  BY DEF LoadPair, rowVars, markVars, eventVars
<1>5. QED
  BY <1>3, <1>4 DEF TypeOK

LEMMA TransactionTypeOK ==
    ASSUME TypeOK, NEW s \in Send, conv[s] \in Conv,
           \/ InsertMessage(s) \/ UpdateConversation(s)
           \/ ReloadConversation(s) \/ Commit(s)
    PROVE  TypeOK'
<1>1. CASE InsertMessage(s)
  BY <1>1 DEF InsertMessage, Goto, TypeOK, rowVars, markVars, eventVars
<1>2. CASE UpdateConversation(s)
  BY <1>2 DEF UpdateConversation, Goto, TypeOK, markVars, eventVars
<1>3. Unlock(s) => lock' \in [Conv -> Send \cup {None}]
  BY DEF Unlock, TypeOK
<1>4. CASE ReloadConversation(s)
  <2>1. CASE Goto(s, "commit") /\ UNCHANGED <<lock, outcome>>
    BY <1>4, <2>1 DEF ReloadConversation, Goto, TypeOK, markVars, eventVars
  <2>2. CASE Unlock(s) /\ Answer(s, "internal_error")
    BY <1>3, <1>4, <2>2, AnswerType DEF ReloadConversation, TypeOK, Outcomes, markVars, eventVars
  <2>3. QED
    BY <1>4, <2>1, <2>2 DEF ReloadConversation
<1>5. CASE Commit(s)
  <2>1. /\ messages' \subseteq Send
        /\ lastMessage' \in [Conv -> Send \cup {None}]
        /\ lock' \in [Conv -> Send \cup {None}]
    BY <1>3, <1>5 DEF Commit, TypeOK
  <2>2. CASE Goto(s, "broadcast") /\ UNCHANGED outcome
    BY <1>5, <2>1, <2>2 DEF Commit, Goto, TypeOK, markVars, eventVars
  <2>3. CASE Answer(s, "db_error")
    BY <1>5, <2>1, <2>3, AnswerType DEF Commit, TypeOK, Outcomes, markVars, eventVars
  <2>4. QED
    BY <1>5, <2>2, <2>3 DEF Commit
<1>6. QED
  BY <1>1, <1>2, <1>4, <1>5

LEMMA BroadcastTypeOK ==
    ASSUME TypeOK, NEW s \in Send, conv[s] \in Conv, Broadcast(s)
    PROVE  TypeOK'
<1>1. Participants(conv[s]) \subseteq User
  BY DEF Participants, Conv
<1>2. delivered' \subseteq [message : Send, user : User]
  BY <1>1 DEF Broadcast, TypeOK
<1>3. updates' \subseteq [cause : Send \cup Mark, user : User, unread : Nat]
  BY <1>1 DEF Broadcast, TypeOK
<1>4. QED
  BY <1>2, <1>3, AnswerType DEF Broadcast, TypeOK, Outcomes, rowVars, markVars

LEMMA SendFailsTypeOK ==
    ASSUME TypeOK, NEW s \in Send, SendFails(s) PROVE TypeOK'
<1>1. lock' \in [Conv -> Send \cup {None}]
  BY DEF SendFails, Unlock, TypeOK
<1>2. QED
  BY <1>1, AnswerType DEF SendFails, TypeOK, Outcomes, markVars, eventVars

LEMMA MarkTypeOK ==
    ASSUME TypeOK, NEW m \in Mark, mark[m] \in MarkRequest \/ step[m] = "idle",
           LoadForRead(m) \/ MarkStep(m) \/ MarkFails(m)
    PROVE  TypeOK'
<1>1. CASE LoadForRead(m)
  BY <1>1 DEF LoadForRead, Advance, TypeOK, rowVars, sendVars, eventVars
<1>2. CASE PickCandidate(m)
  <2>1. candidate' \in [Mark -> Nat]
    BY <1>2 DEF PickCandidate, TypeOK, MessagesOf
  <2>2. step' \in [Mark -> {"idle", "candidate", "bump", "count", "read", "failed"}]
    BY <1>2 DEF PickCandidate, Advance, TypeOK
  <2>3. QED
    BY <1>2, <2>1, <2>2 DEF PickCandidate, TypeOK, rowVars, sendVars, eventVars
<1>3. CASE Bump(m)
  <2> DEFINE c == mark[m].conversationId
             k == ColumnOf(mark[m].userId, c)
             date == Greatest(lastRead[c][k], candidate[m])
  <2>1. c \in Conv /\ k \in Column
    BY <1>3, RequestType DEF Bump, ColumnOf, Column
  <2>2. date \in Nat
    BY <2>1 DEF TypeOK, Greatest
  <2>3. lastRead' = [lastRead EXCEPT ![c][k] = date] /\ lastReadAt' = [lastReadAt EXCEPT ![m] = date]
    BY <1>3 DEF Bump
  <2>4. lastRead' \in [Conv -> [Column -> Nat]] /\ lastReadAt' \in [Mark -> Nat]
    <3> HIDE DEF c, k, date
    <3>1. QED
      BY <2>1, <2>2, <2>3 DEF TypeOK
  <2>5. QED
    BY <1>3, <2>4 DEF Bump, Advance, TypeOK, sendVars, eventVars
<1>4. CASE CountAndBroadcast(m)
  <2>1. Participants(mark[m].conversationId) \subseteq User
    BY <1>4, RequestType DEF CountAndBroadcast, Participants, Conv
  <2>2. receipts' \subseteq [mark : Mark, user : User]
    BY <1>4, <2>1 DEF CountAndBroadcast, TypeOK
  <2>3. QED
    BY <1>4, <2>2 DEF CountAndBroadcast, Advance, TypeOK, rowVars, sendVars
<1>5. CASE MarkFails(m)
  BY <1>5 DEF MarkFails, Advance, TypeOK, rowVars, sendVars, eventVars
<1>6. QED
  BY <1>1, <1>2, <1>3, <1>4, <1>5 DEF MarkStep

LEMMA WorldTypeOK ==
    ASSUME TypeOK, Tick \/ Crash \/ (\E u \in User : DeleteUser(u)) \/ UNCHANGED vars
    PROVE  TypeOK'
<1>1. CASE Tick
  BY <1>1 DEF Tick, TypeOK, rowVars, sendVars, markVars, eventVars
<1>2. CASE Crash
  BY <1>2 DEF Crash, TypeOK, Outcomes, eventVars
<1>3. ASSUME NEW u \in User, DeleteUser(u) PROVE TypeOK'
  BY <1>3 DEF DeleteUser, TypeOK, rowVars, sendVars, markVars, eventVars
<1>4. CASE UNCHANGED vars
  BY <1>4 DEF vars, TypeOK, rowVars, sendVars, markVars, eventVars
<1>5. QED
  BY <1>1, <1>2, <1>3, <1>4
-----------------------------------------------------------------------------
(***************************************************************************)
(* A send that is not committed may change its own variables without       *)
(* disturbing the log, the other sends or the marks.                       *)
(***************************************************************************)
LEMMA QuietSend ==
    ASSUME Inv, TypeOK', NEW s \in Send, pc[s] # "done", s \notin messages,
           UNCHANGED <<messages, lastMessage, lastRead, delivered>>,
           UNCHANGED <<mark, step, candidate, lastReadAt>>,
           \A t \in Send : t # s => /\ request'[t] = request[t]
                                    /\ pc'[t] = pc[t]
                                    /\ conv'[t] = conv[t]
                                    /\ createdAt'[t] = createdAt[t]
                                    /\ outcome'[t] = outcome[t],
           SendOk(s)'
    PROVE  Inv'
<1>1. ASSUME NEW t \in Send, t # s PROVE SendOk(t)'
  BY <1>1 DEF Inv, SendsOk, SendOk, Participants
<1>2. outcome[s] = "none"
  BY DEF Inv, SendsOk, SendOk
<1>3. \A d \in delivered : d.message \in Send /\ d.message # s
  BY <1>2 DEF Inv, DeliveredOk, TypeOK
<1>4. DeliveredOk'
  BY <1>3 DEF Inv, DeliveredOk, Participants
<1>5. ASSUME NEW m \in Mark PROVE MarkOk(m)'
  <2>1. MarkOk(m)
    BY DEF Inv, MarksOk
  <2>2. mark[m].lastReadMessageId \in messages =>
           createdAt'[mark[m].lastReadMessageId] = createdAt[mark[m].lastReadMessageId]
    BY DEF Inv, TypeOK
  <2>3. QED
    BY <2>1, <2>2 DEF MarkOk, ReadDate
<1>6. PreviewCommitted'
  <2>1. \A c \in Conv : MessagesOf(c)' = MessagesOf(c)
    BY DEF MessagesOf, Inv, TypeOK
  <2>2. QED
    BY <2>1 DEF Inv, PreviewCommitted
<1>7. QED
  BY <1>1, <1>4, <1>5, <1>6 DEF Inv, SendsOk, MarksOk

(***************************************************************************)
(* A send that answers before its COMMIT, without success.                 *)
(***************************************************************************)
LEMMA QuietAnswer ==
    ASSUME Inv, TypeOK', NEW s \in Send, pc[s] \notin {"broadcast", "done"},
           UNCHANGED <<messages, lastMessage, lastRead, delivered, conv, createdAt>>,
           UNCHANGED <<mark, step, candidate, lastReadAt>>,
           \A t \in Send : t # s => request'[t] = request[t],
           NEW o \in Refusals \cup {"db_error"}, Answer(s, o)
    PROVE  Inv'
<1>1. s \notin messages
  BY DEF Inv, SendsOk, SendOk
<1>2. \A t \in Send : t # s => pc'[t] = pc[t] /\ outcome'[t] = outcome[t]
  BY DEF Answer, Inv, TypeOK
<1>3. pc'[s] = "done" /\ outcome'[s] = o /\ o # "sent" /\ o # "none"
  BY DEF Answer, Inv, TypeOK, Refusals
<1>4. SendOk(s)'
  BY <1>1, <1>3 DEF SendOk
<1>5. QED
  BY <1>1, <1>2, <1>4, QuietSend

(***************************************************************************)
(* A send that moves on before its COMMIT, addressed by a participant.     *)
(***************************************************************************)
LEMMA QuietGoto ==
    ASSUME Inv, TypeOK', NEW s \in Send, pc[s] \notin {"broadcast", "done"},
           UNCHANGED <<messages, lastMessage, lastRead, delivered, outcome>>,
           UNCHANGED <<mark, step, candidate, lastReadAt>>,
           \A t \in Send : t # s => /\ request'[t] = request[t]
                                    /\ conv'[t] = conv[t]
                                    /\ createdAt'[t] = createdAt[t],
           NEW label \in {"pair", "insert", "update", "reload", "commit"}, Goto(s, label),
           conv'[s] \in Conv, request'[s] \in SendRequest,
           request'[s].senderId \in Participants(conv'[s])
    PROVE  Inv'
<1>1. s \notin messages /\ outcome[s] = "none"
  BY DEF Inv, SendsOk, SendOk
<1>2. pc'[s] = label /\ \A t \in Send : t # s => pc'[t] = pc[t]
  BY DEF Goto, Inv, TypeOK
<1>3. SendOk(s)'
  BY <1>1, <1>2 DEF SendOk, Participants, Refusals
<1>4. QED
  BY <1>1, <1>2, <1>3, QuietSend

LEMMA ResolveInv == ASSUME Inv, NEW s \in Send, ResolveById(s) PROVE Inv'
<1>1. TypeOK'
  BY ResolveTypeOK DEF Inv
<1>2. PICK r \in SendRequest :
         /\ r.conversationId # None
         /\ Arrive(s, r)
         /\ \/ \E o \in Refusals \cup {"db_error"} : Reject(s, o)
            \/ /\ r.senderId \in Participants(r.conversationId)
               /\ Admit(s, r, r.conversationId)
  BY DEF ResolveById, Refusals
<1>3. /\ UNCHANGED <<messages, lastMessage, lastRead, createdAt, delivered>>
      /\ UNCHANGED <<mark, step, candidate, lastReadAt>>
  BY DEF ResolveById, rowVars, markVars, eventVars
<1>4. /\ pc[s] = "idle" /\ request'[s] = r
      /\ \A t \in Send : t # s => request'[t] = request[t]
  BY <1>2 DEF Arrive, Inv, TypeOK
<1>5. ASSUME NEW o \in Refusals \cup {"db_error"}, Answer(s, o), UNCHANGED conv PROVE Inv'
  BY <1>1, <1>3, <1>4, <1>5, QuietAnswer
<1>6. ASSUME r.senderId \in Participants(r.conversationId), Goto(s, "insert"),
             conv' = [conv EXCEPT ![s] = r.conversationId], UNCHANGED outcome
      PROVE  Inv'
  <2>1. r.conversationId \in Conv
    BY <1>2, RequestType
  <2>2. conv'[s] = r.conversationId /\ \A t \in Send : t # s => conv'[t] = conv[t]
    BY <1>6, <2>1 DEF Inv, TypeOK
  <2>3. QED
    BY <1>1, <1>3, <1>4, <1>6, <2>1, <2>2, QuietGoto
<1>7. QED
  BY <1>2, <1>5, <1>6 DEF Reject, Admit, Refusals

LEMMA GetOrCreateInv == ASSUME Inv, NEW s \in Send, GetOrCreate(s) PROVE Inv'
<1>1. TypeOK'
  BY GetOrCreateTypeOK DEF Inv
<1>2. PICK r \in SendRequest :
         /\ Arrive(s, r)
         /\ \/ \E o \in Refusals \cup {"db_error"} : Reject(s, o)
            \/ /\ r.recipientId \notin {None, r.senderId}
               /\ conv' = [conv EXCEPT ![s] = PairConv(r.senderId, r.recipientId)]
               /\ Goto(s, "pair")
               /\ UNCHANGED outcome
  BY DEF GetOrCreate, Refusals
<1>3. /\ UNCHANGED <<messages, lastMessage, lastRead, createdAt, delivered>>
      /\ UNCHANGED <<mark, step, candidate, lastReadAt>>
  BY DEF GetOrCreate, markVars, eventVars
<1>4. /\ pc[s] = "idle" /\ request'[s] = r
      /\ \A t \in Send : t # s => request'[t] = request[t]
  BY <1>2 DEF Arrive, Inv, TypeOK
<1>5. ASSUME NEW o \in Refusals \cup {"db_error"}, Answer(s, o), UNCHANGED conv PROVE Inv'
  BY <1>1, <1>3, <1>4, <1>5, QuietAnswer
<1>6. ASSUME r.recipientId \notin {None, r.senderId}, Goto(s, "pair"), UNCHANGED outcome,
             conv' = [conv EXCEPT ![s] = PairConv(r.senderId, r.recipientId)]
      PROVE  Inv'
  <2>1. /\ PairConv(r.senderId, r.recipientId) \in Conv
        /\ r.senderId \in Participants(PairConv(r.senderId, r.recipientId))
    BY <1>6, RequestType, PairConvType
  <2>2. /\ conv'[s] = PairConv(r.senderId, r.recipientId)
        /\ \A t \in Send : t # s => conv'[t] = conv[t]
    BY <1>6, <2>1 DEF Inv, TypeOK
  <2>3. QED
    BY <1>1, <1>3, <1>4, <1>6, <2>1, <2>2, QuietGoto
<1>7. QED
  BY <1>2, <1>5, <1>6 DEF Reject

(***************************************************************************)
(* Past its resolution, a send is addressed by a participant.              *)
(***************************************************************************)
LEMMA Addressed ==
    ASSUME Inv, NEW s \in Send, pc[s] \notin {"idle", "done"}
    PROVE  /\ conv[s] \in Conv
           /\ request[s] \in SendRequest
           /\ request[s].senderId \in Participants(conv[s])
BY DEF Inv, SendsOk, SendOk

LEMMA LoadPairInv == ASSUME Inv, NEW s \in Send, LoadPair(s) PROVE Inv'
<1>1. pc[s] = "pair"
  BY DEF LoadPair
<1>2. /\ conv[s] \in Conv /\ request[s] \in SendRequest
      /\ request[s].senderId \in Participants(conv[s])
  BY <1>1, Addressed
<1>3. TypeOK'
  BY <1>2, LoadPairTypeOK DEF Inv
<1>4. /\ UNCHANGED <<messages, lastMessage, lastRead, request, createdAt, delivered>>
      /\ UNCHANGED <<mark, step, candidate, lastReadAt>>
  BY DEF LoadPair, rowVars, markVars, eventVars
<1>5. ASSUME NEW o \in Refusals, Answer(s, o), UNCHANGED conv PROVE Inv'
  BY <1>1, <1>3, <1>4, <1>5, QuietAnswer
<1>6. ASSUME Goto(s, "insert"), conv' = [conv EXCEPT ![s] = conv[s]], UNCHANGED outcome
      PROVE  Inv'
  <2>1. conv' = conv
    BY <1>6 DEF Inv, TypeOK
  <2>2. QED
    BY <1>1, <1>2, <1>3, <1>4, <1>6, <2>1, QuietGoto
<1>7. QED
  BY <1>5, <1>6 DEF LoadPair, Reject, Admit, Refusals

LEMMA InsertMessageInv == ASSUME Inv, NEW s \in Send, InsertMessage(s) PROVE Inv'
<1>1. pc[s] = "insert"
  BY DEF InsertMessage
<1>2. TypeOK'
  BY <1>1, Addressed, TransactionTypeOK DEF Inv
<1>3. \A t \in Send : t # s => createdAt'[t] = createdAt[t]
  BY DEF InsertMessage, Inv, TypeOK
<1>4. QED
  BY <1>1, <1>2, <1>3, Addressed, QuietGoto
     DEF InsertMessage, rowVars, markVars, eventVars

LEMMA UpdateConversationInv ==
    ASSUME Inv, NEW s \in Send, UpdateConversation(s) PROVE Inv'
<1>1. pc[s] = "update"
  BY DEF UpdateConversation
<1>2. TypeOK'
  BY <1>1, Addressed, TransactionTypeOK DEF Inv
<1>3. QED
  BY <1>1, <1>2, Addressed, QuietGoto DEF UpdateConversation, markVars, eventVars

LEMMA ReloadConversationInv ==
    ASSUME Inv, NEW s \in Send, ReloadConversation(s) PROVE Inv'
<1>1. pc[s] = "reload"
  BY DEF ReloadConversation
<1>2. TypeOK'
  BY <1>1, Addressed, TransactionTypeOK DEF Inv
<1>3. /\ UNCHANGED <<messages, lastMessage, lastRead, request, conv, createdAt, delivered>>
      /\ UNCHANGED <<mark, step, candidate, lastReadAt>>
  BY DEF ReloadConversation, markVars, eventVars
<1>4. CASE Goto(s, "commit") /\ UNCHANGED outcome
  BY <1>1, <1>2, <1>3, <1>4, Addressed, QuietGoto
<1>5. CASE Answer(s, "internal_error")
  BY <1>1, <1>2, <1>3, <1>5, QuietAnswer DEF Refusals
<1>6. QED
  BY <1>4, <1>5 DEF ReloadConversation

LEMMA SendFailsInv == ASSUME Inv, NEW s \in Send, SendFails(s) PROVE Inv'
<1>1. pc[s] \notin {"broadcast", "done"}
  BY DEF SendFails
<1>2. TypeOK'
  BY SendFailsTypeOK DEF Inv
<1>3. QED
  BY <1>1, <1>2, QuietAnswer DEF SendFails, markVars, eventVars

(***************************************************************************)
(* COMMIT: the message joins the log of its conversation and is its        *)
(* preview; a mark that names a message names one committed before.        *)
(***************************************************************************)
LEMMA CommitInv == ASSUME Inv, NEW s \in Send, Commit(s) PROVE Inv'
<1>1. pc[s] = "commit" /\ s \notin messages /\ outcome[s] = "none"
  BY DEF Commit, Inv, SendsOk, SendOk
<1>2. /\ conv[s] \in Conv /\ request[s] \in SendRequest
      /\ request[s].senderId \in Participants(conv[s])
  BY <1>1, Addressed
<1>3. TypeOK'
  BY <1>2, TransactionTypeOK DEF Inv
<1>4. /\ messages' = messages \cup {s}
      /\ lastMessage' = [lastMessage EXCEPT ![conv[s]] = s]
      /\ UNCHANGED <<lastRead, request, conv, createdAt, delivered>>
      /\ UNCHANGED <<mark, step, candidate, lastReadAt>>
  BY DEF Commit, markVars, eventVars
<1>5. /\ \/ pc'[s] = "broadcast" /\ outcome'[s] = "none"
         \/ pc'[s] = "done" /\ outcome'[s] = "db_error"
      /\ \A t \in Send : t # s => pc'[t] = pc[t] /\ outcome'[t] = outcome[t]
  BY <1>1 DEF Commit, Goto, Answer, Inv, TypeOK
<1>6. SendOk(s)'
  BY <1>2, <1>4, <1>5 DEF SendOk, Participants, Refusals
<1>7. ASSUME NEW t \in Send, t # s PROVE SendOk(t)'
  BY <1>4, <1>5, <1>7 DEF Inv, SendsOk, SendOk, Participants
<1>8. DeliveredOk'
  <2>1. \A d \in delivered : d.message \in Send /\ d.message # s
    BY <1>1 DEF Inv, DeliveredOk, TypeOK
  <2>2. QED
    BY <1>4, <1>5, <2>1 DEF Inv, DeliveredOk, Participants
<1>9. MarksOk'
  BY <1>4 DEF Inv, MarksOk, MarkOk, ReadDate
<1>10. PreviewCommitted'
  <2>1. \A c \in Conv : c = conv[s] => MessagesOf(c)' = MessagesOf(c) \cup {s}
    BY <1>4 DEF MessagesOf
  <2>2. \A c \in Conv : c # conv[s] => MessagesOf(c)' = MessagesOf(c)
    BY <1>4 DEF MessagesOf
  <2>3. lastMessage'[conv[s]] = s
        /\ \A c \in Conv : c # conv[s] => lastMessage'[c] = lastMessage[c]
    BY <1>2, <1>4 DEF Inv, TypeOK
  <2>4. QED
    BY <2>1, <2>2, <2>3 DEF Inv, PreviewCommitted
<1>11. QED
  BY <1>3, <1>6, <1>7, <1>8, <1>9, <1>10 DEF Inv, SendsOk

LEMMA BroadcastInv == ASSUME Inv, NEW s \in Send, Broadcast(s) PROVE Inv'
<1>1. pc[s] = "broadcast" /\ s \in messages
  BY DEF Broadcast, Inv, SendsOk, SendOk
<1>2. /\ conv[s] \in Conv /\ request[s] \in SendRequest
      /\ request[s].senderId \in Participants(conv[s])
  BY <1>1, Addressed
<1>3. TypeOK'
  BY <1>2, BroadcastTypeOK DEF Inv
<1>4. /\ delivered' = delivered \cup
            {[message |-> s, user |-> u] : u \in Participants(conv[s])}
      /\ UNCHANGED <<messages, lastMessage, lastRead, request, conv, createdAt>>
      /\ UNCHANGED <<mark, step, candidate, lastReadAt>>
  BY DEF Broadcast, rowVars, markVars
<1>5. /\ pc'[s] = "done" /\ outcome'[s] = "sent"
      /\ \A t \in Send : t # s => pc'[t] = pc[t] /\ outcome'[t] = outcome[t]
  BY DEF Broadcast, Answer, Inv, TypeOK
<1>6. SendOk(s)'
  BY <1>1, <1>2, <1>4, <1>5 DEF SendOk, Participants, Refusals
<1>7. ASSUME NEW t \in Send, t # s PROVE SendOk(t)'
  BY <1>4, <1>5, <1>7 DEF Inv, SendsOk, SendOk, Participants
<1>8. DeliveredOk'
  <2>1. \A d \in delivered : d.message \in Send
    BY DEF Inv, TypeOK
  <2>2. ASSUME NEW d \in delivered
        PROVE  outcome'[d.message] = "sent" /\ d.user \in Participants(conv[d.message])
    BY <1>5, <2>1 DEF Inv, DeliveredOk
  <2>3. ASSUME NEW u \in Participants(conv[s]), NEW d, d = [message |-> s, user |-> u]
        PROVE  outcome'[d.message] = "sent" /\ d.user \in Participants(conv[d.message])
    BY <1>5, <2>3
  <2>4. ASSUME NEW d \in delivered'
        PROVE  outcome'[d.message] = "sent" /\ d.user \in Participants(conv[d.message])
    <3>1. d \in delivered \/ \E u \in Participants(conv[s]) : d = [message |-> s, user |-> u]
      BY <1>4
    <3>2. QED
      BY <2>2, <2>3, <3>1
  <2>5. conv' = conv
    BY <1>4
  <2>6. QED
    BY <2>4, <2>5 DEF DeliveredOk
<1>9. MarksOk'
  BY <1>4 DEF Inv, MarksOk, MarkOk, ReadDate
<1>10. PreviewCommitted'
  BY <1>4 DEF Inv, PreviewCommitted, MessagesOf
<1>11. QED
  BY <1>3, <1>6, <1>7, <1>8, <1>9, <1>10 DEF Inv, SendsOk
-----------------------------------------------------------------------------
(***************************************************************************)
(* A step of a markRead disturbs no send, and no other markRead as long as *)
(* the read dates do not go back.                                          *)
(***************************************************************************)
DatesAdvance == \A c \in Conv, k \in Column : lastRead'[c][k] >= lastRead[c][k]

LEMMA ReadDateAdvances ==
    ASSUME TypeOK, TypeOK', DatesAdvance, NEW c \in Conv, NEW u
    PROVE  /\ ReadDate(u, c) \in Nat /\ ReadDate(u, c)' \in Nat
           /\ ReadDate(u, c) <= ReadDate(u, c)'
<1>1. /\ lastRead[c]["from"] \in Nat /\ lastRead[c]["to"] \in Nat
      /\ lastRead'[c]["from"] \in Nat /\ lastRead'[c]["to"] \in Nat
  BY DEF TypeOK, Column
<1>2. /\ lastRead[c]["from"] <= lastRead'[c]["from"]
      /\ lastRead[c]["to"] <= lastRead'[c]["to"]
  BY <1>1 DEF DatesAdvance, Column
<1>3. QED
  BY <1>1, <1>2 DEF ReadDate

LEMMA MarkAlone ==
    ASSUME Inv, TypeOK', NEW m \in Mark, DatesAdvance,
           UNCHANGED <<messages, lastMessage, delivered>>,
           UNCHANGED <<request, pc, conv, createdAt, outcome>>,
           \A n \in Mark : n # m => /\ mark'[n] = mark[n]
                                    /\ step'[n] = step[n]
                                    /\ candidate'[n] = candidate[n]
                                    /\ lastReadAt'[n] = lastReadAt[n],
           MarkOk(m)'
    PROVE  Inv'
<1>1. SendsOk'
  BY DEF Inv, SendsOk, SendOk, Participants
<1>2. DeliveredOk' /\ PreviewCommitted'
  BY DEF Inv, DeliveredOk, PreviewCommitted, MessagesOf, Participants
<1>3. ASSUME NEW n \in Mark, n # m PROVE MarkOk(n)'
  <2>1. MarkOk(n)
    BY DEF Inv, MarksOk
  <2>2. step[n] # "idle" => mark[n].conversationId \in Conv
    BY <2>1, RequestType DEF MarkOk
  <2>3. /\ mark'[n] = mark[n] /\ step'[n] = step[n]
        /\ lastReadAt'[n] = lastReadAt[n] /\ lastReadAt[n] \in Nat
    BY <1>3 DEF Inv, TypeOK
  <2>4. ASSUME step[n] \in {"count", "read"}
        PROVE  lastReadAt'[n] <= ReadDate(mark[n].userId, mark[n].conversationId)'
    <3>1. PICK u : u = mark[n].userId
      OBVIOUS
    <3>2. PICK c \in Conv : c = mark[n].conversationId
      BY <2>2, <2>4
    <3>3. lastReadAt[n] <= ReadDate(u, c)
      BY <2>1, <2>4, <3>1, <3>2 DEF MarkOk
    <3>4. ReadDate(u, c) \in Nat /\ ReadDate(u, c)' \in Nat /\ ReadDate(u, c) <= ReadDate(u, c)'
      BY ReadDateAdvances DEF Inv
    <3>5. lastReadAt'[n] <= ReadDate(u, c)'
      BY <2>3, <3>3, <3>4
    <3>6. QED
      BY <2>3, <3>1, <3>2, <3>5 DEF ReadDate
  <2>5. QED
    BY <1>3, <2>1, <2>3, <2>4 DEF MarkOk
<1>4. QED
  BY <1>1, <1>2, <1>3 DEF Inv, MarksOk

LEMMA QuietMarkInv ==
    ASSUME Inv, NEW m \in Mark,
           LoadForRead(m) \/ PickCandidate(m) \/ CountAndBroadcast(m) \/ MarkFails(m)
    PROVE  Inv'
<1>1. MarkOk(m)
  BY DEF Inv, MarksOk
<1>2. mark[m] \in MarkRequest \/ step[m] = "idle"
  BY <1>1 DEF MarkOk
<1>3. TypeOK'
  BY <1>2, MarkTypeOK DEF Inv, MarkStep
<1>4. /\ UNCHANGED <<messages, lastMessage, delivered, lastRead, lastReadAt>>
      /\ UNCHANGED <<request, pc, conv, createdAt, outcome>>
  BY DEF LoadForRead, PickCandidate, CountAndBroadcast, MarkFails, rowVars, sendVars, eventVars
<1>5. DatesAdvance
  <2>1. \A c \in Conv, k \in Column : lastRead[c][k] \in Nat
    BY DEF Inv, TypeOK
  <2>2. QED
    BY <1>4, <2>1 DEF DatesAdvance
<1>6. \A n \in Mark : n # m => /\ mark'[n] = mark[n]
                               /\ step'[n] = step[n]
                               /\ candidate'[n] = candidate[n]
  BY DEF LoadForRead, PickCandidate, CountAndBroadcast, MarkFails, Advance, Inv, TypeOK
<1>7. MarkOk(m)'
  <2>1. CASE LoadForRead(m)
    BY <1>3, <2>1 DEF LoadForRead, Advance, MarkOk, Inv, TypeOK
  <2>2. CASE PickCandidate(m)
    <3>1. step'[m] \in {"bump", "failed"} /\ mark' = mark
      BY <2>2 DEF PickCandidate, Advance, Inv, TypeOK
    <3>2. mark[m].lastReadMessageId # None /\ step'[m] = "bump" =>
             /\ mark[m].lastReadMessageId \in messages
             /\ candidate'[m] = createdAt[mark[m].lastReadMessageId]
      BY <2>2 DEF PickCandidate, Advance, MessagesOf, Inv, TypeOK
    <3>3. /\ mark[m] \in MarkRequest
          /\ mark[m].userId \in Participants(mark[m].conversationId)
      BY <1>1, <2>2 DEF PickCandidate, MarkOk
    <3>4. QED
      BY <1>4, <3>1, <3>2, <3>3 DEF MarkOk, Participants
  <2>3. CASE CountAndBroadcast(m)
    <3>1. step[m] = "count" /\ step'[m] = "read"
          /\ UNCHANGED <<mark, candidate>>
      BY <2>3 DEF CountAndBroadcast, Advance, Inv, TypeOK
    <3>2. QED
      BY <1>1, <1>4, <3>1 DEF MarkOk, ReadDate, Participants
  <2>4. CASE MarkFails(m)
    BY <1>2, <1>4, <2>4 DEF MarkFails, Advance, MarkOk, Inv, TypeOK
  <2>5. QED
    BY <2>1, <2>2, <2>3, <2>4
<1>8. QED
  BY <1>3, <1>4, <1>5, <1>6, <1>7, MarkAlone

(***************************************************************************)
(* The UPDATE with GREATEST.                                               *)
(***************************************************************************)
LEMMA BumpEffect ==
    ASSUME Inv, NEW m \in Mark, Bump(m)
    PROVE  /\ DatesAdvance
           /\ mark[m] \in MarkRequest
           /\ candidate[m] <= lastReadAt'[m]
           /\ lastReadAt'[m] <= ReadDate(mark[m].userId, mark[m].conversationId)'
<1> DEFINE c == mark[m].conversationId
           u == mark[m].userId
           k == ColumnOf(u, c)
           date == Greatest(lastRead[c][k], candidate[m])
<1>1. mark[m] \in MarkRequest
  BY DEF Inv, MarksOk, MarkOk, Bump
<1>2. c \in Conv /\ k \in Column
  BY <1>1, RequestType DEF ColumnOf, Column
<1>3. lastRead[c][k] \in Nat /\ candidate[m] \in Nat
  BY <1>2 DEF Inv, TypeOK
<1>4. date \in Nat /\ date >= lastRead[c][k] /\ date >= candidate[m]
  BY <1>3 DEF Greatest
<1>5. /\ lastRead' = [lastRead EXCEPT ![c][k] = date]
      /\ lastReadAt' = [lastReadAt EXCEPT ![m] = date]
      /\ UNCHANGED mark
  BY DEF Bump
<1>6. lastRead'[c][k] = date /\ lastReadAt'[m] = date
  <2> HIDE DEF c, k, date
  <2>1. QED
    BY <1>2, <1>5 DEF Inv, TypeOK
<1>7. DatesAdvance
  <2> SUFFICES ASSUME NEW d \in Conv, NEW l \in Column
               PROVE  lastRead'[d][l] >= lastRead[d][l]
    BY DEF DatesAdvance
  <2>1. lastRead[d][l] \in Nat
    BY DEF Inv, TypeOK
  <2> HIDE DEF c, k, date
  <2>2. CASE d = c /\ l = k
    BY <1>4, <1>6, <2>2
  <2>3. CASE ~(d = c /\ l = k)
    <3>1. lastRead'[d][l] = lastRead[d][l]
      BY <1>2, <1>5, <2>3 DEF Inv, TypeOK
    <3>2. QED
      BY <2>1, <3>1
  <2>4. QED
    BY <2>2, <2>3
<1>8. ReadDate(u, c)' = lastRead'[c][k]
  BY <1>5 DEF ReadDate, ColumnOf
<1>9. QED
  BY <1>1, <1>4, <1>6, <1>7, <1>8

LEMMA BumpInv == ASSUME Inv, NEW m \in Mark, Bump(m) PROVE Inv'
<1>1. TypeOK'
  BY BumpEffect, MarkTypeOK DEF Inv, MarkStep
<1>2. /\ UNCHANGED <<messages, lastMessage, delivered>>
      /\ UNCHANGED <<request, pc, conv, createdAt, outcome, mark, candidate>>
  BY DEF Bump, sendVars, eventVars
<1>3. /\ step[m] = "bump" /\ step'[m] = "count"
      /\ \A n \in Mark : n # m => step'[n] = step[n] /\ lastReadAt'[n] = lastReadAt[n]
  BY DEF Bump, Advance, Inv, TypeOK
<1>4. MarkOk(m)
  BY DEF Inv, MarksOk
<1>5. MarkOk(m)'
  BY <1>2, <1>3, <1>4, BumpEffect DEF MarkOk
<1>6. QED
  BY <1>1, <1>2, <1>3, <1>5, BumpEffect, MarkAlone
-----------------------------------------------------------------------------
(***************************************************************************)
(* A crash ends the calls in flight: none was answered, and the ones that  *)
(* committed stay committed.                                               *)
(***************************************************************************)
LEMMA CrashInv == ASSUME Inv, Crash PROVE Inv'
<1>1. TypeOK'
  BY WorldTypeOK DEF Inv
<1>2. UNCHANGED <<messages, lastMessage, lastRead, delivered, request, conv, createdAt,
                  mark, candidate, lastReadAt>>
  BY DEF Crash, eventVars
<1>3. \A s \in Send :
         IF pc[s] \in {"idle", "done"}
           THEN pc'[s] = pc[s] /\ outcome'[s] = outcome[s]
           ELSE pc'[s] = "done" /\ outcome'[s] = "lost"
  BY DEF Crash, InFlight
<1>4. SendsOk'
  <2> SUFFICES ASSUME NEW s \in Send PROVE SendOk(s)'
    BY DEF SendsOk
  <2>1. SendOk(s)
    BY DEF Inv, SendsOk
  <2>2. CASE pc[s] \in {"idle", "done"}
    BY <1>2, <1>3, <2>1, <2>2 DEF SendOk, Participants
  <2>3. CASE pc[s] \notin {"idle", "done"}
    BY <1>2, <1>3, <2>1, <2>3 DEF SendOk, Participants, Refusals
  <2>4. QED
    BY <2>2, <2>3
<1>5. DeliveredOk'
  <2>1. \A d \in delivered : d.message \in Send /\ outcome[d.message] = "sent"
    BY DEF Inv, TypeOK, DeliveredOk
  <2>2. \A s \in Send : outcome[s] = "sent" => outcome'[s] = "sent"
    BY <1>3 DEF Inv, SendsOk, SendOk
  <2>3. QED
    BY <1>2, <2>1, <2>2 DEF Inv, DeliveredOk, Participants
<1>6. MarksOk'
  <2>1. \A m \in Mark : step'[m] \in {step[m], "failed"} /\ (step[m] = "idle" => step'[m] = "idle")
    BY DEF Crash, Reading
  <2>2. QED
    BY <1>2, <2>1 DEF Inv, MarksOk, MarkOk, ReadDate
<1>7. PreviewCommitted'
  BY <1>2 DEF Inv, PreviewCommitted, MessagesOf
<1>8. QED
  BY <1>1, <1>4, <1>5, <1>6, <1>7 DEF Inv

LEMMA OtherInv ==
    ASSUME Inv, Tick \/ (\E u \in User : DeleteUser(u)) \/ UNCHANGED vars
    PROVE  Inv'
<1>1. TypeOK'
  BY WorldTypeOK DEF Inv
<1>2. UNCHANGED <<rowVars, sendVars, markVars, eventVars>>
  BY DEF Tick, DeleteUser, vars
<1>3. SendsOk' /\ DeliveredOk'
  BY <1>2 DEF Inv, SendsOk, SendOk, DeliveredOk, Participants,
              rowVars, sendVars, markVars, eventVars
<1>4. MarksOk' /\ PreviewCommitted'
  BY <1>2 DEF Inv, MarksOk, MarkOk, ReadDate, PreviewCommitted, MessagesOf,
              rowVars, sendVars, markVars, eventVars
<1>5. QED
  BY <1>1, <1>3, <1>4 DEF Inv

LEMMA InitInv == Init => Inv
<1> SUFFICES ASSUME Init PROVE Inv
  OBVIOUS
<1>1. SendsOk /\ DeliveredOk /\ MarksOk
  BY DEF Init, SendsOk, SendOk, DeliveredOk, MarksOk, MarkOk, Refusals
<1>2. PreviewCommitted
  BY DEF Init, PreviewCommitted, MessagesOf
<1>3. QED
  BY <1>1, <1>2, InitTypeOK DEF Inv

LEMMA NextInv == Inv /\ [Next]_vars => Inv'
<1> SUFFICES ASSUME Inv, [Next]_vars PROVE Inv'
  OBVIOUS
<1>1. ASSUME NEW s \in Send,
             ResolveById(s) \/ GetOrCreate(s) \/ SendStep(s) \/ SendFails(s)
      PROVE  Inv'
  BY <1>1, ResolveInv, GetOrCreateInv, LoadPairInv, InsertMessageInv, UpdateConversationInv,
     ReloadConversationInv, CommitInv, BroadcastInv, SendFailsInv DEF SendStep
<1>2. ASSUME NEW m \in Mark, LoadForRead(m) \/ MarkStep(m) \/ MarkFails(m)
      PROVE  Inv'
  BY <1>2, QuietMarkInv, BumpInv DEF MarkStep
<1>3. CASE Crash
  BY <1>3, CrashInv
<1>4. CASE Tick \/ (\E u \in User : DeleteUser(u)) \/ UNCHANGED vars
  BY <1>4, OtherInv
<1>5. QED
  BY <1>1, <1>2, <1>3, <1>4 DEF Next, Finished

(***************************************************************************)
(* The invariant holds in every reachable state.                           *)
(***************************************************************************)
THEOREM Invariance == Spec => []Inv
<1>1. QED
  BY InitInv, NextInv, PTL DEF Spec

(***************************************************************************)
(* The tables, the calls and the events keep their types.                  *)
(***************************************************************************)
THEOREM TypeCorrect == Spec => []TypeOK
<1>1. Inv => TypeOK
  BY DEF Inv
<1>2. QED
  BY <1>1, Invariance, PTL

(***************************************************************************)
(* The preview of a conversation is always one of its committed messages.  *)
(***************************************************************************)
THEOREM PreviewCorrect == Spec => []PreviewCommitted
<1>1. Inv => PreviewCommitted
  BY DEF Inv
<1>2. QED
  BY <1>1, Invariance, PTL

(***************************************************************************)
(* Only committed messages are announced, to both participants and nobody  *)
(* else.                                                                   *)
(***************************************************************************)
THEOREM DeliveryCorrect == Spec => []DeliveredCommitted
<1>1. Inv => DeliveredCommitted
  <2> SUFFICES ASSUME Inv, NEW d \in delivered
               PROVE  /\ d.message \in messages
                      /\ request[d.message].senderId \in Participants(conv[d.message])
                      /\ {e.user : e \in {x \in delivered : x.message = d.message}}
                             = Participants(conv[d.message])
    BY DEF DeliveredCommitted
  <2>1. d.message \in Send /\ outcome[d.message] = "sent"
    BY DEF Inv, TypeOK, DeliveredOk
  <2>2. SendOk(d.message)
    BY <2>1 DEF Inv, SendsOk
  <2>3. /\ d.message \in messages
        /\ request[d.message].senderId \in Participants(conv[d.message])
    BY <2>1, <2>2 DEF SendOk
  <2>4. \A e \in delivered : e.message = d.message => e.user \in Participants(conv[d.message])
    BY DEF Inv, DeliveredOk
  <2>5. ASSUME NEW u \in Participants(conv[d.message])
        PROVE  \E e \in delivered : e.message = d.message /\ e.user = u
    BY <2>1, <2>2, <2>5 DEF SendOk
  <2>6. QED
    BY <2>3, <2>4, <2>5
<1>2. QED
  BY <1>1, Invariance, PTL

(***************************************************************************)
(* The answer of a send agrees with what the database holds.               *)
(***************************************************************************)
THEOREM AnswerCorrect == Spec => []AnswerHonest
<1>1. Inv => AnswerHonest
  <2> SUFFICES ASSUME Inv, NEW s \in Send
               PROVE  /\ outcome[s] = "sent" =>
                            s \in messages /\ \E d \in delivered : d.message = s
                      /\ outcome[s] \notin {"none", "sent", "db_error", "lost"} =>
                            s \notin messages
    BY DEF AnswerHonest
  <2>1. SendOk(s)
    BY DEF Inv, SendsOk
  <2>2. outcome[s] \notin {"none", "sent", "db_error", "lost"} => outcome[s] \in Refusals
    BY DEF Inv, TypeOK, Outcomes, Refusals
  <2>3. ASSUME outcome[s] = "sent" PROVE \E d \in delivered : d.message = s
    <3>1. request[s].senderId \in Participants(conv[s])
      BY <2>1, <2>3 DEF SendOk
    <3>2. [message |-> s, user |-> request[s].senderId] \in delivered
      BY <2>1, <2>3, <3>1 DEF SendOk
    <3>3. QED
      BY <3>2
  <2>4. QED
    BY <2>1, <2>2, <2>3 DEF SendOk
<1>2. QED
  BY <1>1, Invariance, PTL

(***************************************************************************)
(* What a user marked as read stays read for that user.                    *)
(***************************************************************************)
THEOREM ReadCorrect == Spec => []ReadStaysRead
<1>1. Inv => ReadStaysRead
  <2> SUFFICES ASSUME Inv, NEW m \in Mark, step[m] = "read"
               PROVE  /\ mark[m].lastReadMessageId
                            \notin Unread(mark[m].userId, mark[m].conversationId)
                      /\ ReadDate(mark[m].userId, mark[m].conversationId) >= lastReadAt[m]
    BY DEF ReadStaysRead
  <2> DEFINE c == mark[m].conversationId
             u == mark[m].userId
             last == mark[m].lastReadMessageId
  <2>1. MarkOk(m)
    BY DEF Inv, MarksOk
  <2>2. mark[m] \in MarkRequest /\ c \in Conv /\ last \in Send \cup {None}
    BY <2>1, RequestType DEF MarkOk
  <2>3. ReadDate(u, c) \in Nat /\ candidate[m] \in Nat /\ lastReadAt[m] \in Nat
    BY <2>2 DEF Inv, TypeOK, ReadDate, Column
  <2>4. candidate[m] <= lastReadAt[m] /\ lastReadAt[m] <= ReadDate(u, c)
    BY <2>1 DEF MarkOk
  <2>5. last \notin Unread(u, c)
    <3> SUFFICES ASSUME last \in Unread(u, c) PROVE FALSE
      OBVIOUS
    <3>1. last \in messages /\ createdAt[last] > ReadDate(u, c)
      BY DEF Unread
    <3>2. last # None
      BY <3>1, NoneAssumption DEF Inv, TypeOK
    <3>3. createdAt[last] = candidate[m]
      BY <2>1, <3>2 DEF MarkOk
    <3>4. QED
      BY <2>3, <2>4, <3>1, <3>3
  <2>6. QED
    BY <2>3, <2>4, <2>5
<1>2. QED
  BY <1>1, Invariance, PTL
-----------------------------------------------------------------------------
(***************************************************************************)
(* Action properties.  First, what a step does to the committed messages   *)
(* and to the read dates.                                                  *)
(***************************************************************************)
LEMMA DatesKept ==
    ASSUME TypeOK, UNCHANGED lastRead
    PROVE  DatesAdvance
<1>1. \A c \in Conv, k \in Column : lastRead[c][k] \in Nat
  BY DEF TypeOK
<1>2. QED
  BY <1>1 DEF DatesAdvance

LEMMA OnlyBumpMovesDates ==
    ASSUME [Next]_vars
    PROVE  UNCHANGED lastRead \/ \E m \in Mark : Bump(m)
BY DEF Next, SendStep, MarkStep, Finished, vars, rowVars, ResolveById, GetOrCreate, LoadPair,
       InsertMessage, UpdateConversation, ReloadConversation, Commit, Broadcast, SendFails,
       LoadForRead, PickCandidate, CountAndBroadcast, MarkFails, DeleteUser, Tick, Crash

(***************************************************************************)
(* Read dates never go back, whatever the order of the markReads.          *)
(***************************************************************************)
THEOREM DatesMonotone == Spec => MarksOnlyAdvance
<1>1. Inv /\ [Next]_vars
        => [\A c \in Conv, k \in Column : lastRead'[c][k] >= lastRead[c][k]]_vars
  <2> SUFFICES ASSUME Inv, [Next]_vars
               PROVE  \A c \in Conv, k \in Column : lastRead'[c][k] >= lastRead[c][k]
    OBVIOUS
  <2>1. DatesAdvance
    BY OnlyBumpMovesDates, BumpEffect, DatesKept DEF Inv
  <2>2. QED
    BY <2>1 DEF DatesAdvance
<1>2. QED
  BY <1>1, Invariance, PTL DEF Spec, MarksOnlyAdvance

LEMMA OnlyCommitMovesLog ==
    ASSUME [Next]_vars
    PROVE  \/ UNCHANGED <<messages, lastMessage>>
           \/ \E s \in Send : Commit(s)
BY DEF Next, SendStep, MarkStep, Finished, vars, rowVars, ResolveById, GetOrCreate, LoadPair,
       InsertMessage, UpdateConversation, ReloadConversation, Broadcast, SendFails, Bump,
       LoadForRead, PickCandidate, CountAndBroadcast, MarkFails, DeleteUser, Tick, Crash

(***************************************************************************)
(* The preview only moves to a message committed in that step.             *)
(***************************************************************************)
THEOREM PreviewNewest == Spec => PreviewMovesToNew
<1>1. Inv /\ [Next]_vars
        => [\A c \in Conv : lastMessage'[c] # lastMessage[c]
                               => lastMessage'[c] \in messages' \ messages]_vars
  <2> SUFFICES ASSUME Inv, [Next]_vars, NEW c \in Conv, lastMessage'[c] # lastMessage[c]
               PROVE  lastMessage'[c] \in messages' \ messages
    OBVIOUS
  <2>1. PICK s \in Send : Commit(s)
    BY OnlyCommitMovesLog
  <2>2. s \notin messages
    BY <2>1 DEF Commit, Inv, SendsOk, SendOk
  <2>3. lastMessage'[c] = s /\ messages' = messages \cup {s}
    BY <2>1 DEF Commit, Inv, TypeOK
  <2>4. QED
    BY <2>2, <2>3
<1>2. QED
  BY <1>1, Invariance, PTL DEF Spec, PreviewMovesToNew

(***************************************************************************)
(* A committed message is frozen: no step withdraws it, moves it to        *)
(* another conversation or stamps it again.                                *)
(***************************************************************************)
LEMMA CommittedKept ==
    ASSUME Inv, [Next]_vars, NEW s \in messages
    PROVE  /\ s \in Send /\ s \in messages'
           /\ conv'[s] = conv[s] /\ request'[s] = request[s] /\ createdAt'[s] = createdAt[s]
<1>1. s \in Send /\ pc[s] \in {"broadcast", "done"}
  BY DEF Inv, TypeOK, SendsOk, SendOk
<1>2. ASSUME NEW t \in Send, ResolveById(t) \/ GetOrCreate(t)
      PROVE  /\ messages' = messages /\ createdAt' = createdAt
             /\ conv'[s] = conv[s] /\ request'[s] = request[s]
  <2>1. pc[t] = "idle" /\ t # s
    BY <1>1, <1>2 DEF ResolveById, GetOrCreate, Arrive
  <2>2. messages' = messages /\ createdAt' = createdAt
    BY <1>2 DEF ResolveById, GetOrCreate, rowVars
  <2>3. request'[s] = request[s]
    BY <1>1, <1>2, <2>1 DEF ResolveById, GetOrCreate, Arrive, Inv, TypeOK
  <2>4. conv'[s] = conv[s]
    BY <1>1, <1>2, <2>1 DEF ResolveById, GetOrCreate, Reject, Admit, Inv, TypeOK
  <2>5. QED
    BY <2>2, <2>3, <2>4
<1>3. ASSUME NEW t \in Send, SendStep(t) \/ SendFails(t)
      PROVE  /\ s \in messages' /\ request' = request
             /\ conv'[s] = conv[s] /\ createdAt'[s] = createdAt[s]
  <2>1. CASE LoadPair(t)
    BY <1>1, <2>1 DEF LoadPair, Reject, Admit, rowVars, Inv, TypeOK
  <2>2. CASE InsertMessage(t)
    BY <1>1, <2>2 DEF InsertMessage, rowVars, Inv, TypeOK
  <2>3. CASE UpdateConversation(t) \/ ReloadConversation(t) \/ SendFails(t)
    BY <2>3 DEF UpdateConversation, ReloadConversation, SendFails
  <2>4. CASE Commit(t) \/ Broadcast(t)
    BY <2>4 DEF Commit, Broadcast, rowVars
  <2>5. QED
    BY <1>3, <2>1, <2>2, <2>3, <2>4 DEF SendStep
<1>4. CASE \E m \in Mark : LoadForRead(m) \/ MarkStep(m) \/ MarkFails(m)
  <2>1. PICK m \in Mark : LoadForRead(m) \/ MarkStep(m) \/ MarkFails(m)
    BY <1>4
  <2>2. UNCHANGED sendVars /\ UNCHANGED messages
    BY <2>1 DEF MarkStep, LoadForRead, PickCandidate, Bump, CountAndBroadcast, MarkFails, rowVars
  <2>3. QED
    BY <1>1, <2>2 DEF sendVars
<1>5. CASE \/ \E u \in User : DeleteUser(u)
           \/ Tick \/ Crash \/ Finished \/ UNCHANGED vars
  <2>1. UNCHANGED <<messages, conv, request, createdAt>>
    BY <1>5 DEF DeleteUser, Tick, Crash, Finished, vars, rowVars, sendVars
  <2>2. QED
    BY <1>1, <2>1
<1>6. QED
  BY <1>1, <1>2, <1>3, <1>4, <1>5 DEF Next

(***************************************************************************)
(* The UPDATE of a markRead touches only the read date of its own user.    *)
(***************************************************************************)
LEMMA BumpOwnDate ==
    ASSUME Inv, NEW m \in Mark, Bump(m), NEW c \in Conv, NEW u \in Participants(c),
           ~(mark[m].userId = u /\ mark[m].conversationId = c)
    PROVE  ReadDate(u, c)' = ReadDate(u, c)
<1> DEFINE d == mark[m].conversationId
           v == mark[m].userId
           k == ColumnOf(v, d)
           date == Greatest(lastRead[d][k], candidate[m])
<1>1. /\ mark[m] \in MarkRequest
      /\ v \in Participants(d)
  BY DEF Inv, MarksOk, MarkOk, Bump
<1>2. d \in Conv /\ k \in Column
  BY <1>1, RequestType DEF ColumnOf, Column
<1>3. lastRead' = [lastRead EXCEPT ![d][k] = date]
  BY DEF Bump
<1>4. \A e \in Conv, l \in Column : ~(e = d /\ l = k) => lastRead'[e][l] = lastRead[e][l]
  <2> HIDE DEF d, k, date
  <2>1. QED
    BY <1>2, <1>3 DEF Inv, TypeOK
<1>5. c[1] # c[2] /\ u \in {c[1], c[2]}
  BY UserAssumption DEF Conv, Participants
<1>6. CASE d # c
  BY <1>4, <1>6 DEF ReadDate, Column
<1>7. CASE d = c
  <2>1. v \in {c[1], c[2]} /\ u # v
    BY <1>1, <1>7 DEF Participants
  <2>2. CASE u = c[1]
    <3>1. k = "to"
      BY <1>5, <1>7, <2>1, <2>2 DEF ColumnOf
    <3>2. QED
      BY <1>4, <2>2, <3>1 DEF ReadDate, Column
  <2>3. CASE u = c[2]
    <3>1. k = "from"
      BY <1>5, <1>7, <2>1, <2>3 DEF ColumnOf
    <3>2. QED
      BY <1>4, <1>5, <2>3, <3>1 DEF ReadDate, Column
  <2>4. QED
    BY <1>5, <2>2, <2>3
<1>8. QED
  BY <1>6, <1>7

(***************************************************************************)
(* Only a user's own markRead makes a message read for that user.          *)
(***************************************************************************)
THEOREM OwnMarks == Spec => MarksAreOnesOwn
<1> DEFINE Kept(u, c) == Unread(u, c) \subseteq Unread(u, c)'
           Own(u, c) == \E m \in Mark : /\ mark[m].userId = u
                                        /\ mark[m].conversationId = c
                                        /\ step[m] = "bump" /\ step'[m] = "count"
<1>1. ASSUME Inv, [Next]_vars, NEW c \in Conv, NEW u \in Participants(c)
      PROVE  Kept(u, c) \/ Own(u, c)
  <2>1. ASSUME ReadDate(u, c)' = ReadDate(u, c) PROVE Kept(u, c)
    <3> SUFFICES ASSUME NEW s \in Unread(u, c) PROVE s \in Unread(u, c)'
      OBVIOUS
    <3>1. /\ s \in messages /\ conv[s] = c /\ request[s].senderId # u
          /\ createdAt[s] > ReadDate(u, c)
      BY DEF Unread
    <3>2. /\ s \in messages' /\ conv'[s] = c /\ request'[s].senderId # u
          /\ createdAt'[s] = createdAt[s]
      BY <1>1, <3>1, CommittedKept
    <3>3. createdAt'[s] > ReadDate(u, c)'
      BY <2>1, <3>1, <3>2
    <3>4. QED
      BY <3>2, <3>3 DEF Unread
  <2>2. CASE UNCHANGED lastRead
    BY <2>1, <2>2 DEF ReadDate
  <2>3. ASSUME NEW m \in Mark, Bump(m) PROVE Kept(u, c) \/ Own(u, c)
    <3>1. CASE mark[m].userId = u /\ mark[m].conversationId = c
      BY <1>1, <2>3, <3>1 DEF Bump, Advance, Inv, TypeOK
    <3>2. CASE ~(mark[m].userId = u /\ mark[m].conversationId = c)
      BY <1>1, <2>1, <2>3, <3>2, BumpOwnDate
    <3>3. QED
      BY <3>1, <3>2
  <2>4. QED
    BY <1>1, <2>2, <2>3, OnlyBumpMovesDates
<1>2. Inv /\ [Next]_vars
        => [\A c \in Conv : \A u \in Participants(c) :
               \/ Unread(u, c) \subseteq Unread(u, c)'
               \/ \E m \in Mark : /\ step[m] = "bump" /\ step'[m] = "count"
                                  /\ mark[m].userId = u
                                  /\ mark[m].conversationId = c]_vars
  BY <1>1
<1>3. QED
  BY <1>2, Invariance, PTL DEF Spec, MarksAreOnesOwn
-----------------------------------------------------------------------------
(***************************************************************************)
(* A send that starts when u is deleted is barred from all conversations   *)
(* of u: it has none, or one that it has yet to look up, and then it ends  *)
(* without a message; or it has another, which does not change any more.   *)
(***************************************************************************)
Barred(s, u) ==
    /\ status[u] = "deleted"
    /\ \/ pc[s] \in {"idle", "pair", "done"} /\ s \notin messages
       \/ u \notin Participants(conv[s])

\* A resolution finds no conversation of a deleted user, or has yet to look it up.
LEMMA ResolvesOther ==
    ASSUME Inv, NEW s \in Send, NEW u \in User, status[u] = "deleted",
           ResolveById(s) \/ GetOrCreate(s)
    PROVE  \/ pc'[s] \in {"pair", "done"} /\ messages' = messages
           \/ u \notin Participants(conv'[s])
<1>1. TypeOK
  BY DEF Inv
<1>2. CASE ResolveById(s)
  <2>1. PICK r \in SendRequest : \/ Answer(s, "bad_request") \/ Reject(s, "not_found")
                                 \/ Reject(s, "forbidden") \/ Reject(s, "db_error")
                                 \/ /\ Visible(r.conversationId)
                                    /\ conv' = [conv EXCEPT ![s] = r.conversationId]
    BY <1>2 DEF ResolveById, Admit, Reject
  <2>2. CASE Visible(r.conversationId) /\ conv' = [conv EXCEPT ![s] = r.conversationId]
    BY <1>1, <2>2 DEF Visible, TypeOK
  <2>3. CASE \E o \in Outcomes : Answer(s, o)
    BY <1>1, <1>2, <2>3 DEF ResolveById, Answer, TypeOK, rowVars
  <2> QED
    BY <2>1, <2>2, <2>3 DEF Reject, Outcomes
<1>3. CASE GetOrCreate(s)
  <2>1. messages' = messages
    BY <1>3 DEF GetOrCreate
  <2>2. \/ Goto(s, "pair")
        \/ \E o \in Outcomes : Answer(s, o)
    BY <1>3 DEF GetOrCreate, Reject, Outcomes
  <2> QED
    BY <1>1, <2>1, <2>2 DEF Goto, Answer, TypeOK
<1> QED
  BY <1>2, <1>3

\* What a send that is barred does, and what others do, leaves it barred.
LEMMA BarredKept ==
    ASSUME Inv, [Next]_vars, NEW s \in Send, NEW u \in User, Barred(s, u)
    PROVE  Barred(s, u)'
<1> USE DEF Barred
<1>1. TypeOK /\ SendOk(s)
  BY DEF Inv, SendsOk
<1>2. status'[u] = "deleted"
  <2>1. CASE \E v \in User : DeleteUser(v)
    BY <1>1, <2>1 DEF DeleteUser, TypeOK
  <2>2. CASE UNCHANGED status
    BY <2>2
  <2> QED
    BY <2>1, <2>2 DEF Next, vars, ResolveById, GetOrCreate, SendStep, LoadPair, InsertMessage,
         UpdateConversation, ReloadConversation, Commit, Broadcast, SendFails, LoadForRead,
         MarkStep, PickCandidate, Bump, CountAndBroadcast, MarkFails, Tick, Crash, Finished
<1>3. CASE ResolveById(s) \/ GetOrCreate(s)
  <2>1. pc[s] = "idle" /\ s \notin messages
    BY <1>1, <1>3 DEF ResolveById, GetOrCreate, Arrive, SendOk
  <2> QED
    BY <1>2, <1>3, <2>1, ResolvesOther
<1>4. CASE SendStep(s) \/ SendFails(s)
  <2>1. pc[s] \notin {"idle", "done"} /\ conv[s] \in Conv
    BY <1>1, <1>4 DEF SendStep, SendFails, LoadPair, InsertMessage, UpdateConversation,
         ReloadConversation, Commit, Broadcast, SendOk
  <2>2. \/ conv'[s] = conv[s]
        \/ conv' = [conv EXCEPT ![s] = conv[s]]
    BY <1>4 DEF SendStep, SendFails, LoadPair, InsertMessage, UpdateConversation,
         ReloadConversation, Commit, Broadcast, Admit, Reject
  <2>3. CASE u \notin Participants(conv[s])
    BY <1>1, <1>2, <2>1, <2>2, <2>3 DEF TypeOK
  <2>4. CASE u \in Participants(conv[s])
    <3>1. pc[s] = "pair" /\ s \notin messages /\ ~Visible(conv[s])
      BY <2>1, <2>4 DEF Visible
    <3>2. LoadPair(s) \/ SendFails(s)
      BY <1>4, <3>1 DEF SendStep, InsertMessage, UpdateConversation, ReloadConversation,
           Commit, Broadcast
    <3>3. pc'[s] = "done" /\ messages' = messages
      BY <1>1, <3>1, <3>2 DEF LoadPair, Reject, SendFails, Answer, rowVars, TypeOK
    <3> QED
      BY <1>2, <3>1, <3>3
  <2> QED
    BY <2>3, <2>4
<1>5. CASE \E t \in Send \ {s} : ResolveById(t) \/ GetOrCreate(t) \/ SendStep(t) \/ SendFails(t)
  <2>1. PICK t \in Send \ {s} : ResolveById(t) \/ GetOrCreate(t) \/ SendStep(t) \/ SendFails(t)
    BY <1>5
  <2>2. pc'[s] = pc[s]
    BY <1>1, <2>1 DEF ResolveById, GetOrCreate, SendStep, SendFails, LoadPair, InsertMessage,
         UpdateConversation, ReloadConversation, Commit, Broadcast, Admit, Reject, Answer, Goto,
         TypeOK
  <2>3. conv'[s] = conv[s]
    BY <1>1, <2>1 DEF ResolveById, GetOrCreate, SendStep, SendFails, LoadPair, InsertMessage,
         UpdateConversation, ReloadConversation, Commit, Broadcast, Admit, Reject, TypeOK
  <2>4. messages' \subseteq messages \cup {t}
    BY <2>1 DEF ResolveById, GetOrCreate, SendStep, SendFails, LoadPair, InsertMessage,
         UpdateConversation, ReloadConversation, Commit, Broadcast, rowVars
  <2> QED
    BY <1>2, <2>1, <2>2, <2>3, <2>4
<1>6. CASE \/ \E m \in Mark : LoadForRead(m) \/ MarkStep(m) \/ MarkFails(m)
           \/ \E v \in User : DeleteUser(v)
           \/ Tick \/ Finished \/ UNCHANGED vars
  <2>1. UNCHANGED <<pc, conv, messages>>
    BY <1>6 DEF LoadForRead, MarkStep, PickCandidate, Bump, CountAndBroadcast, MarkFails,
         DeleteUser, Tick, Finished, vars, rowVars, sendVars
  <2> QED
    BY <1>2, <2>1
<1>7. CASE Crash
  <2>1. UNCHANGED <<conv, messages>> /\ pc'[s] \in {pc[s], "done"}
    BY <1>1, <1>7 DEF Crash, InFlight, TypeOK
  <2> QED
    BY <1>2, <2>1
<1> QED
  BY <1>3, <1>4, <1>5, <1>6, <1>7 DEF Next

(***************************************************************************)
(* However the deletion of an account falls among the queries of others, a *)
(* send that starts after it never stores a message in a conversation of   *)
(* that user.                                                              *)
(***************************************************************************)
THEOREM NoLatePost == Spec => NoPostAfterDeletion
<1>1. ASSUME NEW s \in Send, NEW u \in User
      PROVE  Spec => [](pc[s] = "idle" /\ status[u] = "deleted"
                          => [](s \in messages => u \notin Participants(conv[s])))
  <2>1. Inv => (pc[s] = "idle" /\ status[u] = "deleted" => Barred(s, u))
    BY DEF Inv, SendsOk, SendOk, Barred
  <2>2. Inv /\ Barred(s, u) /\ [Next]_vars => Barred(s, u)'
    BY BarredKept
  <2>3. Barred(s, u) => (s \in messages => u \notin Participants(conv[s]))
    BY DEF Barred
  <2> QED
    BY <2>1, <2>2, <2>3, Invariance, PTL DEF Spec
<1> QED
  BY <1>1 DEF NoPostAfterDeletion
-----------------------------------------------------------------------------
(***************************************************************************)
(* Refinement of ConversationLog: the commit posts, the broadcast tells,   *)
(* the UPDATE marks, and every other step stutters.                        *)
(***************************************************************************)
LEMMA InitMaps == Init => CL!Init
BY DEF Init, CL!Init, Log, Told

LEMMA LogKept ==
    ASSUME Inv, [Next]_vars, UNCHANGED messages
    PROVE  Log' = Log
<1>1. \A s \in messages : conv'[s] = conv[s]
  BY CommittedKept
<1>2. QED
  BY <1>1 DEF Log

LEMMA OnlyBroadcastTells ==
    ASSUME [Next]_vars
    PROVE  UNCHANGED delivered \/ \E s \in Send : Broadcast(s)
BY DEF Next, SendStep, MarkStep, Finished, vars, eventVars, ResolveById, GetOrCreate, LoadPair,
       InsertMessage, UpdateConversation, ReloadConversation, Commit, SendFails, Bump,
       LoadForRead, PickCandidate, CountAndBroadcast, MarkFails, DeleteUser, Tick, Crash

LEMMA CommitPosts ==
    ASSUME Inv, [Next]_vars, NEW s \in Send, Commit(s)
    PROVE  CL!Post(s, conv[s]) /\ conv[s] \in Conv
<1>1. s \notin messages /\ conv[s] \in Conv
  BY DEF Commit, Inv, SendsOk, SendOk
<1>2. /\ messages' = messages \cup {s}
      /\ lastMessage' = [lastMessage EXCEPT ![conv[s]] = s]
      /\ UNCHANGED <<lastRead, conv, delivered>>
  BY DEF Commit, eventVars
<1>3. Log[s] = None
  BY <1>1 DEF Log
<1>4. Log' = [Log EXCEPT ![s] = conv[s]]
  BY <1>1, <1>2 DEF Log
<1>5. UNCHANGED Told
  BY <1>2 DEF Told
<1>6. QED
  BY <1>1, <1>2, <1>3, <1>4, <1>5 DEF CL!Post

LEMMA BroadcastTells ==
    ASSUME Inv, [Next]_vars, NEW s \in Send, Broadcast(s)
    PROVE  CL!Tell(s)
<1>1. s \in messages /\ conv[s] \in Conv /\ outcome[s] = "none"
  BY DEF Broadcast, Inv, SendsOk, SendOk
<1>2. Log[s] # None
  BY <1>1, NoneAssumption DEF Log
<1>3. s \notin Told
  BY <1>1 DEF Told, Inv, DeliveredOk
<1>4. Told' = Told \cup {s}
  <2>1. delivered' = delivered \cup {[message |-> s, user |-> u] : u \in Participants(conv[s])}
    BY DEF Broadcast
  <2>2. [message |-> s, user |-> conv[s][1]] \in delivered'
    BY <2>1 DEF Participants
  <2>3. s \in Told' /\ Told \subseteq Told'
    <3>1. Told' = {d.message : d \in delivered'}
      BY DEF Told
    <3>2. \E d \in delivered' : d.message = s
      BY <2>2
    <3>3. \A d \in delivered : d \in delivered'
      BY <2>1
    <3>4. QED
      BY <3>1, <3>2, <3>3 DEF Told
  <2>4. \A d \in delivered' : d \in delivered \/ d.message = s
    BY <2>1
  <2>5. Told' \subseteq Told \cup {s}
    BY <2>4 DEF Told
  <2>6. QED
    BY <2>3, <2>5
<1>5. UNCHANGED <<messages, lastMessage, lastRead>>
  BY DEF Broadcast, rowVars
<1>6. UNCHANGED Log
  BY <1>5, LogKept
<1>7. QED
  BY <1>2, <1>3, <1>4, <1>5, <1>6 DEF CL!Tell

LEMMA BumpMarks ==
    ASSUME Inv, [Next]_vars, NEW m \in Mark, Bump(m)
    PROVE  \E c \in Conv, k \in Column : CL!MarkRead(c, k)
<1>1. mark[m] \in MarkRequest
  BY BumpEffect
<1>2. PICK c \in Conv : c = mark[m].conversationId
  BY <1>1, RequestType
<1>3. PICK k \in Column : k = ColumnOf(mark[m].userId, c)
  BY DEF ColumnOf, Column
<1>4. PICK date : lastRead' = [lastRead EXCEPT ![c][k] = date]
  BY <1>2, <1>3 DEF Bump
<1>5. lastRead' = [lastRead EXCEPT ![c][k] = lastRead'[c][k]]
  BY <1>4 DEF Inv, TypeOK
<1>6. lastRead'[c][k] >= lastRead[c][k]
  BY BumpEffect DEF DatesAdvance
<1>7. UNCHANGED <<messages, lastMessage, delivered>>
  BY DEF Bump, eventVars
<1>8. UNCHANGED <<Log, Told>>
  BY <1>7, LogKept DEF Told
<1>9. QED
  BY <1>5, <1>6, <1>7, <1>8 DEF CL!MarkRead

LEMMA StepMaps == Inv /\ [Next]_vars => [CL!Next]_(CL!vars)
<1> SUFFICES ASSUME Inv, [Next]_vars PROVE CL!Next \/ UNCHANGED CL!vars
  OBVIOUS
<1>1. ASSUME NEW s \in Send, Commit(s) PROVE CL!Next
  BY <1>1, CommitPosts DEF CL!Next
<1>2. ASSUME NEW s \in Send, Broadcast(s) PROVE CL!Next
  BY <1>2, BroadcastTells DEF CL!Next
<1>3. ASSUME NEW m \in Mark, Bump(m) PROVE CL!Next
  BY <1>3, BumpMarks DEF CL!Next
<1>4. ASSUME UNCHANGED <<messages, lastMessage, lastRead, delivered>>
      PROVE  UNCHANGED CL!vars
  BY <1>4, LogKept DEF CL!vars, Told
<1>5. QED
  BY <1>1, <1>2, <1>3, <1>4, OnlyCommitMovesLog, OnlyBroadcastTells, OnlyBumpMovesDates

(***************************************************************************)
(* Sends and markReads, with their races, rollbacks and crashes, implement *)
(* the conversation log.                                                   *)
(***************************************************************************)
THEOREM Refinement == Spec => ImplementsLog
<1>1. Init => CL!Init
  BY InitMaps
<1>2. Inv /\ [Next]_vars => [CL!Next]_(CL!vars)
  BY StepMaps
<1>3. QED
  BY <1>1, <1>2, Invariance, PTL DEF Spec, ImplementsLog, CL!Spec
=============================================================================
