---------------------- MODULE ConversationStartProofs ----------------------
(***************************************************************************)
(* Proofs about ConversationStart, for any set of users, calls and ids.    *)
(***************************************************************************)
EXTENDS ConversationStart, TLAPS

(***************************************************************************)
(* Lo and Hi are the two users of the call, in ascending order.            *)
(***************************************************************************)
LEMMA CanonicalOrder ==
    ASSUME NEW c \in Call, TypeOK
    PROVE  /\ Lo(c) \in User /\ Hi(c) \in User
           /\ Lo(c) \in Nat /\ Hi(c) \in Nat
           /\ {Lo(c), Hi(c)} = PairOf(c)
           /\ TwoUsers(c) => Lo(c) < Hi(c)
<1>1. req[c].userId \in User /\ req[c].otherUserId \in User
  BY DEF TypeOK
<1>2. req[c].userId \in Nat /\ req[c].otherUserId \in Nat
  BY <1>1, UserAssumption
<1>3. QED
  BY <1>1, <1>2 DEF Lo, Hi, PairOf, TwoUsers

(***************************************************************************)
(* Steps that leave the requests alone leave the canonical order alone.    *)
(***************************************************************************)
LEMMA OrderStable ==
    ASSUME NEW c \in Call, UNCHANGED req
    PROVE  /\ Lo(c)' = Lo(c) /\ Hi(c)' = Hi(c)
           /\ TwoUsers(c)' = TwoUsers(c)
BY DEF Lo, Hi, TwoUsers

LEMMA InitInv == Init => Inv
<1> SUFFICES ASSUME Init PROVE Inv
  OBVIOUS
<1>1. TypeOK
  BY DEF Init, TypeOK, NoReply, Outcomes
<1>2. RowsOk /\ AnnouncedOk /\ OwnersOk
  BY DEF Init, RowsOk, AnnouncedOk, OwnersOk
<1>3. CallsOk /\ RepliesOk
  BY DEF Init, CallsOk, RepliesOk, NoReply
<1>4. QED
  BY <1>1, <1>2, <1>3 DEF Inv
-----------------------------------------------------------------------------
(***************************************************************************)
(* Every step keeps the types.                                             *)
(***************************************************************************)
LEMMA ReturnType ==
    ASSUME NEW c \in Call, NEW o \in Outcomes, NEW id \in ConvId \cup {NoConv},
           TypeOK, Return(c, o, id)
    PROVE  /\ pc' \in [Call -> {"start", "lookup", "insert", "reread", "recover", "done"}]
           /\ reply' \in [Call -> [outcome : Outcomes, id : ConvId \cup {NoConv}]]
BY DEF TypeOK, Return

LEMMA NextTypeOK == TypeOK /\ [Next]_vars => TypeOK'
<1> SUFFICES ASSUME TypeOK, [Next]_vars PROVE TypeOK'
  OBVIOUS
<1> USE DEF TypeOK
<1>1. ASSUME NEW c \in Call, CheckUsers(c) PROVE TypeOK'
  BY <1>1, ReturnType DEF CheckUsers, Goto, Return, Outcomes
<1>2. ASSUME NEW c \in Call, LookUp(c) PROVE TypeOK'
  <2>1. ASSUME NEW r \in OfPair(c) PROVE r.id \in ConvId
    BY <2>1 DEF OfPair, Row
  <2>2. CASE Goto(c, "insert")
    BY <1>2, <2>2 DEF LookUp, Goto
  <2>3. ASSUME NEW r \in OfPair(c), Return(c, "existing", r.id) PROVE TypeOK'
    BY <1>2, <2>1, <2>3 DEF LookUp, Return, Outcomes
  <2>4. QED
    BY <1>2, <2>2, <2>3 DEF LookUp
<1>3. ASSUME NEW c \in Call, Insert(c) PROVE TypeOK'
  <2>1. CASE PairTaken(c) /\ Goto(c, "recover") /\ UNCHANGED <<conversations, newId>>
    BY <1>3, <2>1 DEF Insert, Goto
  <2>2. ASSUME NEW id \in ConvId,
               conversations' = conversations \cup
                    {[id |-> id, fromUserId |-> Lo(c), toUserId |-> Hi(c)]},
               newId' = [newId EXCEPT ![c] = id],
               Goto(c, "reread")
        PROVE  TypeOK'
    BY <1>3, <2>2, CanonicalOrder DEF Insert, Goto, Row
  <2>3. QED
    BY <1>3, <2>1, <2>2 DEF Insert
<1>4. ASSUME NEW c \in Call, Reread(c) PROVE TypeOK'
  <2>1. announced' \subseteq [call : Call, id : ConvId, user : User]
    <3>1. CASE UNCHANGED announced
      BY <3>1
    <3>2. ASSUME NEW r \in conversations, r.id = newId[c],
                 announced' = announced \cup Announcements(c)
          PROVE  announced' \subseteq [call : Call, id : ConvId, user : User]
      BY <3>2, CanonicalOrder DEF Announcements, Row
    <3>3. QED
      BY <1>4, <3>1, <3>2 DEF Reread
  <2>2. QED
    BY <1>4, <2>1 DEF Reread, Return, Outcomes
<1>5. ASSUME NEW c \in Call, Recover(c) PROVE TypeOK'
  <2>1. ASSUME NEW r \in OfPair(c) PROVE r.id \in ConvId
    BY <2>1 DEF OfPair, Row
  <2>2. CASE Return(c, "unique_violation", NoConv)
    BY <1>5, <2>2 DEF Recover, Return, Outcomes
  <2>3. ASSUME NEW r \in OfPair(c), Return(c, "existing", r.id) PROVE TypeOK'
    BY <1>5, <2>1, <2>3 DEF Recover, Return, Outcomes
  <2>4. QED
    BY <1>5, <2>2, <2>3 DEF Recover
<1>6. ASSUME NEW c \in Call, QueryFails(c) PROVE TypeOK'
  BY <1>6 DEF QueryFails, Return, Outcomes
<1>7. ASSUME NEW u \in User, DeleteUser(u) PROVE TypeOK'
  BY <1>7 DEF DeleteUser
<1>8. CASE UNCHANGED vars
  BY <1>8 DEF vars
<1>9. QED
  BY <1>1, <1>2, <1>3, <1>4, <1>5, <1>6, <1>7, <1>8 DEF Next, Step

(***************************************************************************)
(* The statuses, rows, replies and ids keep their types in every reachable *)
(* state.                                                                  *)
(***************************************************************************)
THEOREM TypeCorrect == Spec => []TypeOK
<1>1. Init => TypeOK
  BY InitInv DEF Inv
<1>2. QED
  BY <1>1, NextTypeOK, PTL DEF Spec
-----------------------------------------------------------------------------
(***************************************************************************)
(* The steps that neither insert a row nor announce one: a call moves on   *)
(* or returns.  RowsOk, OwnersOk and AnnouncedOk are then untouched.       *)
(***************************************************************************)
LEMMA RowKept ==
    ASSUME NEW c \in Call, NEW id, UNCHANGED req,
           conversations \subseteq conversations', RowOf(c, id)
    PROVE  RowOf(c, id)'
BY OrderStable DEF RowOf

(***************************************************************************)
(* A call that has not answered has announced nothing.                     *)
(***************************************************************************)
LEMMA SilentCall ==
    ASSUME TypeOK, AnnouncedOk, NEW c \in Call, reply[c] = NoReply
    PROVE  \A a \in announced : a.call \in Call /\ a.call # c
<1>1. reply[c].outcome = "none"
  BY DEF NoReply
<1>2. QED
  BY <1>1 DEF AnnouncedOk, TypeOK

LEMMA QuietReturn ==
    ASSUME Inv, TypeOK', NEW c \in Call, NEW o \in Outcomes \ {"none", "created"},
           NEW id \in ConvId \cup {NoConv},
           pc[c] # "done", pc[c] # "reread" \/ o = "db_error",
           Return(c, o, id),
           o = "existing" => TwoUsers(c) /\ RowOf(c, id),
           o = "unique_violation" => \E u \in {Lo(c), Hi(c)} : status[u] = "deleted",
           UNCHANGED <<status, conversations, req, newId, announced>>
    PROVE  Inv'
<1> USE DEF Inv
<1>1. /\ pc' = [pc EXCEPT ![c] = "done"]
      /\ reply' = [reply EXCEPT ![c] = [outcome |-> o, id |-> id]]
  BY DEF Return
<1>2. \A d \in Call : d # c => pc'[d] = pc[d] /\ reply'[d] = reply[d]
  BY <1>1 DEF TypeOK
<1>3. pc'[c] = "done" /\ reply'[c].outcome = o /\ reply'[c].id = id
  BY <1>1 DEF TypeOK
<1>4. RowsOk' /\ OwnersOk'
  BY DEF RowsOk, OwnersOk
<1>5. \A d \in Call : /\ Lo(d)' = Lo(d) /\ Hi(d)' = Hi(d) /\ TwoUsers(d)' = TwoUsers(d)
                      /\ \A k : RowOf(d, k)' = RowOf(d, k)
  BY OrderStable DEF RowOf
<1>6. CallsOk'
  BY <1>2, <1>3, <1>5 DEF CallsOk
<1>7. RepliesOk'
  BY <1>2, <1>3, <1>5 DEF RepliesOk
<1>8. \A a \in announced : a.call \in Call /\ a.call # c
  BY SilentCall DEF CallsOk
<1>9. AnnouncedOk'
  BY <1>2, <1>5, <1>8 DEF AnnouncedOk
<1>10. QED
  BY <1>4, <1>6, <1>7, <1>9

LEMMA QuietGoto ==
    ASSUME Inv, TypeOK', NEW c \in Call, NEW label \in {"lookup", "insert", "recover"},
           pc[c] \notin {"done", "reread"}, Goto(c, label), TwoUsers(c),
           label = "recover" => \E id \in ConvId : RowOf(c, id),
           UNCHANGED <<status, conversations, req, newId, announced>>
    PROVE  Inv'
<1> USE DEF Inv
<1>1. /\ pc' = [pc EXCEPT ![c] = label]
      /\ reply' = reply
  BY DEF Goto
<1>2. pc'[c] = label /\ \A d \in Call : d # c => pc'[d] = pc[d]
  BY <1>1 DEF TypeOK
<1>3. RowsOk' /\ OwnersOk'
  BY DEF RowsOk, OwnersOk
<1>4. \A d \in Call : /\ Lo(d)' = Lo(d) /\ Hi(d)' = Hi(d) /\ TwoUsers(d)' = TwoUsers(d)
                      /\ \A k : RowOf(d, k)' = RowOf(d, k)
  BY OrderStable DEF RowOf
<1>5. CallsOk'
  BY <1>1, <1>2, <1>4 DEF CallsOk
<1>6. RepliesOk'
  BY <1>1, <1>4 DEF RepliesOk
<1>7. \A a \in announced : a.call \in Call
  BY DEF TypeOK
<1>8. AnnouncedOk'
  BY <1>1, <1>4, <1>7 DEF AnnouncedOk
<1>9. QED
  BY <1>3, <1>5, <1>6, <1>8

-----------------------------------------------------------------------------
(***************************************************************************)
(* Each action preserves the invariant.                                    *)
(***************************************************************************)
LEMMA OfPairRow ==
    ASSUME NEW c \in Call, TypeOK, NEW r \in OfPair(c)
    PROVE  /\ r \in conversations
           /\ r.fromUserId = Lo(c) /\ r.toUserId = Hi(c)
           /\ r.id \in ConvId /\ RowOf(c, r.id)
BY DEF OfPair, TypeOK, Row, RowOf

LEMMA CheckUsersInv ==
    ASSUME Inv, TypeOK', NEW c \in Call, CheckUsers(c) PROVE Inv'
<1>1. CASE Return(c, "bad_request", NoConv)
  BY <1>1, QuietReturn DEF CheckUsers, Outcomes
<1>2. CASE Return(c, "not_found", NoConv)
  BY <1>2, QuietReturn DEF CheckUsers, Outcomes
<1>3. CASE req[c].userId # req[c].otherUserId /\ Goto(c, "lookup")
  BY <1>3, QuietGoto DEF CheckUsers, TwoUsers
<1>4. QED
  BY <1>1, <1>2, <1>3 DEF CheckUsers

LEMMA LookUpInv ==
    ASSUME Inv, TypeOK', NEW c \in Call, LookUp(c) PROVE Inv'
<1>1. TwoUsers(c) /\ TypeOK
  BY DEF Inv, CallsOk, LookUp
<1>2. CASE Goto(c, "insert")
  BY <1>1, <1>2, QuietGoto DEF LookUp
<1>3. ASSUME NEW r \in OfPair(c), Return(c, "existing", r.id) PROVE Inv'
  BY <1>1, <1>3, QuietReturn, OfPairRow DEF LookUp, Outcomes
<1>4. QED
  BY <1>2, <1>3 DEF LookUp

LEMMA RecoverInv ==
    ASSUME Inv, TypeOK', NEW c \in Call, Recover(c) PROVE Inv'
<1>1. TwoUsers(c) /\ TypeOK
  BY DEF Inv, CallsOk, Recover
<1>2. ASSUME \A r \in OfPair(c) : ~Visible(r), Return(c, "unique_violation", NoConv) PROVE Inv'
  <2>1. PICK id \in ConvId : RowOf(c, id)
    BY DEF Inv, CallsOk, Recover
  <2>2. PICK r \in conversations : r.fromUserId = Lo(c) /\ r.toUserId = Hi(c)
    BY <2>1 DEF RowOf
  <2>3. ~Visible(r)
    BY <1>2, <2>2 DEF OfPair
  <2>4. \E u \in {Lo(c), Hi(c)} : status[u] = "deleted"
    BY <2>2, <2>3 DEF Visible
  <2>5. QED
    BY <1>2, <2>4, QuietReturn DEF Recover, Outcomes
<1>3. ASSUME NEW r \in OfPair(c), Return(c, "existing", r.id) PROVE Inv'
  BY <1>1, <1>3, QuietReturn, OfPairRow DEF Recover, Outcomes
<1>4. QED
  BY <1>2, <1>3 DEF Recover

LEMMA QueryFailsInv ==
    ASSUME Inv, TypeOK', NEW c \in Call, QueryFails(c) PROVE Inv'
BY QuietReturn DEF QueryFails, Outcomes

LEMMA DeleteUserInv ==
    ASSUME Inv, TypeOK', NEW u \in User, DeleteUser(u) PROVE Inv'
<1> USE DEF Inv
<1>1. RowsOk' /\ OwnersOk'
  BY DEF DeleteUser, RowsOk, OwnersOk
<1>2. \A d \in Call : /\ Lo(d)' = Lo(d) /\ Hi(d)' = Hi(d) /\ TwoUsers(d)' = TwoUsers(d)
                      /\ \A k : RowOf(d, k)' = RowOf(d, k)
  BY OrderStable DEF DeleteUser, RowOf
<1>3. CallsOk'
  BY <1>2 DEF DeleteUser, CallsOk
<1>4. \A v \in User : status[v] = "deleted" => status'[v] = "deleted"
  BY DEF DeleteUser, TypeOK
<1>5. RepliesOk'
  BY <1>2, <1>4, CanonicalOrder DEF DeleteUser, RepliesOk
<1>6. \A a \in announced : a.call \in Call
  BY DEF TypeOK
<1>7. AnnouncedOk'
  BY <1>2, <1>6 DEF DeleteUser, AnnouncedOk
<1>8. QED
  BY <1>1, <1>3, <1>5, <1>7

(***************************************************************************)
(* The INSERT either loses to the unique index, and there is a row to      *)
(* recover with, or adds a canonical row under an id nobody uses.          *)
(***************************************************************************)
LEMMA InsertInv ==
    ASSUME Inv, TypeOK', NEW c \in Call, Insert(c) PROVE Inv'
<1> USE DEF Inv
<1>1. TwoUsers(c) /\ newId[c] = NoConv /\ reply[c] = NoReply
  BY DEF Insert, CallsOk
<1>2. CASE PairTaken(c) /\ Goto(c, "recover") /\ UNCHANGED <<conversations, newId>>
  <2>1. \E id \in ConvId : RowOf(c, id)
    BY <1>2, OfPairRow DEF PairTaken
  <2>2. QED
    BY <1>1, <1>2, <2>1, QuietGoto DEF Insert
<1>3. ASSUME ~PairTaken(c), Lo(c) < Hi(c),
             NEW id \in ConvId,
             \A r \in conversations : r.id # id,
             conversations' = conversations \cup
                    {[id |-> id, fromUserId |-> Lo(c), toUserId |-> Hi(c)]},
             newId' = [newId EXCEPT ![c] = id],
             Goto(c, "reread")
      PROVE  Inv'
  <2> DEFINE new == [id |-> id, fromUserId |-> Lo(c), toUserId |-> Hi(c)]
  <2>1. UNCHANGED <<status, req, announced, reply>>
    BY <1>3 DEF Insert, Goto
  <2>2. \A d \in Call : /\ Lo(d)' = Lo(d) /\ Hi(d)' = Hi(d) /\ TwoUsers(d)' = TwoUsers(d)
                        /\ \A k : RowOf(d, k) => RowOf(d, k)'
    BY <1>3, <2>1, OrderStable, RowKept
  <2>3. RowOf(c, id)'
    <3>1. new \in conversations' /\ new.id = id
          /\ new.fromUserId = Lo(c) /\ new.toUserId = Hi(c)
      BY <1>3
    <3>2. QED
      BY <2>2, <3>1 DEF RowOf
  <2>4. /\ pc'[c] = "reread" /\ newId'[c] = id
        /\ \A d \in Call : d # c => pc'[d] = pc[d] /\ newId'[d] = newId[d]
    BY <1>3 DEF Goto, TypeOK
  <2>5. RowsOk'
    <3>1. \A r \in conversations : ~(r.fromUserId = Lo(c) /\ r.toUserId = Hi(c))
      BY <1>3 DEF PairTaken, OfPair
    <3>2. \A r \in conversations' : r \in conversations \/ r = new
      BY <1>3
    <3>3. \A r, s \in conversations' : r.id = s.id => r = s
      BY <1>3, <3>2 DEF RowsOk
    <3>4. \A r, s \in conversations' :
             r.fromUserId = s.fromUserId /\ r.toUserId = s.toUserId => r = s
      BY <3>1, <3>2 DEF RowsOk
    <3>5. \A r \in conversations' : r.fromUserId < r.toUserId
      BY <1>3, <3>2 DEF RowsOk
    <3>6. QED
      BY <3>3, <3>4, <3>5 DEF RowsOk
  <2>6. id # NoConv
    BY ConvIdAssumption
  <2>7. CallsOk'
    <3> SUFFICES ASSUME NEW d \in Call
                 PROVE  (/\ pc[d] # "done" => reply[d] = NoReply
                         /\ pc[d] \in {"lookup", "insert", "reread", "recover"} => TwoUsers(d)
                         /\ pc[d] = "reread" => newId[d] # NoConv
                         /\ pc[d] = "recover" => \E k \in ConvId : RowOf(d, k)
                         /\ newId[d] # NoConv => TwoUsers(d) /\ RowOf(d, newId[d])
                         /\ newId[d] # NoConv => pc[d] \in {"reread", "done"})'
      BY DEF CallsOk
    <3>1. CASE d = c
      BY <1>1, <2>1, <2>2, <2>3, <2>4, <2>6, <3>1
    <3>2. CASE d # c
      BY <2>1, <2>2, <2>4, <3>2 DEF CallsOk
    <3>3. QED
      BY <3>1, <3>2
  <2>8. RepliesOk'
    BY <1>1, <2>1, <2>2, <2>4 DEF RepliesOk, NoReply
  <2>9. \A d \in Call : newId[d] # id
    <3>1. \A d \in Call : newId[d] # NoConv => \E r \in conversations : r.id = newId[d]
      BY DEF CallsOk, RowOf
    <3>2. QED
      BY <1>3, <2>6, <3>1
  <2>10. OwnersOk'
    BY <2>4, <2>9 DEF OwnersOk
  <2>11. \A a \in announced : a.call \in Call /\ a.call # c
    BY <1>1, SilentCall
  <2>12. AnnouncedOk'
    BY <2>1, <2>2, <2>4, <2>11 DEF AnnouncedOk
  <2>13. QED
    BY <2>5, <2>7, <2>8, <2>10, <2>12
<1>4. QED
  BY <1>2, <1>3 DEF Insert

(***************************************************************************)
(* The re-read answers the call with its own row, announced or not.        *)
(***************************************************************************)
LEMMA RereadInv ==
    ASSUME Inv, TypeOK', NEW c \in Call, Reread(c) PROVE Inv'
<1> USE DEF Inv
<1>1. /\ newId[c] # NoConv /\ newId[c] \in ConvId /\ reply[c] = NoReply
      /\ TwoUsers(c) /\ RowOf(c, newId[c])
  BY DEF Reread, CallsOk, TypeOK
<1>2. UNCHANGED <<status, conversations, req, newId>>
  BY DEF Reread
<1>3. /\ pc'[c] = "done" /\ reply'[c] = [outcome |-> "created", id |-> newId[c]]
      /\ \A d \in Call : d # c => pc'[d] = pc[d] /\ reply'[d] = reply[d]
  BY DEF Reread, Return, TypeOK
<1>4. RowsOk' /\ OwnersOk'
  BY <1>2 DEF RowsOk, OwnersOk
<1>5. \A d \in Call : /\ Lo(d)' = Lo(d) /\ Hi(d)' = Hi(d) /\ TwoUsers(d)' = TwoUsers(d)
                      /\ \A k : RowOf(d, k)' = RowOf(d, k)
  BY <1>2, OrderStable DEF RowOf
<1>6. CallsOk'
  BY <1>1, <1>2, <1>3, <1>5 DEF CallsOk
<1>7. RepliesOk'
  BY <1>1, <1>2, <1>3, <1>5 DEF RepliesOk
<1>8. \A a \in announced : a.call \in Call /\ a.call # c
  BY <1>1, SilentCall
<1>9. CASE UNCHANGED announced
  BY <1>2, <1>3, <1>4, <1>5, <1>6, <1>7, <1>8, <1>9 DEF AnnouncedOk
<1>10. CASE announced' = announced \cup Announcements(c)
  <2>1. ASSUME NEW a \in announced
        PROVE  (/\ newId[a.call] = a.id
                /\ reply[a.call].outcome = "created"
                /\ a.user \in {Lo(a.call), Hi(a.call)}
                /\ \A u \in {Lo(a.call), Hi(a.call)} :
                      [call |-> a.call, id |-> a.id, user |-> u] \in announced)'
    BY <1>2, <1>3, <1>5, <1>8, <1>10 DEF AnnouncedOk
  <2>2. ASSUME NEW a \in Announcements(c)
        PROVE  (/\ newId[a.call] = a.id
                /\ reply[a.call].outcome = "created"
                /\ a.user \in {Lo(a.call), Hi(a.call)}
                /\ \A u \in {Lo(a.call), Hi(a.call)} :
                      [call |-> a.call, id |-> a.id, user |-> u] \in announced)'
    <3>1. a.call = c /\ a.id = newId[c] /\ a.user \in {Lo(c), Hi(c)}
      BY <2>2 DEF Announcements
    <3>2. \A u \in {Lo(c), Hi(c)} : [call |-> c, id |-> newId[c], user |-> u] \in announced'
      BY <1>10 DEF Announcements
    <3>3. QED
      BY <1>2, <1>3, <1>5, <3>1, <3>2
  <2>3. AnnouncedOk'
    BY <1>10, <2>1, <2>2 DEF AnnouncedOk
  <2>4. QED
    BY <1>4, <1>6, <1>7, <2>3
<1>11. QED
  BY <1>9, <1>10 DEF Reread
-----------------------------------------------------------------------------
LEMMA NextInv == Inv /\ [Next]_vars => Inv'
<1> SUFFICES ASSUME Inv, [Next]_vars PROVE Inv'
  OBVIOUS
<1>1. TypeOK'
  BY NextTypeOK DEF Inv
<1>2. ASSUME NEW c \in Call, Step(c) PROVE Inv'
  BY <1>1, <1>2, CheckUsersInv, LookUpInv, InsertInv, RereadInv, RecoverInv, QueryFailsInv
     DEF Step
<1>3. ASSUME NEW u \in User, DeleteUser(u) PROVE Inv'
  BY <1>1, <1>3, DeleteUserInv
<1>4. CASE UNCHANGED vars
  BY <1>4 DEF vars, Inv, TypeOK, RowsOk, CallsOk, RepliesOk, OwnersOk, AnnouncedOk,
              RowOf, TwoUsers, Lo, Hi
<1>5. QED
  BY <1>2, <1>3, <1>4 DEF Next

(***************************************************************************)
(* The inductive invariant holds in every reachable state.                 *)
(***************************************************************************)
THEOREM Invariance == Spec => []Inv
BY InitInv, NextInv, PTL DEF Spec

LEMMA InvOnePerPair == Inv => OnePerPair
<1> SUFFICES ASSUME Inv, NEW r \in conversations, NEW s \in conversations,
                    RowPair(r) = RowPair(s)
             PROVE  r = s
  BY DEF OnePerPair
<1>1. /\ r.fromUserId \in Nat /\ r.toUserId \in Nat
      /\ s.fromUserId \in Nat /\ s.toUserId \in Nat
  BY UserAssumption DEF Inv, TypeOK, Row
<1>2. r.fromUserId < r.toUserId /\ s.fromUserId < s.toUserId
  BY DEF Inv, RowsOk
<1>3. r.fromUserId = s.fromUserId /\ r.toUserId = s.toUserId
  BY <1>1, <1>2 DEF RowPair
<1>4. QED
  BY <1>3 DEF Inv, RowsOk

(***************************************************************************)
(* One row per unordered pair of users, whoever starts the conversation:   *)
(* the canonical order turns the unique index on ordered pairs into one on *)
(* unordered pairs.                                                        *)
(***************************************************************************)
THEOREM UniqueConversation == Spec => []OnePerPair
BY InvOnePerPair, Invariance, PTL

(***************************************************************************)
(* What a successful answer points at: a row of the call's own pair.       *)
(***************************************************************************)
LEMMA AnswerRow ==
    ASSUME Inv, NEW c \in Call, Succeeded(c)
    PROVE  \E r \in conversations :
              /\ r.id = reply[c].id
              /\ RowPair(r) = PairOf(c)
<1>1. RowOf(c, reply[c].id)
  BY DEF Inv, Succeeded, RepliesOk, CallsOk
<1>2. QED
  BY <1>1, CanonicalOrder DEF RowOf, RowPair, Inv

(***************************************************************************)
(* However the calls race, two successful answers agree on the             *)
(* conversation exactly when they are about the same two users.            *)
(***************************************************************************)
THEOREM AnswersAgree == Spec => []SameAnswer
<1>1. Inv => SameAnswer
  <2> SUFFICES ASSUME Inv, NEW c \in Call, NEW d \in Call, Succeeded(c), Succeeded(d)
               PROVE  reply[c].id = reply[d].id <=> PairOf(c) = PairOf(d)
    BY DEF SameAnswer
  <2>1. PICK r \in conversations :
          r.id = reply[c].id /\ RowPair(r) = PairOf(c)
    BY AnswerRow
  <2>2. PICK s \in conversations :
          s.id = reply[d].id /\ RowPair(s) = PairOf(d)
    BY AnswerRow
  <2>3. ASSUME reply[c].id = reply[d].id PROVE PairOf(c) = PairOf(d)
    BY <2>1, <2>2, <2>3 DEF Inv, RowsOk
  <2>4. ASSUME PairOf(c) = PairOf(d) PROVE reply[c].id = reply[d].id
    <3>1. OnePerPair
      BY InvOnePerPair
    <3>2. QED
      BY <2>1, <2>2, <2>4, <3>1 DEF OnePerPair
  <2>5. QED
    BY <2>3, <2>4
<1>2. QED
  BY <1>1, Invariance, PTL

(***************************************************************************)
(* "created: true" (201) goes to at most one call per conversation.        *)
(***************************************************************************)
THEOREM SingleCreator == Spec => []CreatedOnce
<1>1. Inv => CreatedOnce
  BY DEF Inv, CreatedOnce, RepliesOk, OwnersOk
<1>2. QED
  BY <1>1, Invariance, PTL

(***************************************************************************)
(* A new conversation is announced by its creator, to both participants    *)
(* and nobody else.                                                        *)
(***************************************************************************)
THEOREM SingleAnnouncement == Spec => []AnnouncedOnce
<1>1. Inv => AnnouncedOnce
  <2> SUFFICES ASSUME Inv, NEW a \in announced
               PROVE  /\ reply[a.call] = [outcome |-> "created", id |-> a.id]
                      /\ \A b \in announced : b.id = a.id => b.call = a.call
                      /\ {b.user : b \in {x \in announced : x.id = a.id}} = PairOf(a.call)
    BY DEF AnnouncedOnce
  <2>1. \A b \in announced : b.call \in Call /\ newId[b.call] = b.id /\ b.id \in ConvId
    BY DEF Inv, TypeOK, AnnouncedOk
  <2>2. reply[a.call] = [outcome |-> "created", id |-> a.id]
    <3>1. reply[a.call] \in [outcome : Outcomes, id : ConvId \cup {NoConv}]
      BY <2>1 DEF Inv, TypeOK
    <3>2. reply[a.call].outcome = "created" /\ reply[a.call].id = a.id
      BY <2>1 DEF Inv, AnnouncedOk, RepliesOk
    <3>3. QED
      BY <3>1, <3>2
  <2>3. \A b \in announced : b.id = a.id => b.call = a.call
    BY <2>1, ConvIdAssumption DEF Inv, OwnersOk
  <2>4. {b.user : b \in {x \in announced : x.id = a.id}} = {Lo(a.call), Hi(a.call)}
    <3>1. \A b \in announced : b.id = a.id => b.user \in {Lo(a.call), Hi(a.call)}
      BY <2>3 DEF Inv, AnnouncedOk
    <3>2. ASSUME NEW u \in {Lo(a.call), Hi(a.call)}
          PROVE  \E b \in announced : b.id = a.id /\ b.user = u
      BY DEF Inv, AnnouncedOk
    <3>3. QED
      BY <3>1, <3>2
  <2>5. QED
    BY <2>1, <2>2, <2>3, <2>4, CanonicalOrder DEF Inv
<1>2. QED
  BY <1>1, Invariance, PTL

(***************************************************************************)
(* A caller meets the unique violation only if an account was deleted.     *)
(***************************************************************************)
THEOREM RaceAbsorbed == Spec => []ConflictOnlyAfterDeletion
<1>1. Inv => ConflictOnlyAfterDeletion
  <2> SUFFICES ASSUME Inv, NEW c \in Call, reply[c].outcome = "unique_violation"
               PROVE  \E u \in PairOf(c) : status[u] = "deleted"
    BY DEF ConflictOnlyAfterDeletion
  <2>1. \E u \in {Lo(c), Hi(c)} : status[u] = "deleted"
    BY DEF Inv, RepliesOk
  <2>2. QED
    BY <2>1, CanonicalOrder DEF Inv
<1>2. QED
  BY <1>1, Invariance, PTL
-----------------------------------------------------------------------------
(***************************************************************************)
(* Refinement: the rows read as a directory.                               *)
(***************************************************************************)
LEMMA EntryOfRow ==
    ASSUME NEW rows, NEW p, NEW r \in rows, RowPair(r) = p,
           \A s \in rows : RowPair(s) = p => s = r
    PROVE  Entry(rows, p) = r.id
<1>1. (CHOOSE s \in rows : RowPair(s) = p) = r
  OBVIOUS
<1>2. QED
  BY <1>1 DEF Entry

LEMMA NoEntry ==
    ASSUME NEW rows, NEW p, \A r \in rows : RowPair(r) # p
    PROVE  Entry(rows, p) = NoConv
BY DEF Entry

LEMMA DirectoryShape == Directory = [p \in PD!Pair |-> Entry(conversations, p)]
BY DEF Directory, PD!Pair

LEMMA RowPairIsPair ==
    ASSUME TypeOK, NEW r \in conversations
    PROVE  RowPair(r) \in PD!Pair
<1>1. r.fromUserId \in User /\ r.toUserId \in User
  BY DEF TypeOK, Row
<1>2. QED
  BY <1>1 DEF RowPair, PD!Pair

LEMMA DirectoryEntry ==
    ASSUME Inv, NEW r \in conversations
    PROVE  RowPair(r) \in PD!Pair /\ Directory[RowPair(r)] = r.id
<1>1. RowPair(r) \in PD!Pair
  BY RowPairIsPair DEF Inv
<1>2. \A s \in conversations : RowPair(s) = RowPair(r) => s = r
  BY InvOnePerPair DEF OnePerPair
<1>3. Entry(conversations, RowPair(r)) = r.id
  BY <1>2, EntryOfRow
<1>4. QED
  BY <1>1, <1>3, DirectoryShape

(***************************************************************************)
(* A return changes the answer of its call only.                           *)
(***************************************************************************)
LEMMA AnswerOfReturn ==
    ASSUME Inv, NEW c \in Call, pc[c] # "done",
           NEW o \in Outcomes, NEW id \in ConvId \cup {NoConv}, Return(c, o, id)
    PROVE  /\ Answer[c] = PD!Unanswered
           /\ o \in {"created", "existing"} =>
                 Answer' = [Answer EXCEPT ![c] = [outcome |-> o, id |-> id]]
           /\ o \notin {"none", "created", "existing"} =>
                 Answer' = [Answer EXCEPT ![c] = PD!Refused]
<1>1. reply[c] = NoReply
  BY DEF Inv, CallsOk
<1>2. Answer[c] = PD!Unanswered
  BY <1>1 DEF Answer, NoReply, PD!Unanswered
<1>3. /\ reply'[c] = [outcome |-> o, id |-> id]
      /\ \A d \in Call : d # c => reply'[d] = reply[d]
  BY DEF Return, Inv, TypeOK
<1>4. \A d \in Call : d # c => Answer'[d] = Answer[d]
  BY <1>3 DEF Answer
<1>5. /\ o \in {"created", "existing"} => Answer'[c] = [outcome |-> o, id |-> id]
      /\ o \notin {"none", "created", "existing"} => Answer'[c] = PD!Refused
  BY <1>3 DEF Answer, PD!Refused
<1>6. Answer = [d \in Call |-> Answer[d]] /\ Answer' = [d \in Call |-> Answer'[d]]
  BY DEF Answer
<1>7. QED
  BY <1>2, <1>4, <1>5, <1>6

(***************************************************************************)
(* The three ways a step of a call maps to a step of the directory.        *)
(***************************************************************************)
LEMMA RefusalMaps ==
    ASSUME Inv, NEW c \in Call, pc[c] # "done",
           NEW o \in {"bad_request", "not_found", "unique_violation", "db_error"},
           Return(c, o, NoConv), UNCHANGED conversations
    PROVE  PD!Next
<1>1. Answer[c] = PD!Unanswered /\ Answer' = [Answer EXCEPT ![c] = PD!Refused]
  BY AnswerOfReturn DEF Outcomes
<1>2. UNCHANGED Directory
  BY DEF Directory
<1>3. PD!Refuse(c)
  BY <1>1, <1>2 DEF PD!Refuse
<1>4. QED
  BY <1>3 DEF PD!Next

LEMMA ExistingMaps ==
    ASSUME Inv, NEW c \in Call, pc[c] # "done", NEW r \in OfPair(c),
           Return(c, "existing", r.id), UNCHANGED conversations
    PROVE  PD!Next
<1>1. r \in conversations /\ r.id \in ConvId
  BY OfPairRow DEF Inv
<1>2. Answer[c] = PD!Unanswered /\ Answer' = [Answer EXCEPT ![c] = PD!Existing(r.id)]
  BY <1>1, AnswerOfReturn DEF Outcomes, PD!Existing
<1>3. RowPair(r) \in PD!Pair /\ Directory[RowPair(r)] = r.id /\ r.id # NoConv
  BY <1>1, DirectoryEntry, ConvIdAssumption
<1>4. UNCHANGED Directory
  BY DEF Directory
<1>5. PD!AnswerExisting(c, RowPair(r))
  BY <1>2, <1>3, <1>4 DEF PD!AnswerExisting
<1>6. QED
  BY <1>3, <1>5 DEF PD!Next

LEMMA GotoMaps ==
    ASSUME NEW c \in Call, NEW label, Goto(c, label), UNCHANGED conversations
    PROVE  UNCHANGED PD!vars
BY DEF Goto, Answer, Directory, PD!vars

LEMMA InsertMaps ==
    ASSUME Inv, Inv', NEW c \in Call, Insert(c)
    PROVE  [PD!Next]_(PD!vars)
<1>1. CASE Goto(c, "recover") /\ UNCHANGED conversations
  BY <1>1, GotoMaps
<1>2. ASSUME ~PairTaken(c), Lo(c) < Hi(c), NEW id \in ConvId,
             \A r \in conversations : r.id # id,
             conversations' = conversations \cup
                    {[id |-> id, fromUserId |-> Lo(c), toUserId |-> Hi(c)]},
             Goto(c, "reread")
      PROVE  PD!Next
  <2>0. PICK new : new = [id |-> id, fromUserId |-> Lo(c), toUserId |-> Hi(c)]
    OBVIOUS
  <2>1. PICK p : p = RowPair(new)
    OBVIOUS
  <2>2. new \in conversations' /\ conversations' = conversations \cup {new} /\ new.id = id
    BY <1>2, <2>0
  <2>3. p \in PD!Pair
    <3>1. new.fromUserId \in User /\ new.toUserId \in User
      BY <2>0, CanonicalOrder DEF Inv
    <3>2. QED
      BY <2>1, <3>1 DEF RowPair, PD!Pair
  <2>4. \A r \in conversations : RowPair(r) # p
    <3> SUFFICES ASSUME NEW r \in conversations, RowPair(r) = p PROVE FALSE
      OBVIOUS
    <3>1. r.fromUserId < r.toUserId /\ r.fromUserId \in Nat /\ r.toUserId \in Nat
      BY UserAssumption DEF Inv, RowsOk, TypeOK, Row
    <3>2. Lo(c) \in Nat /\ Hi(c) \in Nat /\ p = {Lo(c), Hi(c)}
      BY <2>0, <2>1, CanonicalOrder DEF Inv, RowPair
    <3>3. r.fromUserId = Lo(c) /\ r.toUserId = Hi(c)
      BY <1>2, <3>1, <3>2 DEF RowPair
    <3>4. QED
      BY <1>2, <3>3 DEF PairTaken, OfPair
  <2>5. Directory[p] = NoConv
    BY <2>3, <2>4, NoEntry, DirectoryShape
  <2>6. \A q \in PD!Pair : Directory[q] # id
    <3> SUFFICES ASSUME NEW q \in PD!Pair PROVE Entry(conversations, q) # id
      BY DirectoryShape
    <3>1. CASE \A r \in conversations : RowPair(r) # q
      BY <3>1, NoEntry, ConvIdAssumption
    <3>2. ASSUME NEW r \in conversations, RowPair(r) = q PROVE Entry(conversations, q) # id
      BY <1>2, <3>2, DirectoryEntry, DirectoryShape
    <3>3. QED
      BY <3>1, <3>2
  <2>7. Entry(conversations', p) = id
    BY <2>1, <2>2, <2>4, EntryOfRow
  <2>8. ASSUME NEW q \in PD!Pair, q # p
        PROVE  Entry(conversations', q) = Entry(conversations, q)
    <3>1. CASE \A r \in conversations : RowPair(r) # q
      <4>1. \A r \in conversations' : RowPair(r) # q
        BY <2>1, <2>2, <2>8, <3>1
      <4>2. QED
        BY <3>1, <4>1, NoEntry
    <3>2. ASSUME NEW r \in conversations, RowPair(r) = q
          PROVE  Entry(conversations', q) = Entry(conversations, q)
      <4>1. \A s \in conversations : RowPair(s) = q => s = r
        BY <3>2, InvOnePerPair DEF OnePerPair
      <4>2. \A s \in conversations' : RowPair(s) = q => s = r
        BY <2>1, <2>2, <2>8, <4>1
      <4>3. Entry(conversations, q) = r.id
        BY <3>2, <4>1, EntryOfRow
      <4>4. Entry(conversations', q) = r.id
        BY <2>2, <3>2, <4>2, EntryOfRow
      <4>5. QED
        BY <4>3, <4>4
    <3>3. QED
      BY <3>1, <3>2
  <2>9. Directory' = [q \in PD!Pair |-> Entry(conversations', q)]
    BY DEF Directory, PD!Pair
  <2>10. Directory' = [Directory EXCEPT ![p] = id]
    BY <2>3, <2>7, <2>8, <2>9, DirectoryShape
  <2>11. UNCHANGED Answer
    BY <1>2 DEF Goto, Answer
  <2>12. PD!Register(p, id)
    BY <2>5, <2>6, <2>10, <2>11 DEF PD!Register
  <2>13. QED
    BY <2>3, <2>12 DEF PD!Next
<1>3. QED
  BY <1>1, <1>2 DEF Insert

LEMMA RereadMaps ==
    ASSUME Inv, NEW c \in Call, Reread(c)
    PROVE  PD!Next
<1>1. /\ newId[c] # NoConv /\ newId[c] \in ConvId /\ RowOf(c, newId[c])
      /\ pc[c] # "done" /\ reply[c] = NoReply
  BY DEF Inv, Reread, CallsOk, TypeOK
<1>2. PICK r \in conversations : r.id = newId[c]
  BY <1>1 DEF RowOf
<1>3. RowPair(r) \in PD!Pair /\ Directory[RowPair(r)] = newId[c]
  BY <1>2, DirectoryEntry
<1>4. Answer[c] = PD!Unanswered /\ Answer' = [Answer EXCEPT ![c] = PD!Created(newId[c])]
  BY <1>1, AnswerOfReturn DEF Reread, Outcomes, PD!Created
<1>5. \A d \in Call : Answer[d] # PD!Created(newId[c])
  <2> SUFFICES ASSUME NEW d \in Call, Answer[d] = PD!Created(newId[c]) PROVE FALSE
    OBVIOUS
  <2>1. reply[d].outcome = "created" /\ reply[d].id = newId[c]
    BY DEF Answer, PD!Created
  <2>2. newId[d] = newId[c]
    BY <2>1 DEF Inv, RepliesOk
  <2>3. d = c
    BY <1>1, <2>2 DEF Inv, OwnersOk
  <2>4. QED
    BY <1>1, <2>1, <2>3 DEF NoReply
<1>6. UNCHANGED Directory
  BY DEF Reread, Directory
<1>7. PD!AnswerCreated(c, RowPair(r))
  BY <1>1, <1>3, <1>4, <1>5, <1>6 DEF PD!AnswerCreated
<1>8. QED
  BY <1>3, <1>7 DEF PD!Next

LEMMA StepMaps == Inv /\ Inv' /\ [Next]_vars => [PD!Next]_(PD!vars)
<1> SUFFICES ASSUME Inv, Inv', [Next]_vars PROVE [PD!Next]_(PD!vars)
  OBVIOUS
<1>1. ASSUME NEW c \in Call, CheckUsers(c) PROVE [PD!Next]_(PD!vars)
  BY <1>1, RefusalMaps, GotoMaps DEF CheckUsers
<1>2. ASSUME NEW c \in Call, LookUp(c) PROVE [PD!Next]_(PD!vars)
  BY <1>2, ExistingMaps, GotoMaps DEF LookUp
<1>3. ASSUME NEW c \in Call, Recover(c) PROVE [PD!Next]_(PD!vars)
  BY <1>3, ExistingMaps, RefusalMaps DEF Recover
<1>4. ASSUME NEW c \in Call, QueryFails(c) PROVE [PD!Next]_(PD!vars)
  BY <1>4, RefusalMaps DEF QueryFails
<1>5. ASSUME NEW u \in User, DeleteUser(u) PROVE UNCHANGED PD!vars
  BY <1>5 DEF DeleteUser, Answer, Directory, PD!vars
<1>6. CASE UNCHANGED vars
  BY <1>6 DEF vars, Answer, Directory, PD!vars
<1>7. QED
  BY <1>1, <1>2, <1>3, <1>4, <1>5, <1>6, InsertMaps, RereadMaps DEF Next, Step

LEMMA InitMaps == Init => PD!Init
<1> SUFFICES ASSUME Init PROVE PD!Init
  OBVIOUS
<1>1. Directory = [p \in PD!Pair |-> NoConv]
  BY DirectoryShape, NoEntry DEF Init
<1>2. Answer = [c \in Call |-> PD!Unanswered]
  BY DEF Init, Answer, NoReply, PD!Unanswered
<1>3. QED
  BY <1>1, <1>2 DEF PD!Init

(***************************************************************************)
(* The handler, with its races, recoveries and failures, implements the    *)
(* directory of conversations.                                             *)
(***************************************************************************)
THEOREM Refinement == Spec => ImplementsDirectory
<1>1. Init => PD!Init
  BY InitMaps
<1>2. Inv /\ Inv' /\ [Next]_vars => [PD!Next]_(PD!vars)
  BY StepMaps
<1>3. QED
  BY <1>1, <1>2, Invariance, PTL DEF Spec, ImplementsDirectory, PD!Spec
-----------------------------------------------------------------------------
(***************************************************************************)
(* Refinement of the one step that ChatMessages has for these queries.     *)
(* What a call changes of its send, and nobody else's.                     *)
(***************************************************************************)
LEMMA OneSendMoves ==
    ASSUME Inv, NEW c \in Call, Step(c)
    PROVE  /\ UNCHANGED <<status, req>>
           /\ \A d \in Call : d # c => /\ pc'[d] = pc[d] /\ reply'[d] = reply[d]
                                       /\ newId'[d] = newId[d]
<1>1. UNCHANGED <<status, req>>
  BY DEF Step, CheckUsers, LookUp, Insert, Reread, Recover, QueryFails
<1>2. \A d \in Call : d # c => pc'[d] = pc[d] /\ reply'[d] = reply[d]
  BY DEF Step, CheckUsers, LookUp, Insert, Reread, Recover, QueryFails, Return, Goto, Inv, TypeOK
<1>3. \A d \in Call : d # c => newId'[d] = newId[d]
  BY DEF Step, CheckUsers, LookUp, Insert, Reread, Recover, QueryFails, Inv, TypeOK
<1> QED
  BY <1>1, <1>2, <1>3

LEMMA SendMaps ==
    ASSUME Inv, NEW c \in Call, Step(c)
    PROVE  /\ SendRequests' = [SendRequests EXCEPT ![c] = SendRequests'[c]]
           /\ SendPcs' = [SendPcs EXCEPT ![c] = SendPcs'[c]]
           /\ SendConvs' = [SendConvs EXCEPT ![c] = SendConvs'[c]]
           /\ SendOutcomes' = [SendOutcomes EXCEPT ![c] = SendOutcomes'[c]]
<1>1. \A d \in Call : d # c => /\ Undecided(d)' = Undecided(d) /\ SendOf(d)' = SendOf(d)
                             /\ SendPc(d)' = SendPc(d)
  BY OneSendMoves DEF Undecided, SendOf, SendPc, Succeeded
<1>2. \A d \in Call : d # c => /\ HasRow(d)' = HasRow(d) /\ Lo(d)' = Lo(d) /\ Hi(d)' = Hi(d)
                             /\ Succeeded(d)' = Succeeded(d)
                             /\ reply'[d].outcome = reply[d].outcome
  BY OneSendMoves DEF HasRow, Lo, Hi, Succeeded
<1>3. \A d \in Call : d # c => /\ SendRequests'[d] = SendRequests[d]
                             /\ SendPcs'[d] = SendPcs[d]
                             /\ SendConvs'[d] = SendConvs[d]
                             /\ SendOutcomes'[d] = SendOutcomes[d]
  BY <1>1, <1>2 DEF SendRequests, SendPcs, SendConvs, SendOutcomes
<1> QED
  BY <1>3 DEF SendRequests, SendPcs, SendConvs, SendOutcomes

\* Before anything is decided a send has no row and no answer.
LEMMA UndecidedSend ==
    ASSUME Inv, NEW c \in Call, Undecided(c)
    PROVE  /\ newId[c] = NoConv /\ reply[c] = NoReply
           /\ SendRequests[c] = NoConv /\ SendPcs[c] = "idle"
           /\ SendConvs[c] = NoConv /\ SendOutcomes[c] = "none"
<1>1. newId[c] = NoConv /\ reply[c] = NoReply
  BY DEF Inv, CallsOk, Undecided
<1>2. ~Succeeded(c) /\ ~HasRow(c)
  BY <1>1 DEF Succeeded, HasRow, NoReply
<1> QED
  BY <1>1, <1>2 DEF SendRequests, SendPcs, SendPc, SendConvs, SendOutcomes, NoReply

\* The request of a send is one of those there are, and names its pair as the code orders it.
LEMMA SendOfPair ==
    ASSUME Inv, NEW c \in Call
    PROVE  /\ SendOf(c) \in [senderId : User, conversationId : {NoConv},
                             recipientId : User, valid : {TRUE}]
           /\ SendOf(c).conversationId = NoConv
           /\ SendOf(c).senderId = req[c].userId
           /\ SendOf(c).recipientId = req[c].otherUserId
           /\ SendOf(c).recipientId # NoConv
           /\ CM!PairConv(SendOf(c).senderId, SendOf(c).recipientId) = <<Lo(c), Hi(c)>>
<1>1. req[c].userId \in User /\ req[c].otherUserId \in User
  BY DEF Inv, TypeOK
<1>2. /\ SendOf(c).senderId = req[c].userId /\ SendOf(c).recipientId = req[c].otherUserId
      /\ SendOf(c).conversationId = NoConv
  BY DEF SendOf
<1>3. CM!PairConv(req[c].userId, req[c].otherUserId) = <<Lo(c), Hi(c)>>
  BY DEF CM!PairConv, Lo, Hi
<1> QED
  BY <1>1, <1>2, <1>3, ConvIdAssumption DEF SendOf

\* A call that ends before it inserts or finds a row is a send that is refused.
LEMMA RefusedSend ==
    ASSUME Inv, NEW c \in Call, Step(c), Undecided(c),
           NEW o \in {"bad_request", "db_error", "not_found", "unique_violation"},
           pc'[c] = "done", reply'[c].outcome = o, UNCHANGED <<conversations, newId>>,
           o = "bad_request" <=> ~TwoUsers(c),
           o \in {"not_found", "unique_violation"} =>
              "deleted" \in {status[req[c].userId], status[req[c].otherUserId]},
           o = "unique_violation" => <<Lo(c), Hi(c)>> \in Opened
    PROVE  CM!GetOrCreate(c)
<1>1. /\ ~Succeeded(c)' /\ ~HasRow(c)' /\ ~Undecided(c)'
  BY UndecidedSend DEF Succeeded, HasRow, Undecided
<1>2. /\ SendRequests'[c] = SendOf(c) /\ SendPcs'[c] = "done"
      /\ SendConvs'[c] = NoConv /\ SendOutcomes'[c] = o
  <2>1. SendOf(c)' = SendOf(c)
    BY OneSendMoves DEF SendOf
  <2> QED
    BY <1>1, <2>1 DEF SendRequests, SendPcs, SendPc, SendConvs, SendOutcomes
<1>3. UNCHANGED <<Opened, SendConvs, status>>
  <2>1. SendConvs' = [SendConvs EXCEPT ![c] = SendConvs[c]]
    BY <1>2, SendMaps, UndecidedSend
  <2> QED
    BY <2>1, OneSendMoves DEF Opened, SendConvs
<1>4. CM!Arrive(c, SendOf(c)) /\ CM!Reject(c, o)
  BY <1>2, <1>3, SendMaps, UndecidedSend DEF CM!Arrive, CM!Reject, CM!Answer
<1> QED
  BY <1>3, <1>4, SendOfPair DEF CM!GetOrCreate, CM!markVars, CM!eventVars, TwoUsers

\* A call that inserts a row or finds one it can see is a send that goes on with its pair.
LEMMA ResolvedSend ==
    ASSUME Inv, NEW c \in Call, Step(c), Undecided(c), TwoUsers(c),
           \/ pc'[c] = "reread" /\ reply'[c] = reply[c] /\ newId'[c] # NoConv
           \/ pc'[c] = "done" /\ Succeeded(c)',
           Opened' = Opened \cup {<<Lo(c), Hi(c)>>},
           "deleted" \in {status[req[c].userId], status[req[c].otherUserId]} =>
              <<Lo(c), Hi(c)>> \notin Opened
    PROVE  CM!GetOrCreate(c)
<1>1. HasRow(c)' /\ ~Undecided(c)'
  BY DEF HasRow, Undecided
<1>2. /\ SendRequests'[c] = SendOf(c) /\ SendPcs'[c] = "pair"
      /\ SendConvs'[c] = <<Lo(c), Hi(c)>> /\ SendOutcomes'[c] = "none"
  <2>1. SendOf(c)' = SendOf(c) /\ Lo(c)' = Lo(c) /\ Hi(c)' = Hi(c)
    BY OneSendMoves DEF SendOf, Lo, Hi
  <2>2. SendPcs'[c] = "pair"
    BY <1>1 DEF SendPcs, SendPc
  <2>3. SendOutcomes'[c] = "none"
    BY UndecidedSend DEF SendOutcomes, NoReply
  <2> QED
    BY <1>1, <2>1, <2>2, <2>3 DEF SendRequests, SendConvs
<1>3. UNCHANGED <<SendOutcomes, status>>
  <2>1. SendOutcomes' = [SendOutcomes EXCEPT ![c] = SendOutcomes[c]]
    BY <1>2, SendMaps, UndecidedSend
  <2> QED
    BY <2>1, OneSendMoves DEF SendOutcomes
<1>4. CM!Arrive(c, SendOf(c)) /\ CM!Goto(c, "pair")
  BY <1>2, SendMaps, UndecidedSend DEF CM!Arrive, CM!Goto
<1>5. SendConvs' = [SendConvs EXCEPT ![c] = <<Lo(c), Hi(c)>>]
  BY <1>2, SendMaps
<1> DEFINE r == SendOf(c)
<1>6. /\ r \in [senderId : User, conversationId : {NoConv}, recipientId : User, valid : {TRUE}]
      /\ r.conversationId = NoConv /\ r.recipientId \notin {NoConv, r.senderId}
      /\ "deleted" \in {status[r.senderId], status[r.recipientId]} =>
            CM!PairConv(r.senderId, r.recipientId) \notin Opened
      /\ Opened' = Opened \cup {CM!PairConv(r.senderId, r.recipientId)}
      /\ SendConvs' = [SendConvs EXCEPT ![c] = CM!PairConv(r.senderId, r.recipientId)]
      /\ CM!Arrive(c, r)
  BY <1>4, <1>5, SendOfPair DEF TwoUsers
<1> HIDE DEF r
<1> QED
  BY <1>3, <1>4, <1>6 DEF CM!GetOrCreate, CM!markVars, CM!eventVars

\* A step that changes nothing of its own send changes nothing there is to see.
LEMMA SilentSend ==
    ASSUME Inv, NEW c \in Call, Step(c), UNCHANGED Opened,
           SendRequests'[c] = SendRequests[c], SendPcs'[c] = SendPcs[c],
           SendConvs'[c] = SendConvs[c], SendOutcomes'[c] = SendOutcomes[c]
    PROVE  UNCHANGED CM!vars
<1>1. ASSUME NEW f, NEW g, f = [d \in Call |-> f[d]], g = [f EXCEPT ![c] = g[c]], g[c] = f[c]
      PROVE  g = f
  BY <1>1
<1>2. /\ SendRequests = [d \in Call |-> SendRequests[d]]
      /\ SendPcs = [d \in Call |-> SendPcs[d]]
  BY DEF SendRequests, SendPcs
<1>3. SendConvs = [d \in Call |-> SendConvs[d]]
  BY DEF SendConvs
<1>4. SendOutcomes = [d \in Call |-> SendOutcomes[d]]
  BY DEF SendOutcomes
<1>5. UNCHANGED SendRequests /\ UNCHANGED SendPcs
  BY <1>1, <1>2, SendMaps
<1>6. UNCHANGED SendConvs /\ UNCHANGED SendOutcomes
  BY <1>1, <1>3, <1>4, SendMaps
<1> QED
  BY <1>5, <1>6, OneSendMoves DEF CM!vars, CM!rowVars, CM!sendVars, CM!markVars, CM!eventVars

\* Nothing is decided while a call goes on to its next query.
LEMMA UndecidedStays ==
    ASSUME Inv, Inv', NEW c \in Call, Step(c), Undecided(c), Undecided(c)', UNCHANGED conversations
    PROVE  UNCHANGED CM!vars
<1>1. /\ SendRequests'[c] = SendRequests[c] /\ SendPcs'[c] = SendPcs[c]
      /\ SendConvs'[c] = SendConvs[c] /\ SendOutcomes'[c] = SendOutcomes[c]
  <2>1. newId'[c] = NoConv /\ reply'[c] = NoReply
    BY DEF Inv, CallsOk, Undecided
  <2>2. ~Succeeded(c)' /\ ~HasRow(c)'
    BY <2>1 DEF Succeeded, HasRow, NoReply
  <2> QED
    BY <2>1, <2>2, UndecidedSend DEF SendRequests, SendPcs, SendPc, SendConvs, SendOutcomes, NoReply
<1>2. UNCHANGED Opened
  BY DEF Opened
<1> QED
  BY <1>1, <1>2, SilentSend

\* What a call answers, for the steps that return.
LEMMA Returned ==
    ASSUME Inv, NEW c \in Call, NEW o, NEW id, Return(c, o, id)
    PROVE  pc'[c] = "done" /\ reply'[c].outcome = o
BY DEF Return, Inv, TypeOK

LEMMA RowIsOpened ==
    ASSUME Inv, NEW c \in Call, NEW r \in OfPair(c)
    PROVE  /\ <<Lo(c), Hi(c)>> \in Opened
           /\ Visible(r) => "deleted" \notin {status[req[c].userId], status[req[c].otherUserId]}
<1>1. r \in conversations /\ r.fromUserId = Lo(c) /\ r.toUserId = Hi(c)
  BY DEF OfPair
<1>2. {Lo(c), Hi(c)} = {req[c].userId, req[c].otherUserId}
  BY DEF Lo, Hi
<1> QED
  BY <1>1, <1>2 DEF Opened, Visible

LEMMA CheckUsersOnce ==
    ASSUME Inv, Inv', NEW c \in Call, CheckUsers(c)
    PROVE  CM!GetOrCreate(c) \/ UNCHANGED CM!vars
<1>1. Step(c) /\ Undecided(c) /\ UNCHANGED <<conversations, newId>>
  BY DEF Step, CheckUsers, Undecided
<1>2. CASE req[c].userId = req[c].otherUserId /\ Return(c, "bad_request", NoConv)
  BY <1>1, <1>2, Returned, RefusedSend DEF TwoUsers
<1>3. CASE /\ req[c].userId # req[c].otherUserId
           /\ "deleted" \in {status[req[c].userId], status[req[c].otherUserId]}
           /\ Return(c, "not_found", NoConv)
  BY <1>1, <1>3, Returned, RefusedSend DEF TwoUsers
<1>4. CASE Goto(c, "lookup")
  <2>1. Undecided(c)'
    BY <1>4 DEF Goto, Undecided, Inv, TypeOK
  <2> QED
    BY <1>1, <2>1, UndecidedStays
<1> QED
  BY <1>2, <1>3, <1>4 DEF CheckUsers

LEMMA LookUpOnce ==
    ASSUME Inv, Inv', NEW c \in Call, LookUp(c)
    PROVE  CM!GetOrCreate(c) \/ UNCHANGED CM!vars
<1>1. /\ Step(c) /\ Undecided(c) /\ UNCHANGED conversations
      /\ TwoUsers(c)
  BY DEF Step, LookUp, Undecided, Inv, CallsOk
<1>2. CASE \E r \in OfPair(c) : Visible(r) /\ Return(c, "existing", r.id)
  <2>1. PICK r \in OfPair(c) : Visible(r) /\ Return(c, "existing", r.id)
    BY <1>2
  <2>2. pc'[c] = "done" /\ Succeeded(c)'
    BY <2>1, Returned DEF Succeeded
  <2>3. Opened' = Opened \cup {<<Lo(c), Hi(c)>>}
    BY <1>1, RowIsOpened DEF Opened
  <2> QED
    BY <1>1, <2>1, <2>2, <2>3, RowIsOpened, ResolvedSend
<1>3. CASE Goto(c, "insert")
  <2>1. Undecided(c)'
    BY <1>3 DEF Goto, Undecided, Inv, TypeOK
  <2> QED
    BY <1>1, <2>1, UndecidedStays
<1> QED
  BY <1>2, <1>3 DEF LookUp

LEMMA InsertOnce ==
    ASSUME Inv, Inv', NEW c \in Call, Insert(c)
    PROVE  CM!GetOrCreate(c) \/ UNCHANGED CM!vars
<1>1. Step(c) /\ Undecided(c) /\ TwoUsers(c)
  BY DEF Step, Insert, Undecided, Inv, CallsOk
<1>2. CASE ~PairTaken(c) /\ Goto(c, "reread")
  <2>1. PICK id \in ConvId :
           /\ conversations' = conversations \cup
                {[id |-> id, fromUserId |-> Lo(c), toUserId |-> Hi(c)]}
           /\ newId' = [newId EXCEPT ![c] = id]
    BY <1>2 DEF Insert, PairTaken
  <2>2. pc'[c] = "reread" /\ reply'[c] = reply[c] /\ newId'[c] # NoConv
    BY <1>2, <2>1, ConvIdAssumption DEF Goto, Inv, TypeOK
  <2>3. Opened' = Opened \cup {<<Lo(c), Hi(c)>>}
    <3> DEFINE row == [id |-> id, fromUserId |-> Lo(c), toUserId |-> Hi(c)]
    <3>1. /\ conversations' = conversations \cup {row}
          /\ row.fromUserId = Lo(c) /\ row.toUserId = Hi(c)
      BY <2>1
    <3> HIDE DEF row
    <3> QED
      BY <3>1 DEF Opened
  <2>4. <<Lo(c), Hi(c)>> \notin Opened
    BY <1>2 DEF PairTaken, OfPair, Opened
  <2> QED
    BY <1>1, <2>2, <2>3, <2>4, ResolvedSend
<1>3. CASE Goto(c, "recover") /\ UNCHANGED conversations
  <2>1. Undecided(c)'
    BY <1>3 DEF Goto, Undecided, Inv, TypeOK
  <2> QED
    BY <1>1, <1>3, <2>1, UndecidedStays
<1> QED
  BY <1>2, <1>3 DEF Insert

LEMMA RereadOnce ==
    ASSUME Inv, NEW c \in Call, Reread(c)
    PROVE  UNCHANGED CM!vars
<1>1. Step(c) /\ pc[c] = "reread" /\ UNCHANGED <<req, conversations, newId>>
  BY DEF Step, Reread
<1>2. newId[c] # NoConv /\ reply[c] = NoReply
  BY <1>1 DEF Inv, CallsOk
<1>3. pc'[c] = "done" /\ Succeeded(c)'
  BY Returned DEF Reread, Succeeded
<1>4. ~Succeeded(c) /\ HasRow(c) /\ HasRow(c)' /\ ~Undecided(c) /\ ~Undecided(c)'
  BY <1>1, <1>2, <1>3 DEF Succeeded, HasRow, Undecided, NoReply
<1>5. /\ SendRequests'[c] = SendRequests[c] /\ SendPcs'[c] = SendPcs[c]
      /\ SendConvs'[c] = SendConvs[c] /\ SendOutcomes'[c] = SendOutcomes[c]
  BY <1>1, <1>2, <1>3, <1>4 DEF SendRequests, SendOf, SendPcs, SendPc, SendConvs, Lo, Hi,
     SendOutcomes, NoReply
<1> QED
  BY <1>1, <1>5, SilentSend DEF Opened

LEMMA RecoverOnce ==
    ASSUME Inv, NEW c \in Call, Recover(c)
    PROVE  CM!GetOrCreate(c)
<1>1. /\ Step(c) /\ Undecided(c) /\ UNCHANGED <<conversations, newId>>
      /\ TwoUsers(c)
      /\ \E r \in OfPair(c) : TRUE
  BY DEF Step, Recover, Undecided, Inv, CallsOk, RowOf, OfPair
<1>2. <<Lo(c), Hi(c)>> \in Opened
  BY <1>1, RowIsOpened
<1>3. CASE \E r \in OfPair(c) : Visible(r) /\ Return(c, "existing", r.id)
  <2>1. PICK r \in OfPair(c) : Visible(r) /\ Return(c, "existing", r.id)
    BY <1>3
  <2>2. pc'[c] = "done" /\ Succeeded(c)'
    BY <2>1, Returned DEF Succeeded
  <2>3. Opened' = Opened \cup {<<Lo(c), Hi(c)>>}
    BY <1>1, <1>2 DEF Opened
  <2> QED
    BY <1>1, <2>1, <2>2, <2>3, RowIsOpened, ResolvedSend
<1>4. CASE (\A r \in OfPair(c) : ~Visible(r)) /\ Return(c, "unique_violation", NoConv)
  <2>1. PICK r \in OfPair(c) : ~Visible(r)
    BY <1>1, <1>4
  <2>2. "deleted" \in {status[req[c].userId], status[req[c].otherUserId]}
    BY <2>1 DEF Visible, OfPair, Lo, Hi
  <2> QED
    BY <1>1, <1>2, <1>4, <2>2, Returned, RefusedSend
<1> QED
  BY <1>3, <1>4 DEF Recover

LEMMA QueryFailsOnce ==
    ASSUME Inv, NEW c \in Call, QueryFails(c)
    PROVE  CM!GetOrCreate(c) \/ CM!SendFails(c)
<1>1. /\ Step(c) /\ UNCHANGED <<status, req, conversations, newId>> /\ TwoUsers(c)
      /\ pc'[c] = "done" /\ reply'[c].outcome = "db_error"
  BY Returned DEF Step, QueryFails, TwoUsers
<1>2. CASE Undecided(c)
  BY <1>1, <1>2, RefusedSend
<1>3. CASE pc[c] = "reread"
  <2>1. newId[c] # NoConv /\ reply[c] = NoReply
    BY <1>3 DEF Inv, CallsOk
  <2>2. ~Succeeded(c) /\ ~Succeeded(c)' /\ HasRow(c) /\ HasRow(c)'
        /\ ~Undecided(c) /\ ~Undecided(c)'
    BY <1>1, <1>3, <2>1 DEF Succeeded, HasRow, Undecided, NoReply
  <2>3. /\ SendRequests'[c] = SendRequests[c] /\ SendConvs'[c] = SendConvs[c]
        /\ SendPcs[c] = "pair" /\ SendPcs'[c] = "done" /\ SendOutcomes'[c] = "db_error"
    BY <1>1, <1>3, <2>2 DEF SendRequests, SendOf, SendPcs, SendPc, SendConvs, Lo, Hi, SendOutcomes
  <2>4. CM!Answer(c, "db_error") /\ UNCHANGED <<SendRequests, SendConvs, Opened>>
    BY <1>1, <2>3, SendMaps DEF CM!Answer, SendRequests, SendConvs, Opened
  <2>5. CM!Unlock(c)
    BY DEF CM!Unlock, CM!Conv, Pairs
  <2> QED
    BY <1>1, <2>3, <2>4, <2>5 DEF CM!SendFails, CM!markVars, CM!eventVars
<1> QED
  BY <1>2, <1>3 DEF QueryFails, Undecided, Inv, TypeOK

LEMMA DeleteUserOnce ==
    ASSUME Inv, NEW u \in User, DeleteUser(u)
    PROVE  CM!DeleteUser(u)
<1>1. UNCHANGED <<Opened, SendRequests, SendPcs, SendConvs, SendOutcomes>>
  BY DEF DeleteUser, Opened, SendRequests, SendOf, SendPcs, SendPc, SendConvs, HasRow, Undecided,
     Succeeded, Lo, Hi, SendOutcomes
<1> QED
  BY <1>1 DEF DeleteUser, CM!DeleteUser, CM!rowVars, CM!sendVars, CM!markVars, CM!eventVars

LEMMA OneStepMaps == Inv /\ Inv' /\ [Next]_vars => [CM!Next]_(CM!vars)
<1> SUFFICES ASSUME Inv, Inv', [Next]_vars PROVE [CM!Next]_(CM!vars)
  OBVIOUS
<1>1. ASSUME NEW c \in Call, Step(c)
      PROVE  CM!GetOrCreate(c) \/ CM!SendFails(c) \/ UNCHANGED CM!vars
  BY <1>1, CheckUsersOnce, LookUpOnce, InsertOnce, RereadOnce, RecoverOnce, QueryFailsOnce DEF Step
<1>2. ASSUME NEW u \in User, DeleteUser(u) PROVE CM!DeleteUser(u)
  BY <1>2, DeleteUserOnce
<1>3. CASE UNCHANGED vars
  <2>1. UNCHANGED <<status, Opened, SendRequests, SendPcs, SendConvs, SendOutcomes>>
    BY <1>3 DEF vars, Opened, SendRequests, SendOf, SendPcs, SendPc, SendConvs, HasRow, Undecided,
       Succeeded, Lo, Hi, SendOutcomes
  <2> QED
    BY <2>1 DEF CM!vars, CM!rowVars, CM!sendVars, CM!markVars, CM!eventVars
<1> QED
  BY <1>1, <1>2, <1>3 DEF Next, CM!Next

LEMMA OneStepInit == Init => CM!Init
<1> SUFFICES ASSUME Init PROVE CM!Init
  OBVIOUS
<1>1. \A c \in Call : Undecided(c) /\ ~Succeeded(c) /\ ~HasRow(c) /\ reply[c].outcome = "none"
  BY DEF Init, Undecided, Succeeded, HasRow, NoReply
<1>2. /\ SendRequests = [c \in Call |-> NoConv] /\ SendPcs = [c \in Call |-> "idle"]
      /\ SendConvs = [c \in Call |-> NoConv] /\ SendOutcomes = [c \in Call |-> "none"]
  BY <1>1 DEF SendRequests, SendPcs, SendPc, SendConvs, SendOutcomes
<1>3. Opened = {}
  BY DEF Init, Opened
<1>4. status = [u \in User |-> "active"]
  BY DEF Init
<1> QED
  BY <1>2, <1>3, <1>4 DEF CM!Init, CM!Conv, CM!Column, Pairs

(***************************************************************************)
(* The queries of getOrCreateConversation, interleaved in any way with     *)
(* those of other calls, with failures and with deletions, implement the   *)
(* one step that ChatMessages has for them: what is proved of messages     *)
(* holds for sends that race to start their conversation.                  *)
(***************************************************************************)
THEOREM CallsAreOneStep == Spec => OneStep
<1>1. Init => CM!Init
  BY OneStepInit
<1>2. Inv /\ Inv' /\ [Next]_vars => [CM!Next]_(CM!vars)
  BY OneStepMaps
<1> QED
  BY <1>1, <1>2, Invariance, PTL DEF Spec, OneStep, CM!Spec
=============================================================================
