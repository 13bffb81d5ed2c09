----------------------------- MODULE Moderation -----------------------------
(***************************************************************************)
(* What customers leave at a tradie's profile (reviews, favourites, the    *)
(* log of contacts and visits), what admins decide on profiles and reviews *)
(* (one by one or in bulk), and the erasure of a user, which deletes all   *)
(* of it in one transaction: ReviewService, FavouriteService, the contact  *)
(* and visit part of TradieService, AdminTradiesService, AdminReviews-     *)
(* Service and deleteUser.                                                 *)
(*                                                                         *)
(* Every call checks in some queries and writes in others; the calls       *)
(* interleave in between.  A transaction's DELETE locks the rows it found  *)
(* until it commits: they can still be read, but an UPDATE or DELETE of    *)
(* them waits, and so does an INSERT that refers to one or has its key.    *)
(*                                                                         *)
(* A row is a record; a review, favourite, contact or visit has as its id  *)
(* the call that made it.  Setting up a profile is module TradieProfile's: *)
(* here every profile is there at first.  The text of a review is left out,*)
(* and so are the photos, services and regions of an erased profile, which *)
(* no other call of this module touches, and the user's reports,           *)
(* notifications and device tokens, which nothing ever writes.             *)
(***************************************************************************)
EXTENDS Naturals, Sequences, FiniteSets, SequelizeRow

CONSTANTS Call,      \* the requests
          User,      \* the users; a profile is named by its owner
          Old,       \* the reviews there are when the first call arrives
          Admin,     \* the admins
          Reason,    \* the reasons to reject
          Request,   \* what a call may ask
          Table,     \* the rows and decisions when the first call arrives
          Null       \* NULL, and an absent field

Marks == {"reviews", "favourites", "contacts", "visits"}

Item == User \cup Old \cup Call

Row == [table : Marks \cup {"profiles"}, id : Item, customer : User \cup {Null}, profile : User]

Column == {"status", "reason", "by", "at"}

Decision ==
    {d \in [Column -> {"pending", "approved", "rejected"} \cup Reason \cup Admin \cup Call \cup {Null}] :
        d["status"] \in {"pending", "approved", "rejected"}}

Undecided == [col \in Column |-> IF col = "status" THEN "pending" ELSE Null]

Kind == {"review", "add", "remove", "contact", "visit", "decide", "erase"}

\* A decision names the items it is on, in order; one that is not in bulk names one.
IsRequest(r) ==
    /\ r.kind \in Kind
    /\ r.user \in User /\ r.profile \in User
    /\ r.role \in {"customer", "tradie"}
    /\ r.table \in {"profiles", "reviews"} /\ r.ids \in Seq(Item) /\ r.bulk \in BOOLEAN
    /\ r.status \in {"approved", "rejected"}
    /\ r.reason \in IF r.status = "approved" THEN {Null} ELSE Reason
    /\ r.admin \in Admin
    /\ r.kind = "decide" => r.ids # << >> /\ (r.bulk \/ Len(r.ids) = 1)

\* No two reviews, and no two favourites, of one customer on one profile.
OneEach(table) ==
    \A r, s \in table : r.table \in {"reviews", "favourites"} /\ r.table = s.table
                        /\ r.customer = s.customer /\ r.profile = s.profile => r = s

Profile(u) == [table |-> "profiles", id |-> u, customer |-> Null, profile |-> u]

ASSUME ItemAssumption ==
    User \cap Old = {} /\ User \cap Call = {} /\ Old \cap Call = {}
ASSUME RequestAssumption == \A r \in Request : IsRequest(r)
ASSUME TableAssumption ==
    \A t \in Table :
        /\ t.rows \subseteq Row /\ OneEach(t.rows)
        /\ \A r \in t.rows : \/ r = Profile(r.profile)
                             \/ r.table = "reviews" /\ r.id \in Old /\ Profile(r.profile) \in t.rows
        /\ \A r, s \in t.rows : r.id = s.id => r = s
        /\ t.decision \in [Item -> Decision]
ASSUME NullAssumption ==
    Null \notin User \cup Old \cup Call \cup Admin \cup Reason \cup {"pending", "approved", "rejected"}

VARIABLES
    rows,       \* the committed rows of the five tables
    decision,   \* the columns that admins set, of the profiles and reviews, by id
    request,    \* what each call asks
    pc,         \* the query each call waits for
    at,         \* how many items or statements of its list a call has behind it
    instance,   \* the decision a call read
    processed,  \* what a bulk decision counts
    failed,
    doomed,     \* the rows that the transaction of an erasure has deleted so far
    outcome,    \* what each call answered
    decided,    \* history: the items a call says it decided
    before      \* history: the calls that had returned when a call began

vars == <<rows, decision, request, pc, at, instance, processed, failed, doomed, outcome,
          decided, before>>

Outcomes == {"none", "ok", "not_found", "conflict", "forbidden", "error"}

Label == {"start", "find_profile", "find_own", "insert", "insert_visit", "remove", "read",
          "write", "find_user", "find_erased", "delete", "commit", "done"}

\* The DELETEs of the erasure in order, the first five only if the user has a profile.  A
\* statement deletes the rows of one table that have the user as customer or as profile;
\* that of the profile takes with it what refers to it (ON DELETE CASCADE).
Statements ==
    << <<"favourites", "profile">>, <<"contacts", "profile">>, <<"visits", "profile">>,
       <<"reviews", "profile">>, <<"profiles", "profile">>,
       <<"favourites", "customer">>, <<"contacts", "customer">>, <<"visits", "customer">>,
       <<"reviews", "customer">> >>

TypeOK ==
    /\ rows \subseteq Row
    /\ decision \in [Item -> Decision]
    /\ request \in [Call -> Request]
    /\ pc \in [Call -> Label]
    /\ at \in [Call -> Nat]
    /\ instance \in [Call -> Decision]
    /\ processed \in [Call -> Nat]
    /\ failed \in [Call -> Nat]
    /\ doomed \in [Call -> SUBSET Row]
    /\ outcome \in [Call -> Outcomes]
    /\ decided \in [Call -> SUBSET Item]
    /\ before \in [Call -> SUBSET Call]

Init ==
    /\ \E t \in Table : rows = t.rows /\ decision = t.decision
    /\ request \in [Call -> Request]
    /\ pc = [c \in Call |-> "start"]
    /\ at = [c \in Call |-> 0]
    /\ instance = [c \in Call |-> Undecided]
    /\ processed = [c \in Call |-> 0]
    /\ failed = [c \in Call |-> 0]
    /\ doomed = [c \in Call |-> {}]
    /\ outcome = [c \in Call |-> "none"]
    /\ decided = [c \in Call |-> {}]
    /\ before = [c \in Call |-> {}]
-----------------------------------------------------------------------------
Is(c, kinds) == request[c].kind \in kinds

Goto(c, label) ==
    /\ pc' = [pc EXCEPT ![c] = label]
    /\ UNCHANGED outcome

Return(c, o) ==
    /\ pc' = [pc EXCEPT ![c] = "done"]
    /\ outcome' = [outcome EXCEPT ![c] = o]

\* A row that a transaction deleted is locked until the transaction ends.
Free(row) == \A d \in Call : row \notin doomed[d]

Same(row, table, c) ==
    row.table = table /\ row.customer = request[c].user /\ row.profile = request[c].profile

Own(table, c) == {row \in rows : Same(row, table, c)}

\* The first query of a call.
First ==
    [review |-> "find_profile", add |-> "find_profile", contact |-> "find_profile",
     visit |-> "find_profile", remove |-> "remove", decide |-> "read", erase |-> "find_user"]

\* createReview wants a customer's token; the other routes of customers want any user's.
Arrive(c) ==
    /\ pc[c] = "start"
    /\ \/ Is(c, {"review"}) /\ request[c].role # "customer" /\ Return(c, "forbidden")
       \/ /\ ~(Is(c, {"review"}) /\ request[c].role # "customer")
          /\ Goto(c, First[request[c].kind])
    /\ before' = [before EXCEPT ![c] = {d \in Call : pc[d] = "done"}]
    /\ UNCHANGED <<rows, decision, request, at, instance, processed, failed, doomed, decided>>

\* A favourite wants a profile, the others an approved one.
FindProfile(c) ==
    /\ pc[c] = "find_profile"
    /\ LET u == request[c].profile
           found == /\ Profile(u) \in rows
                    /\ Is(c, {"add"}) \/ decision[u]["status"] = "approved"
       IN \/ ~found /\ Return(c, "not_found")
          \/ found /\ Goto(c, IF Is(c, {"visit"}) THEN "insert_visit" ELSE "find_own")
    /\ UNCHANGED <<rows, decision, request, at, instance, processed, failed, doomed, decided, before>>

\* The table a call inserts into.
Into(c) == [review |-> "reviews", add |-> "favourites", contact |-> "contacts"][request[c].kind]

\* Faulty variant, for testing ContactOnce: every contact is logged.
FindNothing(c) ==
    /\ pc[c] = "find_own"
    /\ LET found == Own(Into(c), c) # {} /\ ~Is(c, {"contact"})
       IN \/ found /\ Return(c, "conflict")
          \/ ~found /\ Goto(c, "insert")
    /\ UNCHANGED <<rows, decision, request, at, instance, processed, failed, doomed, decided, before>>

\* A customer reviews a profile once and has it as a favourite once; of the contacts the
\* first is logged.
FindOwn(c) ==
    /\ pc[c] = "find_own"
    /\ LET found == Own(Into(c), c) # {}
       IN \/ found /\ ~Is(c, {"contact"}) /\ Return(c, "conflict")
          \/ found /\ Is(c, {"contact"}) /\ Goto(c, "insert_visit")
          \/ ~found /\ Goto(c, "insert")
    /\ UNCHANGED <<rows, decision, request, at, instance, processed, failed, doomed, decided, before>>

\* The unique indexes on the customer and the profile of reviews and of favourites.
IndexRefuses(row) == ~OneEach(rows \cup {row})

New(table, c) ==
    [table |-> table, id |-> c, customer |-> IF Is(c, {"visit"}) THEN Null ELSE request[c].user,
     profile |-> request[c].profile]

\* An INSERT waits for a transaction that deleted the profile it refers to, or a row with
\* its key; it fails if the profile is gone or the key is taken.
Inserts(row) ==
    /\ Free(Profile(row.profile))
    /\ \A r \in rows : r.table = row.table /\ r.customer = row.customer
                       /\ r.profile = row.profile => Free(r)

Taken(row) == Profile(row.profile) \notin rows \/ IndexRefuses(row)

Insert(c) ==
    /\ pc[c] = "insert"
    /\ LET row == New(Into(c), c)
       IN /\ Inserts(row)
          /\ \/ Taken(row) /\ Return(c, "error") /\ UNCHANGED <<rows, decision>>
             \/ /\ ~Taken(row)
                /\ rows' = rows \cup {row}
                /\ decision' = IF Is(c, {"review"})
                                 THEN [decision EXCEPT ![c] = Undecided]
                                 ELSE decision
                /\ IF Is(c, {"contact"}) THEN Goto(c, "insert_visit") ELSE Return(c, "ok")
    /\ UNCHANGED <<request, at, instance, processed, failed, doomed, decided, before>>

\* recordVisit, of a visitor who may be nobody.
InsertVisit(c) ==
    /\ pc[c] = "insert_visit"
    /\ LET row == New("visits", c)
       IN /\ Free(Profile(row.profile))
          /\ \/ Profile(row.profile) \notin rows /\ Return(c, "error") /\ UNCHANGED rows
             \/ /\ Profile(row.profile) \in rows
                /\ rows' = rows \cup {row}
                /\ Return(c, "ok")
    /\ UNCHANGED <<decision, request, at, instance, processed, failed, doomed, decided, before>>

\* removeFavourite: one DELETE, which counts what it deleted.
Remove(c) ==
    /\ pc[c] = "remove"
    /\ \A row \in Own("favourites", c) : Free(row)
    /\ rows' = rows \ Own("favourites", c)
    /\ Return(c, IF Own("favourites", c) = {} THEN "not_found" ELSE "ok")
    /\ UNCHANGED <<decision, request, at, instance, processed, failed, doomed, decided, before>>
-----------------------------------------------------------------------------
\* The columns that a decision sets, with their values.  The date of a review is the date
\* of the call, which differs from every other.
Asked(c) ==
    LET r == request[c]
        value == [status |-> r.status, reason |-> r.reason, by |-> r.admin, at |-> c]
    IN [col \in (IF r.table = "reviews" THEN Column ELSE {"status", "reason"}) |-> value[col]]

Chosen(c) == request[c].ids[at[c] + 1]

\* The rows that the id of a decision finds: none or one.
Found(c) == {row \in rows : row.table = request[c].table /\ row.id = Chosen(c)}

\* On with the next item, or the answer.  decided says which items were counted as processed.
Counted(c, ok) ==
    /\ at' = [at EXCEPT ![c] = @ + 1]
    /\ processed' = [processed EXCEPT ![c] = IF ok THEN @ + 1 ELSE @]
    /\ failed' = [failed EXCEPT ![c] = IF ok THEN @ ELSE @ + 1]
    /\ decided' = [decided EXCEPT ![c] = IF ok THEN @ \cup {Chosen(c)} ELSE @]
    /\ IF at[c] + 1 < Len(request[c].ids) THEN Goto(c, "read") ELSE Return(c, "ok")

\* updateStatus reads the row by its key.  A bulk decision counts a missing one and goes on.
ReadItem(c) ==
    /\ pc[c] = "read"
    /\ \/ /\ Found(c) # {}
          /\ instance' = [instance EXCEPT ![c] = decision[Chosen(c)]]
          /\ Goto(c, "write")
          /\ UNCHANGED <<at, processed, failed, decided>>
       \/ /\ Found(c) = {}
          /\ IF request[c].bulk
               THEN Counted(c, FALSE)
               ELSE Return(c, "not_found") /\ UNCHANGED <<at, processed, failed, decided>>
          /\ UNCHANGED instance
    /\ UNCHANGED <<rows, decision, request, doomed, before>>

\* Faulty variant, for testing LastDecisionStands: an approval forgets the reason.
WriteWithoutReason(c) ==
    /\ pc[c] = "write"
    /\ \A row \in Found(c) : Free(row)
    /\ decision' = IF Found(c) = {} THEN decision
                   ELSE [decision EXCEPT ![Chosen(c)] =
                           Set(@, Changed(instance[c], Asked(c)) \ {"reason"}, Asked(c))]
    /\ Counted(c, TRUE)
    /\ UNCHANGED <<rows, request, instance, doomed, before>>

\* instance.update(...), which does not tell whether the row was still there.
WriteItem(c) ==
    /\ pc[c] = "write"
    /\ \A row \in Found(c) : Free(row)
    /\ decision' = IF Found(c) = {} THEN decision
                   ELSE [decision EXCEPT ![Chosen(c)] =
                           Set(@, Changed(instance[c], Asked(c)), Asked(c))]
    /\ Counted(c, TRUE)
    /\ UNCHANGED <<rows, request, instance, doomed, before>>

\* Faulty variant, for testing BulkCounts: an item that fails is not counted.
ItemForgotten(c) ==
    /\ pc[c] \in {"read", "write"}
    /\ request[c].bulk
    /\ at' = [at EXCEPT ![c] = @ + 1]
    /\ IF at[c] + 1 < Len(request[c].ids) THEN Goto(c, "read") ELSE Return(c, "ok")
    /\ UNCHANGED <<rows, decision, request, instance, processed, failed, doomed, decided, before>>

\* A query of a bulk decision fails: the catch counts the item and the loop goes on.
ItemFails(c) ==
    /\ pc[c] \in {"read", "write"}
    /\ request[c].bulk
    /\ Counted(c, FALSE)
    /\ UNCHANGED <<rows, decision, request, instance, doomed, before>>
-----------------------------------------------------------------------------
\* deleteUser reads the user outside the transaction; the row of a user always is there.
FindUser(c) ==
    /\ pc[c] = "find_user"
    /\ Goto(c, "find_erased")
    /\ UNCHANGED <<rows, decision, request, at, instance, processed, failed, doomed, decided, before>>

\* Without a profile the statements on it are passed over.
FindErased(c) ==
    /\ pc[c] = "find_erased"
    /\ at' = [at EXCEPT ![c] = IF Profile(request[c].user) \in rows THEN 0 ELSE 5]
    /\ Goto(c, "delete")
    /\ UNCHANGED <<rows, decision, request, instance, processed, failed, doomed, decided, before>>

\* The rows that a statement of the erasure of u deletes.
Deleted(u, statement) ==
    {row \in rows : \/ row.table = statement[1] /\ row[statement[2]] = u
                    \/ statement[1] = "profiles" /\ row.profile = u}

\* Faulty variant, for testing ErasedGone: the contacts of a customer are forgotten.
DeleteSome(c) ==
    /\ pc[c] = "delete"
    /\ LET gone == {row \in Deleted(request[c].user, Statements[at[c] + 1]) \ doomed[c] :
                      row.table # "contacts"}
       IN /\ \A row \in gone : Free(row)
          /\ doomed' = [doomed EXCEPT ![c] = @ \cup gone]
    /\ at' = [at EXCEPT ![c] = @ + 1]
    /\ Goto(c, IF at[c] + 1 < Len(Statements) THEN "delete" ELSE "commit")
    /\ UNCHANGED <<rows, decision, request, instance, processed, failed, decided, before>>

Delete(c) ==
    /\ pc[c] = "delete"
    /\ LET gone == Deleted(request[c].user, Statements[at[c] + 1]) \ doomed[c]
       IN /\ \A row \in gone : Free(row)
          /\ doomed' = [doomed EXCEPT ![c] = @ \cup gone]
    /\ at' = [at EXCEPT ![c] = @ + 1]
    /\ Goto(c, IF at[c] + 1 < Len(Statements) THEN "delete" ELSE "commit")
    /\ UNCHANGED <<rows, decision, request, instance, processed, failed, decided, before>>

\* The update of the user (module Accounts) and the commit.
Commit(c) ==
    /\ pc[c] = "commit"
    /\ rows' = rows \ doomed[c]
    /\ doomed' = [doomed EXCEPT ![c] = {}]
    /\ Return(c, "ok")
    /\ UNCHANGED <<decision, request, at, instance, processed, failed, decided, before>>

\* A query fails, or the database breaks a deadlock of two erasures: the call ends, and
\* what its transaction deleted is back.
Fails(c) ==
    /\ pc[c] \notin {"start", "done"}
    /\ ~(Is(c, {"decide"}) /\ request[c].bulk)
    /\ doomed' = [doomed EXCEPT ![c] = {}]
    /\ Return(c, "error")
    /\ UNCHANGED <<rows, decision, request, at, instance, processed, failed, decided, before>>

Step(c) ==
    \/ Arrive(c) \/ FindProfile(c) \/ FindOwn(c) \/ Insert(c) \/ InsertVisit(c) \/ Remove(c)
    \/ ReadItem(c) \/ WriteItem(c) \/ ItemFails(c)
    \/ FindUser(c) \/ FindErased(c) \/ Delete(c) \/ Commit(c) \/ Fails(c)

Next == \E c \in Call : Step(c)

Spec == Init /\ [][Next]_vars
-----------------------------------------------------------------------------
\* However many calls found none, a customer has one review of a profile and one favourite.
OnePerPair == OneEach(rows)

\* A contact is logged twice only by calls that overlap: once a contact has been answered,
\* no later call logs another, though no index forbids it.
ContactOnce ==
    \A r, s \in rows :
        r.table = "contacts" /\ s.table = "contacts"
        /\ r.customer = s.customer /\ r.profile = s.profile
            => r.id \notin before[s.id]

DecidesOn(d, table, id) ==
    /\ Is(d, {"decide"}) /\ request[d].table = table
    /\ \E i \in 1 .. Len(request[d].ids) : request[d].ids[i] = id

\* No other call that decides on the item has run while call c did, or since.
Alone(c, id) ==
    \A d \in Call \ {c} :
        DecidesOn(d, request[c].table, id) => pc[d] = "start" \/ d \in before[c]

Present(c, id) == \E row \in rows : row.table = request[c].table /\ row.id = id

\* A decision that nobody raced is in the row whole, with its reason, its admin and its
\* date, and nothing of the decision before: this of every item that a bulk decision says it
\* has processed.  (Of two that overlap the row may have the status of one and the reason of
\* the other: each writes the columns that differ from what it read.)
LastDecisionStands ==
    \A c \in Call : \A id \in decided[c] :
        Alone(c, id) /\ Present(c, id)
            => \A col \in DOMAIN Asked(c) : decision[id][col] = Asked(c)[col]

\* A bulk decision always answers, whatever fails, and it counts every item it was given.
BulkCounts ==
    \A c \in Call :
        Is(c, {"decide"}) /\ request[c].bulk /\ pc[c] = "done" =>
            /\ outcome[c] = "ok"
            /\ processed[c] + failed[c] = Len(request[c].ids)
            /\ Cardinality(decided[c]) <= processed[c]

\* After the erasure of a user nothing refers to his profile, and what is left of what he
\* did as a customer comes from calls that had not returned when the erasure began.
ErasedGone ==
    \A c \in Call : Is(c, {"erase"}) /\ outcome[c] = "ok" =>
        \A row \in rows :
            /\ row.profile # request[c].user
            /\ row.customer = request[c].user => row.id \in Call \ before[c]
-----------------------------------------------------------------------------
(* The inductive invariant.                                                *)

\* What the rows refer to, and which call made them.
Rows ==
    \A r \in rows :
        /\ Profile(r.profile) \in rows
        /\ r.table = "profiles" => r = Profile(r.profile)
        /\ r.table = "reviews" => r.id \in Old \cup Call
        /\ r.table \in {"favourites", "contacts", "visits"} => r.id \in Call
        /\ r.id \in Call => pc[r.id] \in {"insert_visit", "done"}
        /\ r.id \in Call /\ r.table = "reviews" => pc[r.id] = "done"

\* What call c waits for fits what it asks.
Way(c) ==
    /\ pc[c] \in {"find_profile", "find_own", "insert", "insert_visit"}
           => Is(c, {"review", "add", "contact", "visit"})
    /\ pc[c] \in {"find_own", "insert"} => ~Is(c, {"visit"})
    /\ pc[c] = "insert_visit" => Is(c, {"contact", "visit"})
    /\ pc[c] = "remove" => Is(c, {"remove"})
    /\ pc[c] \in {"read", "write"} => Is(c, {"decide"})
    /\ pc[c] \in {"find_user", "find_erased", "delete", "commit"} => Is(c, {"erase"})
    /\ pc[c] # "done" => outcome[c] = "none"
    /\ pc[c] = "start" => before[c] = {} /\ at[c] = 0 /\ processed[c] = 0 /\ failed[c] = 0
    /\ ~Is(c, {"decide"}) \/ pc[c] = "start" => decided[c] = {}
    /\ \A d \in before[c] : pc[d] = "done"

Counting(c) ==
    Is(c, {"decide"}) =>
        /\ processed[c] + failed[c] = at[c]
        /\ IsFiniteSet(decided[c]) /\ Cardinality(decided[c]) <= processed[c]
        /\ pc[c] # "done" => at[c] < Len(request[c].ids)
        /\ pc[c] = "done" /\ request[c].bulk => at[c] = Len(request[c].ids) /\ outcome[c] = "ok"

\* A contact about to be logged found none of a call that had returned before.
Logging(c) ==
    pc[c] = "insert" /\ Is(c, {"contact"}) =>
        \A row \in Own("contacts", c) : row.id \notin before[c]

\* What call c read is what is there, unless another decision is about.
Deciding(c) ==
    /\ pc[c] = "write" =>
          /\ Chosen(c) \in Call => pc[Chosen(c)] = "done"
          /\ Alone(c, Chosen(c)) /\ Present(c, Chosen(c)) => instance[c] = decision[Chosen(c)]
    /\ \A id \in decided[c] \cap Call : pc[id] = "done"

\* What the erasure c has deleted so far: with the profile all that refers to it, whatever
\* comes after.
Erasing(c) ==
    LET u == request[c].user
    IN /\ pc[c] = "delete" => at[c] \in 0 .. 8
       /\ pc[c] = "commit" => at[c] = 9
       /\ pc[c] \notin {"delete", "commit"} => doomed[c] = {}
       /\ \A p \in User : Profile(p) \in doomed[c] =>
             \A row \in rows : row.profile = p => row \in doomed[c]
       /\ pc[c] \in {"delete", "commit"} =>
             /\ at[c] >= 5 /\ Profile(u) \in rows => Profile(u) \in doomed[c]
             /\ \A i \in 6 .. 9 : at[c] >= i =>
                   \A row \in rows : row.table = Statements[i][1] /\ row.customer = u =>
                      row \in doomed[c] \/ row.id \in Call \ before[c]

Inv ==
    /\ TypeOK /\ OnePerPair /\ Rows
    /\ ContactOnce /\ LastDecisionStands /\ ErasedGone
    /\ \A c \in Call : Way(c) /\ Counting(c) /\ Logging(c) /\ Deciding(c) /\ Erasing(c)
=============================================================================
