------------------------------- MODULE Paging -------------------------------
(***************************************************************************)
(* A client that reads a list page by page while others write to it.  All  *)
(* lists but one are cut into pages by their offset: the query of the rows *)
(* and the query that counts them are two statements, which findAndCount-  *)
(* All of Sequelize sends side by side, and the next page is another       *)
(* request.  The messages of a conversation are read by a cursor instead.  *)
(*                                                                         *)
(* An item is a row of the list's table, and its stamp the column that the *)
(* list is ordered by, newest first.  The stamps of two rows differ: the   *)
(* order of rows of one millisecond is left to the database by all lists   *)
(* but those of the chat, and this module does not speak of it.  A failed  *)
(* request changes nothing and is asked again; what else a page shows of a *)
(* row (names, ratings, photos) is left out.                               *)
(***************************************************************************)
EXTENDS Integers, FiniteSets, Sequences

CONSTANTS Item,
          OwnerOf,       \* the user a row belongs to: customer, participant, tradie
          RoleOf,
          TextOf,        \* what the search compares; the category and the region of a profile
          Joined,        \* how many rows of a join with its services and regions a row makes
          Me,            \* the reader
          ListName,      \* the lists that are read
          Filter,        \* what the reader may filter by
          RawLimit,      \* the limit in the query; 0 stands for none and for no number
          DEFAULT_LIMIT, MAX_LIMIT,
          Time,          \* of the stamps
          MaxWrites,     \* bound: writes while the client reads
          FirstItems     \* the rows there may be at first, with their stamps and statuses

Status == {"pending", "approved", "rejected"}

\* No two of the rows have one stamp.
InOrder(items, stamps) == \A i, j \in items : stamps[i] = stamps[j] => i = j

\* The clients of messages send a limit that validation accepts.
ASSUME ReaderAssumption ==
    /\ MaxWrites \in Nat
    /\ \A f \in Filter : f.status \in Status \cup {"any"}
    /\ RawLimit \subseteq Int
    /\ MAX_LIMIT \in Nat /\ DEFAULT_LIMIT \in 1 .. MAX_LIMIT
ASSUME ItemAssumption ==
    /\ Time \subseteq Int
    /\ Joined \in [Item -> Nat \ {0}]
    /\ \A f \in FirstItems :
          /\ f.present \subseteq Item /\ IsFiniteSet(f.present)
          /\ f.stamp \in [Item -> Time] /\ InOrder(f.present, f.stamp)
          /\ f.status \in [Item -> Status]

VARIABLES
    present,   \* the rows of the table
    stamp,     \* what the list is ordered by
    status,    \* the status of each row
    unborn,    \* the rows that are not inserted yet
    writes,    \* how many writes there were
    list,      \* the list that is read
    filter,
    limit,
    page,      \* the page that is asked for
    stage,     \* whether the client is about to ask, waits for an answer, or has the last page
    answered,  \* the queries of the page that have answered
    total,     \* what the count of the page found
    found,     \* the rows of the page
    pages,     \* the pages the client has got
    kept,      \* history: the rows that were in the list all the time, and were not moved
    shifted,   \* history: a row left the list, or came to stand further back
    torn       \* history: the list grew after the page's count and before its rows

table == <<present, stamp, status, unborn, writes>>

reader == <<list, filter, limit, page, stage, answered, total, found, pages>>

pagingVars == <<table, reader, kept, shifted, torn>>

-----------------------------------------------------------------------------
(* parsePaginationQuery and buildPaginationMeta.                           *)

Least(a, b) == IF a <= b THEN a ELSE b
Most(a, b) == IF a >= b THEN a ELSE b

\* Number(raw) || DEFAULT_LIMIT, at least 1 and at most MAX_LIMIT.
ParseLimit(raw) == Least(Most(IF raw = 0 THEN DEFAULT_LIMIT ELSE raw, 1), MAX_LIMIT)

\* Faulty variant, for testing OffsetComplete: the last page that is not full is not counted.
FloorPages(count) == count \div limit

TotalPages(count) == (count + limit - 1) \div limit

HasNextPage(count) == page < TotalPages(count)

-----------------------------------------------------------------------------
(* The WHERE of each list.                                                 *)

StatusAsked(i) == filter.status \in {"any", status[i]}
TextAsked(i) == filter.text \in {"any", TextOf[i]}

Users(i) == StatusAsked(i) /\ filter.role \in {"any", RoleOf[i]} /\ TextAsked(i)
AllProfiles(i) == StatusAsked(i) /\ TextAsked(i)
AllReviews(i) == StatusAsked(i) /\ TextAsked(i)
HelpDesk(i) == StatusAsked(i)
Approved(i) == status[i] = "approved" /\ TextAsked(i) /\ OwnerOf[i] # Me
ApprovedReviews(i) == status[i] = "approved"
MyReviews(i) == OwnerOf[i] = Me
Favourites(i) == OwnerOf[i] = Me
Conversations(i) == OwnerOf[i] = Me /\ TextAsked(i)
Messages(i) == TRUE

Matches(i) ==
    CASE list = "users"            -> Users(i)
      [] list = "all_profiles"     -> AllProfiles(i)
      [] list = "all_reviews"      -> AllReviews(i)
      [] list = "help_desk"        -> HelpDesk(i)
      [] list = "profiles"         -> Approved(i)
      [] list = "approved_reviews" -> ApprovedReviews(i)
      [] list = "my_reviews"       -> MyReviews(i)
      [] list = "favourites"       -> Favourites(i)
      [] list = "conversations"    -> Conversations(i)
      [] list = "messages"         -> Messages(i)

Listed == {i \in present : Matches(i)}

\* The rows of a set that ORDER BY puts before i.
Newer(i, items) == {j \in items : stamp[j] > stamp[i]}

\* The rows of the join that the favourites' count, which lacks distinct, is of.
JoinedRows == UNION {{i} \X (1 .. Joined[i]) : i \in Listed}

Got == UNION {pages[n] : n \in DOMAIN pages}

PagingTypeOK ==
    /\ present \subseteq Item /\ IsFiniteSet(present)
    /\ stamp \in [Item -> Time] /\ InOrder(present, stamp)
    /\ status \in [Item -> Status]
    /\ unborn \subseteq Item \ present /\ writes \in 0 .. MaxWrites
    /\ list \in ListName /\ filter \in Filter
    /\ limit \in 1 .. MAX_LIMIT /\ page \in Nat \ {0}
    /\ stage \in {"ask", "wait", "done"}
    /\ answered \subseteq {"count", "rows"}
    /\ total \in Nat
    /\ found \subseteq Item
    /\ pages \in Seq(SUBSET Item)
    /\ kept \subseteq Listed
    /\ shifted \in BOOLEAN /\ torn \in BOOLEAN

PagingInit ==
    /\ \E f \in FirstItems : present = f.present /\ stamp = f.stamp /\ status = f.status
    /\ unborn = Item \ present /\ writes = 0
    /\ list \in ListName /\ filter \in Filter
    /\ limit \in {ParseLimit(raw) : raw \in RawLimit}
    /\ page = 1 /\ stage = "ask" /\ answered = {} /\ total = 0 /\ found = {}
    /\ pages = << >>
    /\ kept = Listed
    /\ shifted = FALSE /\ torn = FALSE

-----------------------------------------------------------------------------
(* A page by its offset.                                                   *)

AskPage ==
    /\ stage = "ask"
    /\ stage' = "wait" /\ answered' = {} /\ total' = 0 /\ found' = {} /\ torn' = FALSE
    /\ UNCHANGED <<table, list, filter, limit, page, pages, kept, shifted>>

\* The conversations are counted after their rows were read.
CountRows ==
    /\ stage = "wait" /\ list # "messages" /\ "count" \notin answered
    /\ list = "conversations" => "rows" \in answered
    /\ total' = Cardinality(IF list = "favourites" THEN JoinedRows ELSE Listed)
    /\ answered' = answered \cup {"count"}
    /\ UNCHANGED <<table, list, filter, limit, page, stage, found, pages, kept, shifted, torn>>

\* LIMIT and OFFSET.
ReadRows ==
    /\ stage = "wait" /\ list # "messages" /\ "rows" \notin answered
    /\ LET offset == (page - 1) * limit
       IN found' = {i \in Listed : Cardinality(Newer(i, Listed)) \in offset .. offset + limit - 1}
    /\ answered' = answered \cup {"rows"}
    /\ UNCHANGED <<table, list, filter, limit, page, stage, total, pages, kept, shifted, torn>>

\* The client asks for the next page as long as hasNextPage says so.
TakePage ==
    /\ stage = "wait" /\ answered = {"count", "rows"}
    /\ pages' = Append(pages, found)
    /\ IF HasNextPage(total)
         THEN stage' = "ask" /\ page' = page + 1
         ELSE stage' = "done" /\ UNCHANGED page
    /\ UNCHANGED <<table, list, filter, limit, answered, total, found, kept, shifted, torn>>

-----------------------------------------------------------------------------
(* The messages by their cursor.                                           *)

\* Faulty variant, for testing CursorExact: the cursor's message is compared with <=.
OlderOrSame ==
    {i \in Listed : pages # << >> => \A j \in pages[Len(pages)] : stamp[i] <= stamp[j]}

\* The messages older than the cursor, which is the oldest of the last page.
Older ==
    {i \in Listed : pages # << >> => \A j \in pages[Len(pages)] : stamp[i] < stamp[j]}

\* listMessages: the cursor's message is looked up first, which nothing changes; then one
\* more than the limit is read, to know whether there are more.
CursorPage ==
    /\ stage = "wait" /\ list = "messages"
    /\ pages' = Append(pages, {i \in Older : Cardinality(Newer(i, Older)) < limit})
    /\ stage' = IF Cardinality(Older) > limit THEN "ask" ELSE "done"
    /\ UNCHANGED <<table, list, filter, limit, page, answered, total, found, kept, shifted, torn>>

-----------------------------------------------------------------------------
(* The writers.                                                            *)

\* What a write does to the history.
Noted ==
    /\ kept' = kept \cap Listed'
    /\ shifted' = (shifted \/ ~(Listed \subseteq Listed'))
    /\ torn' = (torn \/ (~(Listed' \subseteq Listed) /\ answered = {"count"}))

Writes == stage # "done" /\ writes < MaxWrites /\ writes' = writes + 1

Unused(t) == \A i \in present : stamp[i] # t

\* A row is inserted.  Its time is taken before its INSERT is committed, so rows of a later
\* time may be there already.
InsertItem(i, t) ==
    /\ i \in unborn /\ Unused(t) /\ Writes
    /\ unborn' = unborn \ {i}
    /\ present' = present \cup {i} /\ stamp' = [stamp EXCEPT ![i] = t]
    /\ UNCHANGED <<status, reader>>
    /\ Noted

\* A favourite is removed, or a user is erased: with all reviews, and out of the conversations.
DeleteItem(i) ==
    /\ i \in present /\ list \notin {"users", "help_desk", "messages"} /\ Writes
    /\ present' = present \ {i}
    /\ UNCHANGED <<stamp, status, unborn, reader>>
    /\ Noted

\* An admin decides; a help request is resolved; a user is erased.
Decide(i, s) ==
    /\ i \in present /\ list \notin {"conversations", "messages"} /\ s # status[i] /\ Writes
    /\ status' = [status EXCEPT ![i] = s]
    /\ UNCHANGED <<present, stamp, unborn, reader>>
    /\ Noted

\* A message is sent: updated_at of its conversation becomes the time when the statement was
\* sent.  Of two senders the one that waited for the other's transaction turns it back.
Touch(i, t) ==
    /\ i \in present /\ list = "conversations" /\ Unused(t) /\ Writes
    /\ stamp' = [stamp EXCEPT ![i] = t]
    /\ kept' = kept \ {i}
    /\ shifted' = (shifted \/ (i \in Listed /\ t < stamp[i]))
    /\ UNCHANGED <<present, status, unborn, reader, torn>>

PagingNext ==
    \/ AskPage \/ CountRows \/ ReadRows \/ TakePage \/ CursorPage
    \/ \E i \in Item :
          \/ DeleteItem(i)
          \/ \E s \in Status : Decide(i, s)
          \/ \E t \in Time : InsertItem(i, t) \/ Touch(i, t)

PagingSpec == PagingInit /\ [][PagingNext]_pagingVars
-----------------------------------------------------------------------------
(* Properties.                                                             *)

\* Nobody is skipped by an offset: a client that reads to the last page has got every row that
\* was in the list all along and was not moved, however many were inserted meanwhile; unless a
\* row left the list or was turned back in it, which shifts others to a page already read, or
\* one was inserted between the two queries of the last page.
OffsetComplete ==
    stage = "done" /\ list # "messages" /\ ~shifted /\ ~torn => kept \subseteq Got

\* The cursor is exact: whatever is sent meanwhile, each page is older than all pages before it,
\* so that no message comes twice, and the client has in the end every message there was when
\* it began.
CursorExact ==
    list = "messages" =>
        /\ \A m, n \in DOMAIN pages : m < n =>
              \A i \in pages[m], j \in pages[n] : stamp[j] < stamp[i]
        /\ stage = "done" => kept \subseteq Got

-----------------------------------------------------------------------------
(* The inductive invariant.                                                *)

Missing == kept \ Got

\* A row that is kept and that the client has not got stands behind the pages it has got; the
\* page it waits for brings what stands on it; and the last page leaves no row behind.
OffsetInv ==
    list # "messages" /\ ~shifted =>
        /\ \A i \in Missing : (page - 1) * limit <= Cardinality(Newer(i, Listed))
        /\ stage = "wait" /\ "rows" \in answered =>
              \A i \in Missing \ found : page * limit <= Cardinality(Newer(i, Listed))
        /\ stage = "wait" /\ answered = {"count"} /\ ~torn => Cardinality(Listed) <= total
        /\ stage = "wait" /\ answered = {"count", "rows"} /\ ~torn =>
              Missing \subseteq found \/ page * limit < total
        /\ list = "conversations" => answered # {"count"}

\* A message that the client has not got is older than the last page, and every page but the
\* last of all has a message, which the next cursor is.
CursorInv ==
    list = "messages" =>
        /\ answered = {}
        /\ \A n \in DOMAIN pages : pages[n] \subseteq Listed
        /\ stage # "done" => Missing \subseteq Older /\ \A n \in DOMAIN pages : pages[n] # {}

PagingInv == PagingTypeOK /\ OffsetComplete /\ CursorExact /\ OffsetInv /\ CursorInv
=============================================================================
