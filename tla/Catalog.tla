------------------------------ MODULE Catalog ------------------------------
(***************************************************************************)
(* The categories that admins keep and everybody reads, and the requests   *)
(* to the help desk: AdminCategoriesService, CategoryService, HelpDesk-    *)
(* Service and AdminHelpDeskService.  The regions are kept by the same     *)
(* code under other names (AdminRegionsService, RegionService); this       *)
(* module is of either table.                                              *)
(*                                                                         *)
(* A call is a request; what it does in one query is one action.  A row is *)
(* a function on its columns; the icon, the description and the order of a *)
(* category are one column, "rest".  A row that a call inserts has the     *)
(* call as its id.  No row is ever deleted: removing a category makes it   *)
(* inactive.  The names carry the component's prefix where those of the    *)
(* classifier, which reads this table, would be the same.                  *)
(***************************************************************************)
EXTENDS Naturals, FiniteSets, SequelizeRow

CONSTANTS Call,            \* the requests
          Old,             \* the rows there are at first
          CategoryName,
          Rest,
          CatalogRequest,  \* what a call may ask
          FirstRows,       \* what the tables may hold when the first call arrives
          NoRow

RowId == Old \cup Call

Column == {"name", "active", "rest"}

Category ==
    {row \in [Column -> CategoryName \cup BOOLEAN \cup Rest] :
        row["name"] \in CategoryName /\ row["active"] \in BOOLEAN /\ row["rest"] \in Rest}

HelpRequest == [{"status"} -> {"pending", "resolved"}]

Kind == {"create", "update", "remove", "get", "list", "ask", "resolve"}

\* The values of a body that passed validation.
AreValues(values) ==
    /\ DOMAIN values \subseteq Column
    /\ "name" \in DOMAIN values => values["name"] \in CategoryName
    /\ "active" \in DOMAIN values => values["active"] \in BOOLEAN
    /\ "rest" \in DOMAIN values => values["rest"] \in Rest

IsRequest(r) ==
    /\ r.kind \in Kind /\ r.id \in RowId /\ AreValues(r.values)
    /\ r.kind = "create" => DOMAIN r.values = {"name", "rest"}

IsCategory(row) == row # NoRow /\ DOMAIN row = Column

IsHelpRequest(row) == row # NoRow /\ DOMAIN row = {"status"}

\* No two categories of one name.
OneEach(table) ==
    \A i, j \in RowId : IsCategory(table[i]) /\ IsCategory(table[j])
                        /\ table[i]["name"] = table[j]["name"] => i = j

ASSUME NoRowAssumption == NoRow \notin Category \cup HelpRequest
ASSUME RequestAssumption == \A r \in CatalogRequest : IsRequest(r)
ASSUME TableAssumption ==
    \A t \in FirstRows : /\ t \in [RowId -> Category \cup HelpRequest \cup {NoRow}]
                         /\ OneEach(t)
                         /\ \A c \in Call : t[c] = NoRow

VARIABLES
    rows,      \* the rows of both tables, by id
    body,      \* what each call asks
    query,     \* the query each call waits for
    instance,  \* the row a call read
    shown,     \* the categories that a listing answers
    mail,      \* the notification of a help request, which nobody waits for
    answer     \* what each call answered

catalogVars == <<rows, body, query, instance, shown, mail, answer>>

CatalogTypeOK ==
    /\ rows \in [RowId -> Category \cup HelpRequest \cup {NoRow}]
    /\ body \in [Call -> CatalogRequest]
    /\ query \in [Call -> {"start", "find_name", "insert", "find", "write", "get", "list",
                           "ask", "done"}]
    /\ instance \in [Call -> Category \cup HelpRequest \cup {NoRow}]
    /\ shown \in [Call -> SUBSET RowId]
    /\ mail \in [Call -> {"none", "sending", "sent", "failed"}]
    /\ answer \in [Call -> {"none", "ok", "not_found", "conflict", "error"}]

CatalogInit ==
    /\ rows \in FirstRows
    /\ body \in [Call -> CatalogRequest]
    /\ query = [c \in Call |-> "start"]
    /\ instance = [c \in Call |-> NoRow]
    /\ shown = [c \in Call |-> {}]
    /\ mail = [c \in Call |-> "none"]
    /\ answer = [c \in Call |-> "none"]
-----------------------------------------------------------------------------
Is(c, kinds) == body[c].kind \in kinds

Goto(c, label) == query' = [query EXCEPT ![c] = label] /\ UNCHANGED answer

Return(c, o) ==
    /\ query' = [query EXCEPT ![c] = "done"]
    /\ answer' = [answer EXCEPT ![c] = o]

HasName(c) == "name" \in DOMAIN body[c].values

Active == {i \in RowId : IsCategory(rows[i]) /\ rows[i]["active"]}

\* The handler up to its first query.
Arrive(c) ==
    /\ query[c] = "start"
    /\ Goto(c, CASE Is(c, {"create"})                        -> "find_name"
                 [] Is(c, {"update"}) /\ HasName(c)          -> "find_name"
                 [] Is(c, {"update"}) /\ ~HasName(c)         -> "find"
                 [] Is(c, {"remove", "resolve"})             -> "find"
                 [] Is(c, {"get", "list", "ask"})            -> body[c].kind)
    /\ UNCHANGED <<rows, body, instance, shown, mail>>

\* findByName: another row of the name is a conflict.
FindName(c) ==
    /\ query[c] = "find_name"
    /\ LET others == {i \in RowId : /\ IsCategory(rows[i])
                                    /\ rows[i]["name"] = body[c].values["name"]
                                    /\ Is(c, {"create"}) \/ i # body[c].id}
       IN IF others # {} THEN Return(c, "conflict")
          ELSE Goto(c, IF Is(c, {"create"}) THEN "insert" ELSE "find")
    /\ UNCHANGED <<rows, body, instance, shown, mail>>

\* Faulty variant, for testing OneName: the migration makes no index.
NothingRefuses(table) == FALSE

\* The unique index on the name; errorHandler makes a 500 of its violation.
IndexRefuses(table) == ~OneEach(table)

Store(c, table) ==
    IF IndexRefuses(table)
      THEN Return(c, "error") /\ UNCHANGED rows
      ELSE Return(c, "ok") /\ rows' = table

Insert(c) ==
    /\ query[c] = "insert"
    /\ LET values == body[c].values
           row == [col \in Column |-> IF col = "active" THEN TRUE ELSE values[col]]
       IN Store(c, [rows EXCEPT ![c] = row])
    /\ UNCHANGED <<body, instance, shown, mail>>

\* findByPk of a category or, for resolve, of a help request.
Find(c) ==
    /\ query[c] = "find"
    /\ LET row == rows[body[c].id]
           found == IF Is(c, {"resolve"}) THEN IsHelpRequest(row) ELSE IsCategory(row)
       IN IF found THEN Goto(c, "write") /\ instance' = [instance EXCEPT ![c] = row]
          ELSE Return(c, "not_found") /\ UNCHANGED instance
    /\ UNCHANGED <<rows, body, shown, mail>>

\* What a call sets: softDelete sets isActive, resolve the status.
Asked(c) ==
    CASE Is(c, {"remove"})  -> [col \in {"active"} |-> FALSE]
      [] Is(c, {"resolve"}) -> [col \in {"status"} |-> "resolved"]
      [] OTHER              -> body[c].values

\* Faulty variant, for testing ActiveIfAsked: the whole instance is written back.
WriteAll(c) ==
    /\ query[c] = "write"
    /\ Store(c, [rows EXCEPT ![body[c].id] = Set(instance[c], DOMAIN Asked(c), Asked(c))])
    /\ UNCHANGED <<body, instance, shown, mail>>

\* instance.update: the columns that differ from what was read.
Write(c) ==
    /\ query[c] = "write"
    /\ Store(c, [rows EXCEPT ![body[c].id] = Set(@, Changed(instance[c], Asked(c)), Asked(c))])
    /\ UNCHANGED <<body, instance, shown, mail>>

\* The public routes show what is active.
Get(c) ==
    /\ query[c] = "get"
    /\ Return(c, IF body[c].id \in Active THEN "ok" ELSE "not_found")
    /\ UNCHANGED <<rows, body, instance, shown, mail>>

List(c) ==
    /\ query[c] = "list"
    /\ shown' = [shown EXCEPT ![c] = Active]
    /\ Return(c, "ok")
    /\ UNCHANGED <<rows, body, instance, mail>>

\* createRequest: the answer does not wait for the mail to the admin.
CreateRequest(c) ==
    /\ query[c] = "ask"
    /\ rows' = [rows EXCEPT ![c] = [col \in {"status"} |-> "pending"]]
    /\ mail' = [mail EXCEPT ![c] = "sending"]
    /\ Return(c, "ok")
    /\ UNCHANGED <<body, instance, shown>>

MailEnds(c) ==
    /\ mail[c] = "sending"
    /\ \E end \in {"sent", "failed"} : mail' = [mail EXCEPT ![c] = end]
    /\ UNCHANGED <<rows, body, query, instance, shown, answer>>

\* A query fails: the answer is a 500.
QueryFails(c) ==
    /\ query[c] \notin {"start", "done"}
    /\ Return(c, "error")
    /\ UNCHANGED <<rows, body, instance, shown, mail>>

CatalogNext ==
    \E c \in Call :
        \/ Arrive(c) \/ FindName(c) \/ Insert(c) \/ Find(c) \/ Write(c)
        \/ Get(c) \/ List(c) \/ CreateRequest(c) \/ MailEnds(c) \/ QueryFails(c)

CatalogSpec == CatalogInit /\ [][CatalogNext]_catalogVars
-----------------------------------------------------------------------------

\* However creations and renamings that all found a name free interleave, no two categories
\* come to have one name.
OneName == OneEach(rows)

\* A category that was removed comes back only by the write of a call that asks for it: not by
\* a renaming that read it before it was removed, and not by a failed one.
ActiveIfAsked ==
    [][ \A i \in RowId : IsCategory(rows[i]) /\ i \notin Active /\ i \in Active' =>
            \E c \in Call : /\ Is(c, {"update"}) /\ body[c].id = i
                            /\ "active" \in DOMAIN body[c].values /\ body[c].values["active"]
                            /\ query[c] = "write" /\ answer'[c] = "ok" ]_catalogVars
-----------------------------------------------------------------------------
(* The inductive invariant.                                                *)

\* The query a call waits for is one of its kind, and what it read is still of that kind.
Fits(c) ==
    /\ query[c] = "find_name" => Is(c, {"create", "update"})
    /\ query[c] = "insert" => Is(c, {"create"})
    /\ query[c] = "find" => Is(c, {"update", "remove", "resolve"})
    /\ query[c] \in {"get", "list", "ask"} => Is(c, {query[c]})
    /\ query[c] = "write" =>
           \/ /\ Is(c, {"resolve"})
              /\ IsHelpRequest(rows[body[c].id]) /\ IsHelpRequest(instance[c])
           \/ /\ Is(c, {"update", "remove"})
              /\ IsCategory(rows[body[c].id]) /\ IsCategory(instance[c])
    /\ query[c] # "done" => rows[c] = NoRow

CatalogInv == CatalogTypeOK /\ OneName /\ \A c \in Call : Fits(c)
=============================================================================
