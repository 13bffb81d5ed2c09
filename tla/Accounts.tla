------------------------------ MODULE Accounts ------------------------------
(***************************************************************************)
(* The rows of the tables users and admins, and the calls that read and    *)
(* write them: the end of a verification, refresh, logout, becomeTradie,   *)
(* the updates of one's own account, deleteMe, the erasure by an admin     *)
(* (AuthService, UserService, AdminUsersService) and the login, refresh,   *)
(* logout and change of password of an admin (AdminAuthService).           *)
(*                                                                         *)
(* A handler reads a row in one query and writes it in another, and calls  *)
(* on the same row interleave in between.  There are two ways to write:    *)
(* an UPDATE of given columns (the token, the verified flag), and the      *)
(* update of an instance read before, which sets the columns that differ   *)
(* from what was read (module SequelizeRow).                               *)
(*                                                                         *)
(* A token is named by the call that issued it.  Left out: the names,      *)
(* which behave as the avatar, and lastLogin, which nothing reads.  A      *)
(* Bearer token stays valid whatever becomes of its account (authenticate- *)
(* User looks at the signature only), so any call may start at any time.   *)
(***************************************************************************)
EXTENDS Naturals, FiniteSets, SequelizeRow

CONSTANTS Call,       \* the requests
          User,       \* the rows of users
          Admin,      \* the rows of admins
          Value,      \* e-mails, phones, avatars and passwords
          Request,    \* what a call may ask
          Table,      \* the accounts and profiles when the first call arrives
          DeletedPhone, \* the phone that an erased user is given: "deleted_" and the first
                        \* eight digits of the id
          Null        \* NULL, and an absent field

Account == User \cup Admin

\* The code tests a user for "suspended" only and an admin for "active" only: an inactive
\* user goes the way of an active one, an inactive admin that of a suspended one.
Status == {"active", "suspended", "deleted"}

Role == {"customer", "tradie", "admin"}

ProfileStatus == {"none", "pending", "approved", "rejected"}

Kind == {"sign_in", "refresh", "logout", "become_tradie", "update_me", "update_avatar",
         "delete_me", "erase", "admin_login", "change_password", "set_up", "approve",
         "reject"}

Contact == {"email", "phone"}

Column == {"status", "role", "email", "phone", "avatar", "password", "isPhoneVerified",
           "refreshToken"}

Flag == {"yes", "no"}

\* The instances are read without the token and the password, but where a login or a
\* change of password asks for them.
NotLoaded == "not loaded"

Held == Value \cup Call \cup {Null} \cup Status \cup Role \cup Flag

\* A field that a request does not carry is Null.  A sign-in names no account: it finds
\* the one that has the phone or the e-mail.  The columns that an update asks for are
\* "fields"; a password sent to be checked is "given".
IsRequest(r) ==
    /\ r.kind \in Kind
    /\ r.account \in Account
    /\ r.fields \in [{"email", "phone", "avatar", "password"} -> Value \cup {Null}]
    /\ r.given \in Value \cup {Null}
    /\ r.kind \in {"become_tradie", "update_me", "update_avatar", "delete_me", "erase",
                   "set_up", "approve", "reject"} => r.account \in User
    /\ r.kind \in {"admin_login", "change_password"} => r.account \in Admin

\* Two rows of users share no phone, and no e-mail unless it is NULL.
Unique(table) ==
    \A u, v \in User : u # v =>
        /\ table[u]["phone"] # table[v]["phone"]
        /\ table[u]["email"] # Null => table[u]["email"] # table[v]["email"]

IsRow(row) ==
    /\ row \in [Column -> Held]
    /\ row["status"] \in Status
    /\ row["role"] \in Role
    /\ row["isPhoneVerified"] \in Flag
    /\ row["refreshToken"] \in Call \cup {Null}

ASSUME AccountAssumption == User \cap Admin = {}
ASSUME RequestAssumption == \A r \in Request : IsRequest(r)
ASSUME TableAssumption ==
    \A t \in Table :
        /\ t.accounts \in [Account -> [Column -> Held]]
        /\ \A a \in Account : IsRow(t.accounts[a]) /\ t.accounts[a]["refreshToken"] = Null
        /\ Unique(t.accounts)
        /\ \A a \in Admin : t.accounts[a]["role"] = "admin"
        /\ t.profile \in [User -> ProfileStatus]
ASSUME PhoneAssumption == DeletedPhone \in [User -> Value]
ASSUME NullAssumption == 
    Null \notin Call \cup Account \cup Value \cup Status \cup Role \cup Flag
ASSUME LoadedAssumption == NotLoaded \notin Held

VARIABLES
    accounts,   \* the rows, by id
    profile,    \* the status of the profile of each user, "none" without one
    request,    \* what each call asks
    pc,         \* the query each call waits for
    target,     \* the account a call works on, Null for a sign-in that has yet to find it
    instance,   \* the row a call read
    issued,     \* the role in the tokens a call made
    outcome,    \* what each call answered
    earned,     \* history: the users that were tradies at first, or were ever approved
    before,     \* history: the calls that had returned when a call began
    touched     \* history: the columns of its account that others wrote since a call wrote
                \* them or, where it did not, since it read the row

vars == <<accounts, profile, request, pc, target, instance, issued, outcome, earned,
          before, touched>>

Outcomes == {"none", "done", "ok", "tokens", "not_tradie", "conflict", "unauthorized", "forbidden",
             "wrong_password", "error"}

Label == {"start", "read_profile", "check_email", "check_phone", "find", "promote",
          "verify_phone", "store_token", "clear_token", "update", "refetch", "profile",
          "done"}

TypeOK ==
    /\ accounts \in [Account -> [Column -> Held]]
    /\ \A a \in Account : IsRow(accounts[a])
    /\ profile \in [User -> ProfileStatus]
    /\ request \in [Call -> Request]
    /\ pc \in [Call -> Label]
    /\ target \in [Call -> Account \cup {Null}]
    /\ instance \in [Call -> [Column -> Held \cup {NotLoaded}]]
    /\ \A c \in Call : instance[c]["role"] \in Role \cup {Null}
    /\ issued \in [Call -> Role \cup {Null}]
    /\ outcome \in [Call -> Outcomes]
    /\ earned \in SUBSET User
    /\ before \in [Call -> SUBSET Call]
    /\ touched \in [Call -> SUBSET Column]

Init ==
    /\ \E t \in Table : accounts = t.accounts /\ profile = t.profile
    /\ request \in [Call -> Request]
    /\ pc = [c \in Call |-> "start"]
    /\ target = [c \in Call |-> IF request[c].kind = "sign_in" THEN Null
                                                           ELSE request[c].account]
    /\ instance = [c \in Call |-> [col \in Column |-> Null]]
    /\ issued = [c \in Call |-> Null]
    /\ outcome = [c \in Call |-> "none"]
    /\ earned = {u \in User : accounts[u]["role"] = "tradie" \/ profile[u] = "approved"}
    /\ before = [c \in Call |-> {}]
    /\ touched = [c \in Call |-> {}]
-----------------------------------------------------------------------------
Is(c, kinds) == request[c].kind \in kinds

Goto(c, label) ==
    /\ pc' = [pc EXCEPT ![c] = label]
    /\ UNCHANGED outcome

Return(c, o) ==
    /\ pc' = [pc EXCEPT ![c] = "done"]
    /\ outcome' = [outcome EXCEPT ![c] = o]

\* The columns that call c sets, with the values it wants there.
Asked(c) ==
    LET f == request[c].fields
        given == [col \in {k \in DOMAIN f : f[k] # Null} |-> f[col]]
    IN CASE Is(c, {"update_me", "update_avatar", "change_password"}) -> given
         [] Is(c, {"delete_me"}) -> [col \in {"status"} |-> "deleted"]
         [] Is(c, {"erase"}) ->
              [col \in Column \ {"role"} |->
                  CASE col = "status" -> "deleted"
                    [] col = "phone" -> DeletedPhone[request[c].account]
                    [] col = "isPhoneVerified" -> "no"
                    [] OTHER -> Null]
         [] Is(c, {"logout"}) -> [col \in {"refreshToken"} |-> Null]
         [] Is(c, {"refresh", "admin_login"}) -> [col \in {"refreshToken"} |-> c]
         [] Is(c, {"become_tradie"}) ->
              [col \in {"role", "refreshToken"} |-> IF col = "role" THEN "tradie" ELSE c]
         [] Is(c, {"sign_in"}) ->
              [col \in {"refreshToken"} \cup (IF f["phone"] # Null THEN {"isPhoneVerified"}
                                                                   ELSE {})
                  |-> IF col = "refreshToken" THEN c ELSE "yes"]

\* What the history says once call c has written columns cols.
Touch(c, cols) ==
    touched' = [d \in Call |-> IF d = c THEN touched[d] \ cols
                               ELSE IF target[d] = target[c] THEN touched[d] \cup cols
                               ELSE touched[d]]

\* UPDATE of columns cols, to what call c asked, in the row of its account.
Write(c, cols) ==
    /\ accounts' = [accounts EXCEPT ![target[c]] = Set(@, cols, Asked(c))]
    /\ Touch(c, cols)

\* The guards of the routes look at the signature of the token alone.
Arrive(c) ==
    /\ pc[c] = "start"
    /\ Goto(c, CASE Is(c, {"logout"}) -> "clear_token"
                 [] Is(c, {"become_tradie"}) -> "read_profile"
                 [] Is(c, {"update_me"}) ->
                      IF request[c].fields["email"] # Null THEN "check_email"
                      ELSE IF request[c].fields["phone"] # Null THEN "check_phone"
                      ELSE "find"
                 [] Is(c, {"set_up", "approve", "reject"}) -> "profile"
                 [] OTHER -> "find")
    /\ before' = [before EXCEPT ![c] = {d \in Call : pc[d] = "done"}]
    /\ UNCHANGED <<accounts, profile, request, target, instance, issued, earned, touched>>

(***************************************************************************)
(* updateMe looks whether another account has the e-mail, then the phone.  *)
(***************************************************************************)
Taken(c, col) == \E u \in User \ {target[c]} : accounts[u][col] = request[c].fields[col]

CheckEmail(c) ==
    /\ pc[c] = "check_email"
    /\ \/ Taken(c, "email") /\ Return(c, "conflict")
       \/ /\ ~Taken(c, "email")
          /\ Goto(c, IF request[c].fields["phone"] # Null THEN "check_phone" ELSE "find")
    /\ UNCHANGED <<accounts, profile, request, target, instance, issued, earned, before,
                   touched>>

CheckPhone(c) ==
    /\ pc[c] = "check_phone"
    /\ \/ Taken(c, "phone") /\ Return(c, "conflict")
       \/ ~Taken(c, "phone") /\ Goto(c, "find")
    /\ UNCHANGED <<accounts, profile, request, target, instance, issued, earned, before,
                   touched>>

\* Faulty variant, for testing RoleEarned: any profile will do.
ReadAnyProfile(c) ==
    /\ pc[c] = "read_profile"
    /\ \/ profile[target[c]] = "none" /\ Return(c, "not_tradie")
       \/ profile[target[c]] # "none" /\ Goto(c, "find")
    /\ UNCHANGED <<accounts, profile, request, target, instance, issued, earned, before,
                   touched>>

\* becomeTradie goes on only with an approved profile.
ReadProfile(c) ==
    /\ pc[c] = "read_profile"
    /\ \/ profile[target[c]] # "approved" /\ Return(c, "not_tradie")
       \/ profile[target[c]] = "approved" /\ Goto(c, "find")
    /\ UNCHANGED <<accounts, profile, request, target, instance, issued, earned, before,
                   touched>>

(***************************************************************************)
(* The query that reads the account, and what the handler decides on it.   *)
(* A sign-in finds the user by phone or e-mail and does not look at the    *)
(* status; a refresh refuses a suspended user, and an admin who is not     *)
(* active.  No call compares the token that is stored.                     *)
(***************************************************************************)
Finds(c) ==
    IF Is(c, {"sign_in"})
      THEN {u \in User : \E col \in Contact : /\ request[c].fields[col] # Null
                                              /\ accounts[u][col] = request[c].fields[col]}
      ELSE {request[c].account}

Refused(c, a) ==
    \/ Is(c, {"refresh"}) /\ a \in User /\ accounts[a]["status"] = "suspended"
    \/ Is(c, {"refresh", "admin_login"}) /\ a \in Admin /\ accounts[a]["status"] # "active"

WrongPassword(c, a) ==
    Is(c, {"admin_login", "change_password"}) /\ accounts[a]["password"] # request[c].given

Instance(a) ==
    [col \in Column |-> IF col \in {"password", "refreshToken"} THEN NotLoaded
                                                                ELSE accounts[a][col]]

AfterFind(c, a) ==
    CASE Is(c, {"refresh", "admin_login"}) -> "store_token"
      [] Is(c, {"sign_in"}) ->
           IF request[c].fields["phone"] # Null /\ accounts[a]["isPhoneVerified"] = "no"
             THEN "verify_phone" ELSE "store_token"
      [] Is(c, {"become_tradie"}) ->
           IF accounts[a]["role"] # "tradie" THEN "promote" ELSE "store_token"
      [] OTHER -> "update"

Find(c) ==
    /\ pc[c] = "find"
    /\ \/ /\ Finds(c) = {}
          /\ Return(c, "unauthorized")
          /\ UNCHANGED <<target, instance, touched>>
       \/ \E a \in Finds(c) :
            IF Refused(c, a) \/ WrongPassword(c, a)
              THEN /\ Return(c, IF Refused(c, a) THEN "forbidden" ELSE "wrong_password")
                   /\ UNCHANGED <<target, instance, touched>>
              ELSE /\ target' = [target EXCEPT ![c] = a]
                   /\ instance' = [instance EXCEPT ![c] = Instance(a)]
                   /\ touched' = [touched EXCEPT ![c] = {}]
                   /\ Goto(c, AfterFind(c, a))
    /\ UNCHANGED <<accounts, profile, request, issued, earned, before>>

\* Faulty variant, for testing OneOwner: a schema without unique indexes.
NothingRefuses(table) == FALSE

\* users.phone and users.email have unique indexes.
IndexRefuses(table) == ~Unique(table)

\* Faulty variant, for testing AnswerSticks and DeletedStaysDeleted: every column of the
\* instance is written, not the changed ones.
UpdateAll(c) ==
    /\ pc[c] = "update"
    /\ LET a   == target[c]
           row == [col \in Column |-> IF col \in DOMAIN Asked(c) THEN Asked(c)[col]
                                     ELSE IF instance[c][col] = NotLoaded THEN accounts[a][col]
                                     ELSE instance[c][col]]
           table == [accounts EXCEPT ![a] = row]
       IN \/ IndexRefuses(table) /\ Return(c, "error") /\ UNCHANGED <<accounts, touched>>
          \/ /\ ~IndexRefuses(table)
             /\ Touch(c, Changed(instance[c], Asked(c)))
             /\ accounts' = table
             /\ Return(c, "ok")
    /\ UNCHANGED <<profile, request, target, instance, issued, earned, before>>

\* instance.update(...): updateMe, updateAvatar, deleteMe, changePassword; and deleteUser,
\* whose transaction has deleted by then what the user owns, the profile too, and commits.
Update(c) ==
    /\ pc[c] = "update"
    /\ LET a     == target[c]
           cols  == Changed(instance[c], Asked(c))
           table == [accounts EXCEPT ![a] = Set(@, cols, Asked(c))]
       IN \/ /\ IndexRefuses(table)
             /\ Return(c, "error")
             /\ UNCHANGED <<accounts, profile, touched>>
          \/ /\ ~IndexRefuses(table)
             /\ Write(c, cols)
             /\ profile' = IF Is(c, {"erase"}) THEN [profile EXCEPT ![a] = "none"]
                                               ELSE profile
             /\ Return(c, "ok")
    /\ UNCHANGED <<request, target, instance, issued, earned, before>>

ClearToken(c) ==
    /\ pc[c] = "clear_token"
    /\ Write(c, {"refreshToken"})
    /\ Return(c, "ok")
    /\ UNCHANGED <<profile, request, target, instance, issued, earned, before>>

VerifyPhone(c) ==
    /\ pc[c] = "verify_phone"
    /\ Write(c, {"isPhoneVerified"})
    /\ Goto(c, "store_token")
    /\ UNCHANGED <<profile, request, target, instance, issued, earned, before>>

\* Faulty variant, for testing RoleFollows: User.update, which leaves the instance alone.
PromoteRow(c) ==
    /\ pc[c] = "promote"
    /\ Write(c, {"role"})
    /\ Goto(c, "store_token")
    /\ UNCHANGED <<profile, request, target, instance, issued, earned, before>>

\* user.role = "tradie"; user.save()
Promote(c) ==
    /\ pc[c] = "promote"
    /\ Write(c, {"role"})
    /\ instance' = [instance EXCEPT ![c]["role"] = "tradie"]
    /\ Goto(c, "store_token")
    /\ UNCHANGED <<profile, request, target, issued, earned, before>>

\* generateTokens signs the role of the instance; then the refresh token is stored.
StoreToken(c) ==
    /\ pc[c] = "store_token"
    /\ Write(c, {"refreshToken"})
    /\ issued' = [issued EXCEPT ![c] = instance[c]["role"]]
    /\ IF Is(c, {"sign_in", "admin_login"}) THEN Goto(c, "refetch") ELSE Return(c, "tokens")
    /\ UNCHANGED <<profile, request, target, instance, earned, before>>

Refetch(c) ==
    /\ pc[c] = "refetch"
    /\ Return(c, "tokens")
    /\ UNCHANGED <<accounts, profile, request, target, instance, issued, earned, before,
                   touched>>
-----------------------------------------------------------------------------
\* A query fails, and with it the call; refresh answers 401 to that too.
Fails(c) ==
    /\ pc[c] \notin {"start", "done"}
    /\ Return(c, IF Is(c, {"refresh"}) THEN "unauthorized" ELSE "error")
    /\ UNCHANGED <<accounts, profile, request, target, instance, issued, earned, before,
                   touched>>

\* What the calls of other modules leave of the profile: the first set-up makes it pending,
\* and an admin approves or rejects it as often as they like.
ChangeProfile(c) ==
    /\ pc[c] = "profile"
    /\ LET u == target[c]
       IN /\ profile' = [profile EXCEPT ![u] =
                CASE Is(c, {"set_up"}) -> IF @ = "none" THEN "pending" ELSE @
                  [] Is(c, {"approve"}) -> IF @ = "none" THEN @ ELSE "approved"
                  [] OTHER -> IF @ = "none" THEN @ ELSE "rejected"]
          /\ earned' = IF profile'[u] = "approved" THEN earned \cup {u} ELSE earned
    /\ Return(c, "done")
    /\ UNCHANGED <<accounts, request, target, instance, issued, before, touched>>

Step(c) ==
    \/ Arrive(c) \/ CheckEmail(c) \/ CheckPhone(c) \/ ReadProfile(c) \/ Find(c)
    \/ Update(c) \/ ClearToken(c) \/ VerifyPhone(c) \/ Promote(c) \/ StoreToken(c)
    \/ Refetch(c) \/ ChangeProfile(c) \/ Fails(c)

Next == \E c \in Call : Step(c)

Spec == Init /\ [][Next]_vars
-----------------------------------------------------------------------------
\* Of two updates that both found a phone or an e-mail free, one gets it: no two accounts
\* ever share one.
OneOwner == Unique(accounts)

Answered(c) == outcome[c] \in {"ok", "tokens"}

\* A call that answered has its columns in the row, each of them, unless another call
\* wrote that column after it did; or, where it found the column as it wanted it and so
\* did not write it, after it had read the row.  Calls that set other columns of the same
\* row never undo it.
AnswerSticks ==
    \A c \in Call : Answered(c) =>
        \A col \in DOMAIN Asked(c) :
            accounts[target[c]][col] = Asked(c)[col] \/ col \in touched[c]

\* A deleted account stays deleted, also under updates that read it while it was active.
DeletedStaysDeleted ==
    [][\A a \in Account :
          accounts[a]["status"] = "deleted" => accounts'[a]["status"] = "deleted"]_vars

\* Nobody is a tradie, in the table or in a token, but who signed up as one or had an
\* approved profile at some time.
RoleEarned ==
    /\ \A u \in User : accounts[u]["role"] = "tradie" => u \in earned
    /\ \A c \in Call : issued[c] = "tradie" => target[c] \in earned

\* Once becomeTradie has answered with tokens, they and the tokens of every later call carry
\* the new role, those of refreshes and sign-ins included: no update brings the old one back.
RoleFollows ==
    \A c, d \in Call :
        Is(d, {"become_tradie"}) /\ outcome[d] = "tokens" /\ outcome[c] = "tokens"
        /\ target[c] = target[d] /\ (d \in before[c] \/ c = d)
            => issued[c] = "tradie"
-----------------------------------------------------------------------------
\* Which calls reach which queries and answers, and that only a sign-in may lack a target.
Placed(c) ==
    /\ pc[c] \in {"check_email", "check_phone"} => Is(c, {"update_me"})
    /\ pc[c] \in {"read_profile", "promote"} => Is(c, {"become_tradie"})
    /\ pc[c] = "verify_phone" => Is(c, {"sign_in"}) /\ request[c].fields["phone"] # Null
    /\ pc[c] = "refetch" => Is(c, {"sign_in", "admin_login"})
    /\ pc[c] = "store_token" \/ outcome[c] = "tokens" \/ issued[c] # Null =>
          Is(c, {"sign_in", "refresh", "become_tradie", "admin_login"})
    /\ issued[c] # Null => pc[c] \in {"refetch", "done"}
    /\ pc[c] = "clear_token" => Is(c, {"logout"})
    /\ pc[c] = "find" => ~Is(c, {"logout", "set_up", "approve", "reject"})
    /\ pc[c] = "profile" => Is(c, {"set_up", "approve", "reject"})
    /\ pc[c] = "update" =>
          Is(c, {"update_me", "update_avatar", "delete_me", "erase", "change_password"})
    /\ outcome[c] = "ok" => Is(c, {"update_me", "update_avatar", "delete_me", "erase",
                                   "change_password", "logout"})
    /\ ~Is(c, {"sign_in"}) => target[c] = request[c].account
    /\ Is(c, {"sign_in"}) => target[c] \in User \cup {Null}
    /\ pc[c] \notin {"start", "find", "done"} \/ Answered(c) \/ issued[c] # Null
          => target[c] # Null
    /\ pc[c] # "done" => outcome[c] = "none"
    /\ \A d \in before[c] : pc[d] = "done"

\* A copy is what the row holds, but for what others wrote since.
Copied(c) ==
    pc[c] \in {"update", "verify_phone", "promote"} =>
        \A col \in Column : \/ instance[c][col] = NotLoaded
                            \/ instance[c][col] = accounts[target[c]][col]
                            \/ col \in touched[c]

Holds(c, col) == accounts[target[c]][col] = Asked(c)[col] \/ col \in touched[c]

\* How far call c has come with the columns it asks for.
Sticking(c) ==
    /\ pc[c] = "store_token" => \A col \in DOMAIN Asked(c) \ {"refreshToken"} : Holds(c, col)
    /\ pc[c] = "refetch" \/ Answered(c) => \A col \in DOMAIN Asked(c) : Holds(c, col)

\* becomeTradie has seen an approved profile; no copy is a tradie's who is none.
Earned(c) ==
    /\ Is(c, {"become_tradie"}) /\ pc[c] \in {"find", "promote", "store_token"}
          => target[c] \in earned
    /\ pc[c] \in {"verify_phone", "store_token", "promote"} /\ instance[c]["role"] = "tradie"
          => target[c] \in earned

Promoted(d) == Is(d, {"become_tradie"}) /\ outcome[d] = "tokens"

\* Where the new role has got to.
Following(c) ==
    /\ Is(c, {"become_tradie"}) /\ (pc[c] = "store_token" \/ outcome[c] = "tokens")
          => accounts[target[c]]["role"] = "tradie"
    /\ Is(c, {"become_tradie"}) /\ pc[c] = "store_token" => instance[c]["role"] = "tradie"
    /\ Promoted(c) => issued[c] = "tradie"
    /\ \A d \in before[c] : Promoted(d) /\ target[c] = target[d] =>
          /\ pc[c] \in {"promote", "verify_phone", "store_token"} => instance[c]["role"] = "tradie"
          /\ pc[c] = "refetch" \/ outcome[c] = "tokens" => issued[c] = "tradie"

\* The inductive invariant.
Inv ==
    /\ TypeOK
    /\ OneOwner
    /\ RoleEarned
    /\ \A c \in Call : Placed(c) /\ Copied(c) /\ Sticking(c) /\ Earned(c) /\ Following(c)
    /\ \A a \in Admin : accounts[a]["role"] # "tradie"
    /\ \A u \in User : profile[u] = "approved" => u \in earned
=============================================================================
